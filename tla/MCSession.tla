----------------------------- MODULE MCSession -----------------------------
\* Model checking of Session: two tabs, two calls, the tokens as model values.
EXTENDS Session
CONSTANTS t1, t2, c1, c2, boot, adopt
=============================================================================
