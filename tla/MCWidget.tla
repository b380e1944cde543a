------------------------------ MODULE MCWidget ------------------------------
\* Model checking of Widget.
EXTENDS Widget
=============================================================================
