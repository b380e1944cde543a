---------------------------- MODULE MCWorkspace ----------------------------
\* Model checking of Workspace: an organization the viewer owns, one of others.
EXTENDS Workspace
CONSTANTS own, other, none
=============================================================================
