-------------------------- MODULE MCTicketLifecycle --------------------------
(***************************************************************************)
(* Symmetry for the model checking of TicketLifecycle.                     *)
(***************************************************************************)
EXTENDS TicketLifecycle, TLC

Symmetry == Permutations(Requests)
=============================================================================
