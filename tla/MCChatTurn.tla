----------------------------- MODULE MCChatTurn -----------------------------
(***************************************************************************)
(* Symmetry for the model checking of ChatTurn: turns, conversations and   *)
(* ticket ids are interchangeable.                                         *)
(***************************************************************************)
EXTENDS ChatTurn, TLC

Symmetry == Permutations(Turns) \cup Permutations(Convs) \cup Permutations(Tickets)
=============================================================================
