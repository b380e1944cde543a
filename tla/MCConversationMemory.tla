------------------------ MODULE MCConversationMemory ------------------------
(***************************************************************************)
(* Symmetry for the model checking of ConversationMemory.                  *)
(***************************************************************************)
EXTENDS ConversationMemory, TLC

Symmetry == Permutations(Turns) \cup Permutations(Workers)
=============================================================================
