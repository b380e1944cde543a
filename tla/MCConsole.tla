----------------------------- MODULE MCConsole -----------------------------
\* Model checking of Console: an organization with one row, one without any.
\* Rows meet only in the list that holds them; two mutations of one row do.
EXTENDS Console
CONSTANTS a, b, a1
HomeOf == [r \in {a1} |-> a]
AllPages == {"members", "keys", "webhooks", "bases", "documents"}
=============================================================================
