---------------------------- MODULE AtomicTicket ----------------------------
(***************************************************************************)
(* What a ticket promises to those who look at the committed tables and    *)
(* listen to the webhooks, whoever works on it at the same time.  A column *)
(* changes alone and together with the event that records it; a status has *)
(* been announced by then.  A request that found its value already there   *)
(* may record it too, which gives the trail an event for no more than a    *)
(* value the column has had.  Nothing happens to a ticket that is deleted. *)
(***************************************************************************)

CONSTANTS Start,  \* the columns as the ticket was created
          Worth,  \* the values of each column
          Final   \* the statuses that resolve a ticket

VARIABLES exists, row, trail, fired

ticketVars == <<exists, row, trail, fired>>

Init == exists = TRUE /\ row = Start /\ trail = {} /\ fired = {}

Had(col, v) == v = Start[col] \/ <<col, v>> \in trail

Announced(s) ==
  /\ [kind |-> "TICKET_UPDATED", status |-> s] \in fired
  /\ s \in Final => [kind |-> "TICKET_RESOLVED", status |-> s] \in fired

\* Before the commit, which may fail.
Announce(kinds, s) ==
  /\ exists
  /\ fired' = fired \cup [kind : kinds, status : {s}]
  /\ UNCHANGED <<exists, row, trail>>

Change(col, v) ==
  /\ exists
  /\ col = "status" => Announced(v)
  /\ row' = [row EXCEPT ![col] = v]
  /\ trail' = trail \cup {<<col, v>>}
  /\ UNCHANGED <<exists, fired>>

Repeat(col, v) ==
  /\ exists
  /\ Had(col, v)
  /\ trail' = trail \cup {<<col, v>>}
  /\ UNCHANGED <<exists, row, fired>>

Delete ==
  /\ exists
  /\ exists' = FALSE
  /\ UNCHANGED <<row, trail, fired>>

Next ==
  \/ Delete
  \/ \E kinds \in SUBSET {"TICKET_UPDATED", "TICKET_RESOLVED"}, s \in Worth["status"] : Announce(kinds, s)
  \/ \E col \in DOMAIN Worth : \E v \in Worth[col] : Change(col, v) \/ Repeat(col, v)

Spec == Init /\ [][Next]_ticketVars
=============================================================================
