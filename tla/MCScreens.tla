----------------------------- MODULE MCScreens -----------------------------
\* Model checking of Screens: three tickets of one of two organizations and two
\* priorities in the list; four days of four instants for viewers west, on and east of UTC.
EXTENDS Screens
CONSTANTS o, p, status, priority, v1, v2, none, c, text, choice, default, w, i1, i2, x1, r1, r2, e1, e2
OrgOfTicket    == [t \in Tickets |-> o]
TeamOfCase     == [k \in Cases |-> IF k = r2 THEN p ELSE o]
AroundUTC      == {-1, 0, 1}

SubscribersOf  == [e \in Events |-> IF e = e1 THEN Hooks ELSE {1}]

\* The deliveries are read while one event is sent, once and without failures, to
\* endpoints that stay: what more happens to endpoints is explored with the dialog
\* closed.
Reading == enquiries # <<>> \/ entries.st # "null"
OneSent ==
  /\ dispatch[e2].st = "none" /\ dispatch[e1].left = 0 /\ paused = {}
  /\ \A h \in Hooks : /\ endpoint[h].st = "up"
                       /\ \A i \in DOMAIN deliveries[h] : deliveries[h][i].ok

\* These flags are never lowered, and the one property of the visit they belong to
\* says nothing any more once they are up: what follows need not be explored.  Of a
\* list with stray pages or slid ones it says that the rows pass the filter, which
\* is checked up to the page that makes them so.  Until one changes, the tickets
\* take turns in their priorities.
Telling ==
  /\ Reading => OneSent
  /\ ~(crossed \/ tangled \/ strayed \/ blind \/ late \/ moved)
  /\ ~slid /\ ~(stray /\ more.st = "none")
  /\ moves = 0 => \A t \in 1..opened : prio[t] = IF t = 2 THEN 2 ELSE 1
=============================================================================
