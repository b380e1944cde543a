------------------------------- MODULE Audit -------------------------------
(***************************************************************************)
(* The audit log, which has no endpoint of its own: once the two lists of  *)
(* useSupportSnapshot have been read, the events of the newest tickets are *)
(* requested, one request per ticket, and merged.  The requests are made   *)
(* anew when the ids of the listed tickets change.  An event stands for    *)
(* its place in the order of creation; a ticket is created with its first. *)
(* The table cuts off at 300 rows, which the model does not reach.         *)
(***************************************************************************)
EXTENDS Naturals, Sequences, FiniteSets, FiniteSetsExt

CONSTANTS Teams,     \* organizations of the viewer
          Cases,     \* tickets
          TeamOf,    \* the organization of each
          LogCap,    \* maxTickets (40)
          MaxEvents  \* bound on the events recorded

ASSUME AuditAssumption ==
  TeamOf \in [Cases -> Teams] /\ LogCap \in Nat \ {0} /\ MaxEvents \in Nat

VARIABLES
  trail,   \* backend: the ticket of each event
  team,    \* currentOrg
  lists,   \* the fetches of the two lists
  seen,    \* those that were settled once
  listed,  \* tickets.data
  log,     \* the requests for the events of listed tickets, and what they gave
  since    \* history: number of events when the page was opened

auditVars == <<trail, team, lists, seen, listed, log, since>>

Both  == {"conversations", "tickets"}
Asked2 == [l \in Both |-> "loading"]

First(c)  == Min({e \in DOMAIN trail : trail[e] = c})
Newest(S) == {c \in S : Cardinality({d \in S : First(d) > First(c)}) < LogCap}

\* loadAuditLog: a request for each of the newest tickets.
LoadAuditLog(S) == [of |-> S, waits |-> Newest(S), lost |-> {}, rows |-> {}]

AuditInit ==
  /\ trail = <<>> /\ since = 0
  /\ team \in Teams
  /\ lists = Asked2 /\ seen = {} /\ listed = {} /\ log = LoadAuditLog({})

Record(c) ==
  /\ Len(trail) < MaxEvents /\ trail' = Append(trail, c)
  /\ UNCHANGED <<team, lists, seen, listed, log, since>>

-----------------------------------------------------------------------------
OpenAudit ==
  /\ since' = Len(trail)
  /\ lists' = Asked2 /\ seen' = {} /\ listed' = {} /\ log' = LoadAuditLog({})
  /\ UNCHANGED <<trail, team>>

\* The lists are fetched for the new organization, and stay until they arrive.
SwitchTeam(o) ==
  /\ o # team /\ team' = o /\ lists' = Asked2
  /\ UNCHANGED <<trail, seen, listed, log, since>>

\* ticketKey.  Mutant: the number of tickets.
TicketKey_Number(S) == Cardinality(S)
TicketKey(S) == S

\* A list is answered, or fails and is empty.  Only then, and once both were
\* settled, may the events be requested anew.
ReadLists(l) ==
  /\ lists[l] = "loading"
  /\ seen' = seen \cup {l}
  /\ \E st \in {"ok", "failed"} :
       /\ lists' = [lists EXCEPT ![l] = st]
       /\ listed' = IF l # "tickets" THEN listed
                    ELSE {c \in Range(trail) : st = "ok" /\ TeamOf[c] = team}
  /\ log' = IF seen' = Both /\ TicketKey(listed') # TicketKey(log.of)
            THEN LoadAuditLog(listed') ELSE log
  /\ UNCHANGED <<trail, team, since>>

\* The events of a ticket arrive; a request that fails is left out.
ReadEvents(c) ==
  /\ c \in log.waits
  /\ \/ log' = [log EXCEPT !.waits = @ \ {c},
                           !.rows = @ \cup {e \in DOMAIN trail : trail[e] = c}]
     \/ log' = [log EXCEPT !.waits = @ \ {c}, !.lost = @ \cup {c}]
  /\ UNCHANGED <<trail, team, lists, seen, listed, since>>

\* Error, skeleton or table.
AuditScreen ==
  IF \E l \in Both : lists[l] = "failed" THEN "error"
  ELSE IF seen # Both \/ log.waits # {} THEN "skeleton" ELSE "table"

\* "Try again" reads the lists again, not the events.
RetryAudit ==
  /\ AuditScreen = "error" /\ lists' = Asked2
  /\ UNCHANGED <<trail, team, seen, listed, log, since>>

AuditNext ==
  \/ OpenAudit \/ RetryAudit
  \/ \E c \in Cases : Record(c) \/ ReadEvents(c)
  \/ \E o \in Teams : SwitchTeam(o)
  \/ \E l \in Both : ReadLists(l)

-----------------------------------------------------------------------------
AuditTypeOK ==
  /\ trail \in Seq(Cases) /\ team \in Teams /\ listed \subseteq Cases /\ since \in Nat
  /\ lists \in [Both -> {"loading", "ok", "failed"}] /\ seen \subseteq Both
  /\ log.of \subseteq Cases /\ log.waits \cup log.lost \subseteq Newest(log.of)
  /\ log.rows \subseteq DOMAIN trail

\* Once the lists have been read again after a switch or a "Try again", the table
\* is the organization's own log: no other's events, whatever was under way, and
\* all that its newest tickets had when the page was opened, unless a request for
\* them failed, which the page does not tell.
LogIsTheOrganizations ==
  AuditScreen = "table" /\ lists["tickets"] = "ok" =>
    /\ \A e \in log.rows : TeamOf[trail[e]] = team
    /\ \A e \in 1..since : trail[e] \in Newest(listed) \ log.lost => e \in log.rows
=============================================================================
