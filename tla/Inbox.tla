------------------------------- MODULE Inbox -------------------------------
(***************************************************************************)
(* The conversations inbox: two lists that are fetched apart and joined,   *)
(* conversations and tickets, the tickets that this page changed itself    *)
(* (ticketOverrides), and the conversation that is open beside the list.   *)
(* A ticket is known by the number of its last change.                     *)
(***************************************************************************)
EXTENDS Naturals, FiniteSets, FiniteSetsExt

CONSTANTS Convs,      \* conversations
          Nobody,     \* no conversation
          MaxChanges, \* bound on the changes of tickets
          MaxCalls    \* bound on the calls under way

ASSUME InboxAssumption == Nobody \notin Convs /\ MaxChanges \in Nat \ {0} /\ MaxCalls \in Nat

Lists == {"conversations", "tickets"}

VARIABLES
  exists,     \* backend: the conversations
  version,    \* backend: the ticket of each, 0 when there is none
  changes,    \* backend: number of changes so far
  reads,      \* useSupportSnapshot: the fetches, one of each list
  rows,       \* conversations.data: what is listed, if anything is
  ticketsOf,  \* tickets.data
  overrides,  \* ticketOverrides, 0 when there is none
  selected,   \* ?id=
  calls,      \* changes and removals under way
  mine,       \* history: the latest change that was answered to this page
  tangled     \* history: two changes of a ticket were under way from here together

inboxVars == <<exists, version, changes, reads, rows, ticketsOf, overrides, selected,
               calls, mine, tangled>>

Versions == [Convs -> 0..MaxChanges]
Call == [op: {"change", "remove"}, of: Convs, st: {"asked", "ok", "failed"}, ver: 0..MaxChanges]
None0 == [c \in Convs |-> 0]
AskedBoth == [l \in Lists |-> [st |-> "asked", convs |-> {}, vers |-> None0]]

InboxInit ==
  /\ exists = Convs /\ changes = 1
  /\ version \in [Convs -> 0..1]
  /\ reads = AskedBoth
  /\ rows = {} /\ ticketsOf = None0 /\ overrides = None0
  /\ selected = Nobody /\ calls = {} /\ mine = None0 /\ tangled = FALSE

ServeRead(l) ==
  /\ reads[l].st = "asked"
  /\ \/ reads' = [reads EXCEPT ![l] = [st |-> "ok", convs |-> exists, vers |-> version]]
     \/ reads' = [reads EXCEPT ![l].st = "failed"]
  /\ UNCHANGED <<exists, version, changes, rows, ticketsOf, overrides, selected, calls, mine, tangled>>

\* A list that fails is empty on the page, and an error covers both.
ArriveRead(l) ==
  /\ reads[l].st \in {"ok", "failed"}
  /\ reads' = [reads EXCEPT ![l] = [st |-> IF reads[l].st = "ok" THEN "none" ELSE "error",
                                    convs |-> {}, vers |-> None0]]
  /\ IF l = "conversations"
     THEN rows' = reads[l].convs /\ UNCHANGED ticketsOf
     ELSE ticketsOf' = reads[l].vers /\ UNCHANGED rows
  /\ UNCHANGED <<exists, version, changes, overrides, selected, calls, mine, tangled>>

RetryReads ==
  /\ \E l \in Lists : reads[l].st = "error"
  /\ reads' = AskedBoth
  /\ UNCHANGED <<exists, version, changes, rows, ticketsOf, overrides, selected, calls, mine, tangled>>

Select(c) ==
  /\ selected # c /\ c \in rows \cup {Nobody} /\ selected' = c
  /\ UNCHANGED <<exists, version, changes, reads, rows, ticketsOf, overrides, calls, mine, tangled>>

\* The ticket of a row.  Mutant: the lists win over what the page changed itself.
TicketOf_Lists(c) == IF ticketsOf[c] # 0 THEN ticketsOf[c] ELSE overrides[c]
TicketOf(c) == IF overrides[c] # 0 THEN overrides[c] ELSE ticketsOf[c]

\* filtered: the rows a state filter lists.
Filtered(state) ==
  CASE state = "all"       -> rows
    [] state = "ai"        -> {c \in rows : TicketOf(c) = 0}
    [] state = "escalated" -> {c \in rows : TicketOf(c) # 0}

\* The detail pane is there for a selected row: escalate, or EscalationControls.
Start(op) ==
  /\ selected \in rows /\ Cardinality(calls) < MaxCalls
  /\ LET call == [op |-> op, of |-> selected, st |-> "asked", ver |-> 0] IN
       /\ call \notin calls /\ calls' = calls \cup {call}
       /\ tangled' = (tangled \/ (op = "change" /\ \E other \in calls : other.of = selected))
  /\ UNCHANGED <<exists, version, changes, reads, rows, ticketsOf, overrides, selected, mine>>

ChangeTicket == Start("change")
RemoveConversation == Start("remove")

\* A colleague, or the AI, changes a ticket or opens one.
Colleague(c) ==
  /\ c \in exists /\ changes < MaxChanges
  /\ changes' = changes + 1 /\ version' = [version EXCEPT ![c] = changes + 1]
  /\ UNCHANGED <<exists, reads, rows, ticketsOf, overrides, selected, calls, mine, tangled>>

ServeCall(call) ==
  /\ call \in calls /\ call.st = "asked"
  /\ \/ /\ call.op = "change" /\ call.of \in exists /\ changes < MaxChanges
        /\ changes' = changes + 1 /\ version' = [version EXCEPT ![call.of] = changes + 1]
        /\ calls' = (calls \ {call}) \cup {[call EXCEPT !.st = "ok", !.ver = changes + 1]}
        /\ UNCHANGED exists
     \/ /\ call.op = "remove" /\ call.of \in exists
        /\ exists' = exists \ {call.of} /\ version' = [version EXCEPT ![call.of] = 0]
        /\ calls' = (calls \ {call}) \cup {[call EXCEPT !.st = "ok"]}
        /\ UNCHANGED changes
     \/ /\ calls' = (calls \ {call}) \cup {[call EXCEPT !.st = "failed"]}
        /\ UNCHANGED <<exists, version, changes>>
  /\ UNCHANGED <<reads, rows, ticketsOf, overrides, selected, mine, tangled>>

\* onTicketChange; onDeleted, which clears the selection, whatever it is by now,
\* and reads both lists again.
FinishCall(call) ==
  /\ call \in calls /\ call.st # "asked" /\ calls' = calls \ {call}
  /\ \/ /\ call.st = "ok" /\ call.op = "change"
        /\ overrides' = [overrides EXCEPT ![call.of] = call.ver]
        /\ mine' = [mine EXCEPT ![call.of] = Max({@, call.ver})]
        /\ UNCHANGED <<selected, reads>>
     \/ /\ call.st = "ok" /\ call.op = "remove"
        /\ selected' = Nobody /\ reads' = AskedBoth
        /\ UNCHANGED <<overrides, mine>>
     \/ call.st = "failed" /\ UNCHANGED <<overrides, mine, selected, reads>>
  /\ UNCHANGED <<exists, version, changes, rows, ticketsOf, tangled>>

InboxNext ==
  \/ RetryReads \/ ChangeTicket \/ RemoveConversation
  \/ \E l \in Lists : ServeRead(l) \/ ArriveRead(l)
  \/ \E c \in Convs : Colleague(c)
  \/ \E c \in Convs \cup {Nobody} : Select(c)
  \/ \E call \in calls : ServeCall(call) \/ FinishCall(call)

-----------------------------------------------------------------------------
InboxTypeOK ==
  /\ exists \subseteq Convs /\ version \in Versions /\ changes \in 0..MaxChanges
  /\ reads \in [Lists -> [st: {"none", "asked", "ok", "failed", "error"},
                          convs: SUBSET Convs, vers: Versions]]
  /\ rows \subseteq Convs /\ ticketsOf \in Versions /\ overrides \in Versions
  /\ selected \in Convs \cup {Nobody} /\ calls \subseteq Call /\ mine \in Versions
  /\ tangled \in BOOLEAN

\* A change made on this page is not taken back by a list that was read before it
\* and arrives after it, nor by one whose fetch fails: a row shows its ticket as
\* it was after the page's last change, or later, and one that was escalated
\* here is not listed as "Handled by AI" again.
OwnChangesStay ==
  ~tangled =>
    /\ \A c \in Filtered("all") : TicketOf(c) >= mine[c]
    /\ \A c \in Filtered("ai") : mine[c] = 0
=============================================================================
