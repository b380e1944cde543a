--------------------------- MODULE TicketLifecycle ---------------------------
(***************************************************************************)
(* One ticket after its creation: the agents' requests of TicketService,   *)
(* the SLA check that every one of them runs first and that escalates the  *)
(* priority as a side effect of reading, the audit trail (ticket_events)   *)
(* and the webhooks.                                                       *)
(*                                                                         *)
(* A request is a coroutine with its own session. It decides on the row as *)
(* it was when the session loaded it; an UPDATE is emitted only for a      *)
(* column that differs from the loaded value, writes only that column, and *)
(* locks the row until the commit.  The guard _require_member is           *)
(* Membership's subject, and the message of a reply is ConversationMemory's*)
(***************************************************************************)
EXTENDS Naturals, FiniteSets

CONSTANTS Requests,  \* request slots: how many requests are in flight at once
          Agents,    \* members with the SUPPORT role
          First,     \* priority the ticket was created with
          Asked,     \* statuses and priorities the agents ask for
          MaxAge     \* bound: deadlines that pass while the model looks

Statuses   == {"OPEN", "IN_PROGRESS", "WAITING_CUSTOMER", "RESOLVED", "CLOSED"}
Resolved   == {"RESOLVED", "CLOSED"}
Priorities == {"LOW", "MEDIUM", "HIGH", "URGENT"}
Columns    == {"status", "priority", "assignee"}
None       == "none"

ASSUME FirstIsPriority == First \in Priorities
ASSUME AskedIsKnown    == Asked \subseteq Statuses \cup Priorities
ASSUME MaxAgeIsDeadline == MaxAge \in 0 .. 3
ASSUME RequestsAreNamed == None \notin Requests
ASSUME AgentsAreNamed  == Agents \cap (Statuses \cup Priorities \cup {None}) = {}

\* The age of the ticket by the deadlines it has passed: 4, 24 and 48 hours. The
\* first, of URGENT after 1 hour, changes nothing: there is nothing above URGENT.
Ages     == 0 .. MaxAge
Deadline == [HIGH |-> 1, MEDIUM |-> 2, LOW |-> 3]
Above    == [LOW |-> "MEDIUM", MEDIUM |-> "HIGH", HIGH |-> "URGENT"]

Rows  == [status : Statuses, priority : Priorities, assignee : Agents \cup {None}]

\* What an agent can send; reply_as_agent is "reply", assign_ticket "assignee".
Calls == [op : {"view", "reply", "delete"}]
         \cup [op : {"status"}, value : Asked \cap Statuses]
         \cup [op : {"priority"}, value : Asked \cap Priorities]
         \cup [op : {"assignee"}, value : Agents]
Idle  == [op |-> None]

\* The ticket as it was created.
Created == [status |-> "OPEN", priority |-> First, assignee |-> None]

\* TICKET_ASSIGNED is fired with TICKET_UPDATED and nothing tells them apart.
Kinds == {"TICKET_UPDATED", "TICKET_RESOLVED"}

VARIABLES
  age,     \* deadlines passed since created_at
  exists,  \* the row of the ticket is there
  row,     \* its committed columns
  trail,   \* changes the committed ticket_events record, as <<column, value>>
  fired,   \* webhooks fired, with the status in their payload
  pc,      \* pc[r]: the await request r performs next
  job,     \* job[r]: arguments of request r
  loaded,  \* loaded[r]: the ticket as the session of r holds it
  lock,    \* the request whose open transaction has written the row, or None
  fresh    \* deleting requests that have read all the ticket's events

vars == <<age, exists, row, trail, fired, pc, job, loaded, lock, fresh>>

Stops == {"idle", "load", "check", "bumped", "write", "log", "commit", "erase", "erased"}

\* Overdue, by the loaded priority and status.
Due(t) ==
  /\ t.status \notin Resolved
  /\ t.priority # "URGENT"
  /\ age >= Deadline[t.priority]

GoTo(r, stop) == pc' = [pc EXCEPT ![r] = stop]
Free(r)       == lock \in {None, r}
Erasing       == \E r \in Requests : pc[r] = "erased"

\* Request r has been answered; its session and what it had loaded are gone.
End(r) ==
  /\ GoTo(r, "idle")
  /\ job'    = [job EXCEPT ![r] = Idle]
  /\ loaded' = [loaded EXCEPT ![r] = Created]

\* Mutant: the session is not closed, and its transaction stays open.
FinishOpen(r) ==
  /\ End(r)
  /\ lock'  = lock
  /\ fresh' = fresh \ {r}

\* The request answers or raises: its session rolls back and lets go.
Finish(r) ==
  /\ End(r)
  /\ lock'  = IF lock = r THEN None ELSE lock
  /\ fresh' = fresh \ {r}

-----------------------------------------------------------------------------
Init ==
  /\ age = 0 /\ exists = TRUE /\ trail = {} /\ fired = {}
  /\ row    = Created
  /\ pc     = [r \in Requests |-> "idle"]
  /\ job    = [r \in Requests |-> Idle]
  /\ loaded = [r \in Requests |-> Created]
  /\ lock = None /\ fresh = {}

Begin(r) ==
  /\ pc[r] = "idle"
  /\ \E j \in Calls : job' = [job EXCEPT ![r] = j]
  /\ GoTo(r, "load")
  /\ UNCHANGED <<age, exists, row, trail, fired, loaded, lock, fresh>>

\* get_by_id, or the SELECT of a list.
Load(r) ==
  /\ pc[r] = "load"
  /\ IF exists
       THEN /\ GoTo(r, "check")
            /\ loaded' = [loaded EXCEPT ![r] = row]
            /\ UNCHANGED <<job, lock, fresh>>
       ELSE Finish(r)
  /\ UNCHANGED <<age, exists, row, trail, fired>>

\* A read is over; any other request goes on to its own work.
AfterCheck(r) ==
  IF job[r].op = "view" THEN End(r) ELSE GoTo(r, "write") /\ UNCHANGED <<job, loaded>>

\* COMMIT lets go of the row, and deleting requests no longer know all events.
Release(r) ==
  /\ lock'  = IF lock = r THEN None ELSE lock
  /\ fresh' = {}

\* _check_sla has nothing to do.
InTime(r) ==
  /\ pc[r] = "check"
  /\ ~Due(loaded[r])
  /\ AfterCheck(r)
  /\ UNCHANGED <<age, exists, row, trail, fired, lock, fresh>>

\* _check_sla: UPDATE of the priority to the one above the LOADED one, and
\* refresh. The UPDATE waits for the row, and raises if it is gone by then.
Escalate(r) ==
  /\ pc[r] = "check"
  /\ Due(loaded[r])
  /\ Free(r)
  /\ IF exists
       THEN /\ lock' = r
            /\ loaded' = [loaded EXCEPT ![r] =
                            [row EXCEPT !.priority = Above[loaded[r].priority]]]
            /\ GoTo(r, "bumped")
            /\ UNCHANGED <<job, fresh>>
       ELSE Finish(r)
  /\ UNCHANGED <<age, exists, row, trail, fired>>

\* Mutant: the escalation leaves no event.
CommitEscalationSilently(r) ==
  /\ pc[r] = "bumped"
  /\ row' = loaded[r]
  /\ AfterCheck(r) /\ Release(r)
  /\ UNCHANGED <<age, exists, trail, fired>>

\* The PRIORITY_CHANGED event of the escalation, and COMMIT. No webhook.
CommitEscalation(r) ==
  /\ pc[r] = "bumped"
  /\ row' = loaded[r]
  /\ trail' = trail \cup {<<"priority", loaded[r].priority>>}
  /\ AfterCheck(r) /\ Release(r)
  /\ UNCHANGED <<age, exists, fired>>

-----------------------------------------------------------------------------
\* Mutant: the UPDATE writes every column as it was loaded.
WriteWholeRow(r) ==
  LET col == job[r].op IN
  /\ pc[r] = "write"
  /\ col \in Columns
  /\ loaded[r][col] # job[r].value
  /\ Free(r)
  /\ IF exists
       THEN /\ lock' = r
            /\ loaded' = [loaded EXCEPT ![r][col] = job[r].value]
            /\ GoTo(r, "log")
            /\ UNCHANGED <<job, fresh>>
       ELSE Finish(r)
  /\ UNCHANGED <<age, exists, row, trail, fired>>

\* update_status, update_priority and assign: UPDATE of the column, refresh.
Write(r) ==
  LET col == job[r].op IN
  /\ pc[r] = "write"
  /\ col \in Columns
  /\ loaded[r][col] # job[r].value
  /\ Free(r)
  /\ IF exists
       THEN /\ lock' = r
            /\ loaded' = [loaded EXCEPT ![r] = [row EXCEPT ![col] = job[r].value]]
            /\ GoTo(r, "log")
            /\ UNCHANGED <<job, fresh>>
       ELSE Finish(r)
  /\ UNCHANGED <<age, exists, row, trail, fired>>

\* The loaded column has the value already: no UPDATE is emitted, whatever the
\* row says by now; the refresh loads it again. A reply writes no column.
WriteNothing(r) ==
  /\ pc[r] = "write"
  /\ job[r].op \in Columns => loaded[r][job[r].op] = job[r].value
  /\ job[r].op # "delete"
  /\ IF exists
       THEN /\ GoTo(r, "log")
            /\ loaded' = [loaded EXCEPT ![r] = row]
            /\ UNCHANGED <<job, lock, fresh>>
       ELSE Finish(r)
  /\ UNCHANGED <<age, exists, row, trail, fired>>

Webhooks(r) ==
  LET kinds == {k \in Kinds :
                  IF k = "TICKET_RESOLVED"
                    THEN job[r].op = "status" /\ job[r].value \in Resolved
                    ELSE job[r].op # "reply"}
  IN  [kind : kinds, status : {loaded[r].status}]

\* Mutant: the webhooks are fired for the priority only.
LogAndAnnouncePriority(r) ==
  /\ pc[r] = "log"
  /\ ~Erasing
  /\ IF exists
       THEN /\ fired' = IF job[r].op = "priority" THEN fired \cup Webhooks(r) ELSE fired
            /\ GoTo(r, "commit")
            /\ UNCHANGED <<job, loaded, lock, fresh>>
       ELSE Finish(r) /\ UNCHANGED fired
  /\ UNCHANGED <<age, exists, row, trail>>

\* The event is inserted, which waits for a DELETE in progress and fails if
\* the ticket is gone; then the webhooks are fired, before the commit.
LogAndAnnounce(r) ==
  /\ pc[r] = "log"
  /\ ~Erasing
  /\ IF exists
       THEN /\ fired' = fired \cup Webhooks(r)
            /\ GoTo(r, "commit")
            /\ UNCHANGED <<job, loaded, lock, fresh>>
       ELSE Finish(r) /\ UNCHANGED fired
  /\ UNCHANGED <<age, exists, row, trail>>

\* COMMIT of the column, if an UPDATE was emitted, and of the event.
Commit(r) ==
  /\ pc[r] = "commit"
  /\ row' = IF lock = r THEN loaded[r] ELSE row
  /\ trail' = IF job[r].op \in Columns
                THEN trail \cup {<<job[r].op, job[r].value>>} ELSE trail
  /\ End(r) /\ Release(r)
  /\ UNCHANGED <<age, exists, fired>>

-----------------------------------------------------------------------------
\* delete_ticket: the cascade reads the events it has to delete ...
ReadEvents(r) ==
  /\ pc[r] = "write"
  /\ job[r].op = "delete"
  /\ fresh' = fresh \cup {r}
  /\ GoTo(r, "erase")
  /\ UNCHANGED <<age, exists, row, trail, fired, job, loaded, lock>>

\* ... and the DELETE of the ticket waits for every open transaction that has
\* written the row or inserted an event, and fails on an event it has not read.
Erase(r) ==
  /\ pc[r] = "erase"
  /\ Free(r)
  /\ \A q \in Requests : pc[q] # "commit"
  /\ IF exists /\ r \in fresh
       THEN /\ lock' = r
            /\ GoTo(r, "erased")
            /\ UNCHANGED <<job, loaded, fresh>>
       ELSE Finish(r)
  /\ UNCHANGED <<age, exists, row, trail, fired>>

CommitErase(r) ==
  /\ pc[r] = "erased"
  /\ exists' = FALSE
  /\ Finish(r)
  /\ UNCHANGED <<age, row, trail, fired>>

\* A database error, a disconnect or a restart: the session rolls back.
Abort(r) ==
  /\ pc[r] # "idle"
  /\ Finish(r)
  /\ UNCHANGED <<age, exists, row, trail, fired>>

\* One more deadline passes.
Tick ==
  /\ age + 1 \in Ages
  /\ age' = age + 1
  /\ UNCHANGED <<exists, row, trail, fired, pc, job, loaded, lock, fresh>>

Step(r) ==
  \/ Load(r) \/ InTime(r) \/ Escalate(r) \/ CommitEscalation(r)
  \/ Write(r) \/ WriteNothing(r) \/ LogAndAnnounce(r) \/ Commit(r)
  \/ ReadEvents(r) \/ Erase(r) \/ CommitErase(r)

Next == Tick \/ \E r \in Requests : Begin(r) \/ Step(r) \/ Abort(r)

\* The event loop runs every started request, and the database grants a row
\* to the transactions that wait for it in turn.
Waiting(r) == Escalate(r) \/ Write(r) \/ LogAndAnnounce(r) \/ Erase(r)
Fairness   == \A r \in Requests : WF_vars(Step(r)) /\ SF_vars(Waiting(r))

Spec     == Init /\ [][Next]_vars
FairSpec == Spec /\ Fairness

-----------------------------------------------------------------------------
\* Every variable stays in its domain.
TypeOK ==
  /\ age \in Ages /\ exists \in BOOLEAN
  /\ row \in Rows
  /\ trail \subseteq Columns \X (Statuses \cup Priorities \cup Agents)
  /\ fired \subseteq [kind : Kinds, status : Statuses]
  /\ pc \in [Requests -> Stops]
  /\ job \in [Requests -> Calls \cup {Idle}]
  /\ loaded \in [Requests -> Rows]
  /\ lock \in Requests \cup {None}
  /\ fresh \subseteq Requests

\* Whoever races whom, and although a request may record a change it did not
\* make, no committed column is unexplained: it has its first value, or
\* ticket_events has an event that gave it the value it has.
ColumnsAreAudited ==
  /\ row.status   = "OPEN" \/ <<"status", row.status>>     \in trail
  /\ row.priority = First  \/ <<"priority", row.priority>> \in trail
  /\ row.assignee = None   \/ <<"assignee", row.assignee>> \in trail

\* Subscribers have seen the status the ticket is in, and a ticket that is
\* resolved or closed was announced as resolved.
StatusIsAnnounced ==
  /\ row.status = "OPEN" \/ [kind |-> "TICKET_UPDATED", status |-> row.status] \in fired
  /\ row.status \in Resolved
       => [kind |-> "TICKET_RESOLVED", status |-> row.status] \in fired

\* No lost update across columns: a commit of one column, escalations
\* included, keeps what others have committed in the other columns since the
\* session loaded the ticket.
OneColumnAtATime ==
  [][\E col \in Columns : \A other \in Columns \ {col} : row'[other] = row[other]]_vars

\* The ticket seen through the commits and the webhooks alone: whatever the
\* sessions hold, a step of one is a step of AtomicTicket, or none.
Atomic == INSTANCE AtomicTicket WITH
  Start <- Created,
  Worth <- [status |-> Statuses, priority |-> Priorities, assignee |-> Agents \cup {None}],
  Final <- Resolved
AtomicTicketSpec == Atomic!Spec

\* Updates wait for each other's row lock, events for a delete and a delete
\* for events, but every request ends.
RequestsEnd == \A r \in Requests : pc[r] # "idle" ~> pc[r] = "idle"
=============================================================================
