------------------------ MODULE TicketLifecycleProofs ------------------------
(***************************************************************************)
(* TypeOK, ColumnsAreAudited, StatusIsAnnounced, OneColumnAtATime and that *)
(* a ticket implements AtomicTicket, for any number of requests, any       *)
(* agents, any values asked for.                                           *)
(***************************************************************************)
EXTENDS TicketLifecycle, TLAPS

\* The ticket that r holds differs from the committed row in column col only.
Differs(r, col, v) ==
  \A c \in Columns : loaded[r][c] = IF c = col THEN v ELSE row[c]

\* The row lock is held by one open transaction, and what it is about to
\* commit is the committed row with its own column changed.
OpenTransaction ==
  /\ \A r \in Requests : pc[r] = "bumped" => lock = r
  /\ \A r \in Requests : lock = r =>
       \/ pc[r] = "bumped" /\ Differs(r, "priority", loaded[r]["priority"])
       \/ /\ pc[r] \in {"log", "commit"}
          /\ job[r].op \in Columns
          /\ Differs(r, job[r].op, job[r].value)
       \/ pc[r] = "erased"

\* A status about to be committed has been announced.
Announced ==
  \A r \in Requests : (lock = r /\ pc[r] = "commit" /\ job[r].op = "status") =>
    /\ [kind |-> "TICKET_UPDATED", status |-> job[r].value] \in fired
    /\ job[r].value \in Resolved
         => [kind |-> "TICKET_RESOLVED", status |-> job[r].value] \in fired

IInv == TypeOK /\ OpenTransaction /\ Announced /\ ColumnsAreAudited /\ StatusIsAnnounced

-----------------------------------------------------------------------------
\* What the values of a column are, and what changing one does.
Values == [status |-> Statuses, priority |-> Priorities, assignee |-> Agents \cup {None}]

LEMMA RowColumns ==
  ASSUME NEW t \in Rows
  PROVE  /\ t["status"] \in Statuses
         /\ t["priority"] \in Priorities
         /\ t["assignee"] \in Agents \cup {None}
         /\ t.status = t["status"] /\ t.priority = t["priority"] /\ t.assignee = t["assignee"]
BY DEF Rows

LEMMA OneColumnChanged ==
  ASSUME NEW t \in Rows, NEW col \in Columns, NEW v \in Values[col]
  PROVE  /\ [t EXCEPT ![col] = v] \in Rows
         /\ \A c \in Columns : [t EXCEPT ![col] = v][c] = IF c = col THEN v ELSE t[c]
BY DEF Rows, Columns, Values

LEMMA CallValues ==
  ASSUME NEW j \in Calls \cup {Idle}
  PROVE  /\ j.op \in Columns => j.value \in Values[j.op]
         /\ j.op = "status" => j.value \in Statuses
         /\ j.op \in Columns => <<j.op, j.value>> \in Columns \X (Statuses \cup Priorities \cup Agents)
BY DEF Calls, Idle, Columns, Values, None

LEMMA WebhookTypes ==
  ASSUME TypeOK, NEW r \in Requests
  PROVE  Webhooks(r) \subseteq [kind : Kinds, status : Statuses]
<1>1. loaded[r].status \in Statuses
  BY RowColumns DEF TypeOK
<1> QED BY <1>1 DEF Webhooks, Kinds

LEMMA Escalated ==
  ASSUME TypeOK, NEW r \in Requests, Due(loaded[r])
  PROVE  Above[loaded[r].priority] \in Values["priority"]
<1>1. loaded[r].priority \in Priorities \ {"URGENT"}
  BY RowColumns DEF TypeOK, Due
<1> QED BY <1>1 DEF Above, Priorities, Values

-----------------------------------------------------------------------------
LEMMA InitInv == Init => IInv
<1> SUFFICES ASSUME Init PROVE IInv
  OBVIOUS
<1>1. Created \in Rows
  BY FirstIsPriority DEF Created, Rows, Statuses
<1>2. TypeOK
  BY <1>1, MaxAgeIsDeadline DEF Init, TypeOK, Ages, Stops
<1>3. OpenTransaction /\ Announced
  BY RequestsAreNamed DEF Init, OpenTransaction, Announced
<1>4. ColumnsAreAudited /\ StatusIsAnnounced
  BY DEF Init, ColumnsAreAudited, StatusIsAnnounced, Created, Resolved
<1> QED BY <1>2, <1>3, <1>4 DEF IInv

\* What the end of a request does to the variables that are typed.
LEMMA FinishTyped ==
  ASSUME TypeOK, NEW r \in Requests, Finish(r)
  PROVE  /\ pc' \in [Requests -> Stops]
         /\ job' \in [Requests -> Calls \cup {Idle}]
         /\ loaded' \in [Requests -> Rows]
         /\ lock' \in Requests \cup {None}
         /\ fresh' \subseteq Requests
<1>1. Created \in Rows
  BY FirstIsPriority DEF Created, Rows, Statuses
<1> QED BY <1>1 DEF TypeOK, Finish, End, GoTo, Stops

LEMMA AfterCheckTyped ==
  ASSUME TypeOK, NEW r \in Requests, AfterCheck(r)
  PROVE  /\ pc' \in [Requests -> Stops]
         /\ job' \in [Requests -> Calls \cup {Idle}]
         /\ loaded' \in [Requests -> Rows]
<1>1. Created \in Rows
  BY FirstIsPriority DEF Created, Rows, Statuses
<1> QED BY <1>1 DEF TypeOK, AfterCheck, End, GoTo, Stops

LEMMA NextTyped == TypeOK /\ [Next]_vars => TypeOK'
<1> SUFFICES ASSUME TypeOK, [Next]_vars PROVE TypeOK'
  OBVIOUS
<1>1. CASE UNCHANGED vars
  BY <1>1 DEF TypeOK, vars
<1>2. CASE Tick
  BY <1>2 DEF Tick, TypeOK
<1>3. ASSUME NEW r \in Requests, Begin(r) PROVE TypeOK'
  BY <1>3 DEF Begin, TypeOK, GoTo, Stops
<1>4. ASSUME NEW r \in Requests, Load(r) PROVE TypeOK'
  <2>1. CASE exists
    BY <1>4, <2>1 DEF Load, TypeOK, GoTo, Stops
  <2>2. CASE ~exists
    BY <1>4, <2>2, FinishTyped DEF Load, TypeOK
  <2> QED BY <2>1, <2>2
<1>5. ASSUME NEW r \in Requests, InTime(r) PROVE TypeOK'
  BY <1>5, AfterCheckTyped DEF InTime, TypeOK
<1>6. ASSUME NEW r \in Requests, Escalate(r) PROVE TypeOK'
  <2>1. CASE exists
    <3>1. Above[loaded[r].priority] \in Values["priority"]
      BY <1>6, Escalated DEF Escalate
    <3>2. [row EXCEPT !["priority"] = Above[loaded[r].priority]] \in Rows
      BY <3>1, OneColumnChanged DEF TypeOK, Columns
    <3> QED BY <1>6, <2>1, <3>2 DEF Escalate, TypeOK, GoTo, Stops
  <2>2. CASE ~exists
    BY <1>6, <2>2, FinishTyped DEF Escalate, TypeOK
  <2> QED BY <2>1, <2>2
<1>7. ASSUME NEW r \in Requests, CommitEscalation(r) PROVE TypeOK'
  <2>1. <<"priority", loaded[r].priority>> \in Columns \X (Statuses \cup Priorities \cup Agents)
    BY RowColumns DEF TypeOK, Columns
  <2> QED BY <1>7, <2>1, AfterCheckTyped DEF CommitEscalation, Release, TypeOK
<1>8. ASSUME NEW r \in Requests, Write(r) PROVE TypeOK'
  <2>1. CASE exists
    <3> DEFINE col == job[r].op
    <3>1. col \in Columns /\ job[r].value \in Values[col]
      BY <1>8, CallValues DEF Write, TypeOK
    <3>2. [row EXCEPT ![col] = job[r].value] \in Rows
      BY <3>1, OneColumnChanged DEF TypeOK
    <3> QED BY <1>8, <2>1, <3>2 DEF Write, TypeOK, GoTo, Stops
  <2>2. CASE ~exists
    BY <1>8, <2>2, FinishTyped DEF Write, TypeOK
  <2> QED BY <2>1, <2>2
<1>9. ASSUME NEW r \in Requests, WriteNothing(r) PROVE TypeOK'
  <2>1. CASE exists
    BY <1>9, <2>1 DEF WriteNothing, TypeOK, GoTo, Stops
  <2>2. CASE ~exists
    BY <1>9, <2>2, FinishTyped DEF WriteNothing, TypeOK
  <2> QED BY <2>1, <2>2
<1>10. ASSUME NEW r \in Requests, LogAndAnnounce(r) PROVE TypeOK'
  <2>1. CASE exists
    BY <1>10, <2>1, WebhookTypes DEF LogAndAnnounce, TypeOK, GoTo, Stops
  <2>2. CASE ~exists
    BY <1>10, <2>2, FinishTyped DEF LogAndAnnounce, TypeOK
  <2> QED BY <2>1, <2>2
<1>11. ASSUME NEW r \in Requests, Commit(r) PROVE TypeOK'
  <2>1. Created \in Rows
    BY FirstIsPriority DEF Created, Rows, Statuses
  <2>2. trail' \subseteq Columns \X (Statuses \cup Priorities \cup Agents)
    BY <1>11, CallValues DEF Commit, TypeOK
  <2> QED BY <1>11, <2>1, <2>2 DEF Commit, End, Release, TypeOK, GoTo, Stops
<1>12. ASSUME NEW r \in Requests, ReadEvents(r) PROVE TypeOK'
  BY <1>12 DEF ReadEvents, TypeOK, GoTo, Stops
<1>13. ASSUME NEW r \in Requests, Erase(r) PROVE TypeOK'
  <2>1. CASE exists /\ r \in fresh
    BY <1>13, <2>1 DEF Erase, TypeOK, GoTo, Stops
  <2>2. CASE ~(exists /\ r \in fresh)
    BY <1>13, <2>2, FinishTyped DEF Erase, TypeOK
  <2> QED BY <2>1, <2>2
<1>14. ASSUME NEW r \in Requests, CommitErase(r) PROVE TypeOK'
  BY <1>14, FinishTyped DEF CommitErase, TypeOK
<1>15. ASSUME NEW r \in Requests, Abort(r) PROVE TypeOK'
  BY <1>15, FinishTyped DEF Abort, TypeOK
<1> QED BY <1>1, <1>2, <1>3, <1>4, <1>5, <1>6, <1>7, <1>8, <1>9, <1>10, <1>11,
           <1>12, <1>13, <1>14, <1>15 DEF Next, Step

-----------------------------------------------------------------------------
\* A request that ends lets go of the row, and takes no other request's lock.
LEMMA FinishKeepsOpen ==
  ASSUME TypeOK, OpenTransaction, NEW r \in Requests, row' = row, Finish(r)
  PROVE  OpenTransaction'
<1>1. pc' = [pc EXCEPT ![r] = "idle"] /\ job' = [job EXCEPT ![r] = Idle]
      /\ loaded' = [loaded EXCEPT ![r] = Created]
  BY DEF Finish, End, GoTo
<1>2. lock' # r
  BY RequestsAreNamed DEF Finish
<1>3. \A q \in Requests \ {r} : pc'[q] = pc[q] /\ job'[q] = job[q] /\ loaded'[q] = loaded[q]
                               /\ (lock' = q <=> lock = q)
  BY <1>1, RequestsAreNamed DEF TypeOK, Finish
<1>4. pc'[r] = "idle"
  BY <1>1 DEF TypeOK
<1> QED BY <1>2, <1>3, <1>4 DEF OpenTransaction, Differs

\* A step of a request that neither takes the lock nor changes the row.
LEMMA QuietKeepsOpen ==
  ASSUME TypeOK, OpenTransaction, NEW r \in Requests,
         row' = row, lock' = lock, lock # r, pc'[r] # "bumped",
         \A q \in Requests \ {r} : pc'[q] = pc[q] /\ job'[q] = job[q] /\ loaded'[q] = loaded[q]
  PROVE  OpenTransaction'
BY DEF OpenTransaction, Differs

\* A request that takes the lock with one column changed.
LEMMA TakeKeepsOpen ==
  ASSUME TypeOK, OpenTransaction, NEW r \in Requests,
         row' = row, lock' = r, job' = job, Free(r),
         \/ pc'[r] = "bumped" /\ Differs(r, "priority", loaded[r]["priority"])'
         \/ pc'[r] = "log" /\ job[r].op \in Columns /\ Differs(r, job[r].op, job[r].value)'
         \/ pc'[r] = "erased",
         \A q \in Requests \ {r} : pc'[q] = pc[q] /\ loaded'[q] = loaded[q]
  PROVE  OpenTransaction'
<1>1. \A q \in Requests \ {r} : lock # q
  BY RequestsAreNamed DEF Free
<1>2. \A q \in Requests : pc'[q] = "bumped" => q = r
  BY <1>1 DEF OpenTransaction
<1> QED BY <1>2 DEF OpenTransaction, Differs

\* A commit lets go of the row: nobody holds it, or another request still does
\* and the row has not changed.
LEMMA ReleaseKeepsOpen ==
  ASSUME TypeOK, OpenTransaction, NEW r \in Requests,
         lock' = IF lock = r THEN None ELSE lock,
         lock = r \/ row' = row, pc'[r] # "bumped",
         \A q \in Requests \ {r} : pc'[q] = pc[q] /\ job'[q] = job[q] /\ loaded'[q] = loaded[q]
  PROVE  OpenTransaction'
<1>1. CASE lock = r
  <2>1. lock' = None
    BY <1>1
  <2>2. \A q \in Requests : pc'[q] # "bumped"
    BY <1>1 DEF OpenTransaction
  <2> QED BY <2>1, <2>2, RequestsAreNamed DEF OpenTransaction
<1>2. CASE lock # r
  <2>1. lock' = lock /\ row' = row
    BY <1>2
  <2> QED BY <1>2, <2>1 DEF OpenTransaction, Differs
<1> QED BY <1>1, <1>2

LEMMA NextOpen == TypeOK /\ OpenTransaction /\ [Next]_vars => OpenTransaction'
<1> SUFFICES ASSUME TypeOK, OpenTransaction, [Next]_vars PROVE OpenTransaction'
  OBVIOUS
<1>1. CASE UNCHANGED vars
  BY <1>1 DEF OpenTransaction, Differs, vars
<1>2. CASE Tick
  BY <1>2 DEF Tick, OpenTransaction, Differs
<1>h. ASSUME NEW r \in Requests, lock = r
      PROVE  pc[r] \in {"bumped", "log", "commit", "erased"}
  BY <1>h DEF OpenTransaction
<1>3. ASSUME NEW r \in Requests, Begin(r) PROVE OpenTransaction'
  <2>1. lock # r /\ pc'[r] = "load"
    BY <1>3, <1>h DEF Begin, GoTo, TypeOK
  <2> QED BY <1>3, <2>1, QuietKeepsOpen DEF Begin, GoTo, TypeOK
<1>4. ASSUME NEW r \in Requests, Load(r) PROVE OpenTransaction'
  <2>1. CASE exists
    <3>1. lock # r /\ pc'[r] = "check"
      BY <1>4, <2>1, <1>h DEF Load, GoTo, TypeOK
    <3> QED BY <1>4, <2>1, <3>1, QuietKeepsOpen DEF Load, GoTo, TypeOK
  <2>2. CASE ~exists
    BY <1>4, <2>2, FinishKeepsOpen DEF Load
  <2> QED BY <2>1, <2>2
<1>5. ASSUME NEW r \in Requests, InTime(r) PROVE OpenTransaction'
  <2>1. lock # r /\ pc'[r] \in {"idle", "write"}
    BY <1>5, <1>h DEF InTime, AfterCheck, End, GoTo, TypeOK
  <2> QED BY <1>5, <2>1, QuietKeepsOpen DEF InTime, AfterCheck, End, GoTo, TypeOK
<1>6. ASSUME NEW r \in Requests, Escalate(r) PROVE OpenTransaction'
  <2>1. CASE exists
    <3> DEFINE v == Above[loaded[r].priority]
    <3>1. v \in Values["priority"]
      BY <1>6, Escalated DEF Escalate
    <3>2. loaded'[r] = [row EXCEPT !["priority"] = v] /\ row' = row
      BY <1>6, <2>1 DEF Escalate, TypeOK
    <3>3. \A c \in Columns : loaded'[r][c] = IF c = "priority" THEN v ELSE row'[c]
      BY <3>1, <3>2, OneColumnChanged DEF TypeOK, Columns
    <3>4. Differs(r, "priority", loaded[r]["priority"])'
      BY <3>3 DEF Differs, Columns
    <3>5. pc'[r] = "bumped" /\ lock' = r /\ job' = job /\ Free(r)
      BY <1>6, <2>1 DEF Escalate, GoTo, TypeOK
    <3>6. \A q \in Requests \ {r} : pc'[q] = pc[q] /\ loaded'[q] = loaded[q]
      BY <1>6, <2>1 DEF Escalate, GoTo, TypeOK
    <3> QED BY <3>2, <3>4, <3>5, <3>6, TakeKeepsOpen
  <2>2. CASE ~exists
    BY <1>6, <2>2, FinishKeepsOpen DEF Escalate
  <2> QED BY <2>1, <2>2
<1>7. ASSUME NEW r \in Requests, CommitEscalation(r) PROVE OpenTransaction'
  <2>1. lock = r
    BY <1>7 DEF CommitEscalation, OpenTransaction
  <2>2. pc'[r] # "bumped"
    BY <1>7 DEF CommitEscalation, AfterCheck, End, GoTo, TypeOK
  <2>3. \A q \in Requests \ {r} : pc'[q] = pc[q] /\ job'[q] = job[q] /\ loaded'[q] = loaded[q]
    BY <1>7 DEF CommitEscalation, AfterCheck, End, GoTo, TypeOK
  <2> QED BY <1>7, <2>1, <2>2, <2>3, ReleaseKeepsOpen DEF CommitEscalation, Release
<1>8. ASSUME NEW r \in Requests, Write(r) PROVE OpenTransaction'
  <2>1. CASE exists
    <3> DEFINE col == job[r].op
    <3>1. col \in Columns /\ job[r].value \in Values[col]
      BY <1>8, CallValues DEF Write, TypeOK
    <3>2. loaded'[r] = [row EXCEPT ![col] = job[r].value] /\ row' = row
      BY <1>8, <2>1 DEF Write, TypeOK
    <3>3. \A c \in Columns : loaded'[r][c] = IF c = col THEN job[r].value ELSE row'[c]
      BY <3>1, <3>2, OneColumnChanged DEF TypeOK
    <3>4. pc'[r] = "log" /\ lock' = r /\ job' = job /\ Free(r)
      BY <1>8, <2>1 DEF Write, GoTo, TypeOK
    <3>5. Differs(r, col, job[r].value)'
      BY <3>3, <3>4 DEF Differs
    <3>6. \A q \in Requests \ {r} : pc'[q] = pc[q] /\ loaded'[q] = loaded[q]
      BY <1>8, <2>1 DEF Write, GoTo, TypeOK
    <3> QED BY <3>1, <3>2, <3>4, <3>5, <3>6, TakeKeepsOpen
  <2>2. CASE ~exists
    BY <1>8, <2>2, FinishKeepsOpen DEF Write
  <2> QED BY <2>1, <2>2
<1>9. ASSUME NEW r \in Requests, WriteNothing(r) PROVE OpenTransaction'
  <2>1. CASE exists
    <3>1. lock # r /\ pc'[r] = "log"
      BY <1>9, <2>1, <1>h DEF WriteNothing, GoTo, TypeOK
    <3> QED BY <1>9, <2>1, <3>1, QuietKeepsOpen DEF WriteNothing, GoTo, TypeOK
  <2>2. CASE ~exists
    BY <1>9, <2>2, FinishKeepsOpen DEF WriteNothing
  <2> QED BY <2>1, <2>2
<1>10. ASSUME NEW r \in Requests, LogAndAnnounce(r) PROVE OpenTransaction'
  <2>1. CASE exists
    <3>1. /\ pc[r] = "log" /\ pc' = [pc EXCEPT ![r] = "commit"]
          /\ UNCHANGED <<row, job, loaded, lock>>
      BY <1>10, <2>1 DEF LogAndAnnounce, GoTo
    <3> QED BY <3>1 DEF OpenTransaction, Differs, TypeOK
  <2>2. CASE ~exists
    BY <1>10, <2>2, FinishKeepsOpen DEF LogAndAnnounce
  <2> QED BY <2>1, <2>2
<1>11. ASSUME NEW r \in Requests, Commit(r) PROVE OpenTransaction'
  <2>1. lock = r \/ row' = row
    BY <1>11 DEF Commit
  <2>2. pc'[r] # "bumped"
    BY <1>11 DEF Commit, End, GoTo, TypeOK
  <2>3. \A q \in Requests \ {r} : pc'[q] = pc[q] /\ job'[q] = job[q] /\ loaded'[q] = loaded[q]
    BY <1>11 DEF Commit, End, GoTo, TypeOK
  <2> QED BY <1>11, <2>1, <2>2, <2>3, ReleaseKeepsOpen DEF Commit, Release
<1>12. ASSUME NEW r \in Requests, ReadEvents(r) PROVE OpenTransaction'
  <2>1. lock # r /\ pc'[r] = "erase"
    BY <1>12, <1>h DEF ReadEvents, GoTo, TypeOK
  <2> QED BY <1>12, <2>1, QuietKeepsOpen DEF ReadEvents, GoTo, TypeOK
<1>13. ASSUME NEW r \in Requests, Erase(r) PROVE OpenTransaction'
  <2>1. CASE exists /\ r \in fresh
    <3>1. pc'[r] = "erased" /\ lock' = r /\ job' = job /\ Free(r) /\ row' = row
      BY <1>13, <2>1 DEF Erase, GoTo, TypeOK
    <3>2. \A q \in Requests \ {r} : pc'[q] = pc[q] /\ loaded'[q] = loaded[q]
      BY <1>13, <2>1 DEF Erase, GoTo, TypeOK
    <3> QED BY <3>1, <3>2, TakeKeepsOpen
  <2>2. CASE ~(exists /\ r \in fresh)
    BY <1>13, <2>2, FinishKeepsOpen DEF Erase
  <2> QED BY <2>1, <2>2
<1>14. ASSUME NEW r \in Requests, CommitErase(r) PROVE OpenTransaction'
  BY <1>14, FinishKeepsOpen DEF CommitErase
<1>15. ASSUME NEW r \in Requests, Abort(r) PROVE OpenTransaction'
  BY <1>15, FinishKeepsOpen DEF Abort
<1> QED BY <1>1, <1>2, <1>3, <1>4, <1>5, <1>6, <1>7, <1>8, <1>9, <1>10, <1>11,
           <1>12, <1>13, <1>14, <1>15 DEF Next, Step

-----------------------------------------------------------------------------
\* Webhooks are never taken back, and a request about to commit stays as it is.
LEMMA NextAnnounced == TypeOK /\ OpenTransaction /\ Announced /\ [Next]_vars => Announced'
<1> SUFFICES ASSUME TypeOK, OpenTransaction, Announced, [Next]_vars PROVE Announced'
  OBVIOUS
<1>k. ASSUME fired \subseteq fired',
             \A q \in Requests : lock' = q /\ pc'[q] = "commit"
               => lock = q /\ pc[q] = "commit" /\ job'[q] = job[q]
      PROVE  Announced'
  BY <1>k DEF Announced
<1>q. ASSUME NEW r \in Requests, pc'[r] # "commit", fired' = fired,
             \A q \in Requests \ {r} : pc'[q] = pc[q] /\ job'[q] = job[q]
                                     /\ (lock' = q => lock = q)
      PROVE  Announced'
  BY <1>q, <1>k
<1>f. ASSUME NEW r \in Requests, Finish(r), fired' = fired PROVE Announced'
  BY <1>f, <1>q, RequestsAreNamed DEF Finish, End, GoTo, TypeOK
<1>1. CASE UNCHANGED vars
  BY <1>1, <1>k DEF vars
<1>2. CASE Tick
  BY <1>2, <1>k DEF Tick
<1>3. ASSUME NEW r \in Requests, Begin(r) PROVE Announced'
  BY <1>3, <1>q DEF Begin, GoTo, TypeOK
<1>4. ASSUME NEW r \in Requests, Load(r) PROVE Announced'
  BY <1>4, <1>q, <1>f DEF Load, GoTo, TypeOK
<1>5. ASSUME NEW r \in Requests, InTime(r) PROVE Announced'
  BY <1>5, <1>q DEF InTime, AfterCheck, End, GoTo, TypeOK
<1>6. ASSUME NEW r \in Requests, Escalate(r) PROVE Announced'
  BY <1>6, <1>q, <1>f DEF Escalate, GoTo, TypeOK
<1>7. ASSUME NEW r \in Requests, CommitEscalation(r) PROVE Announced'
  BY <1>7, <1>q, RequestsAreNamed DEF CommitEscalation, AfterCheck, Release, End, GoTo, TypeOK
<1>8. ASSUME NEW r \in Requests, Write(r) PROVE Announced'
  BY <1>8, <1>q, <1>f DEF Write, GoTo, TypeOK
<1>9. ASSUME NEW r \in Requests, WriteNothing(r) PROVE Announced'
  BY <1>9, <1>q, <1>f DEF WriteNothing, GoTo, TypeOK
<1>10. ASSUME NEW r \in Requests, LogAndAnnounce(r) PROVE Announced'
  <2>1. CASE exists
    <3>1. /\ pc[r] = "log" /\ fired' = fired \cup Webhooks(r)
          /\ UNCHANGED <<job, lock>>
          /\ \A q \in Requests \ {r} : pc'[q] = pc[q]
      BY <1>10, <2>1 DEF LogAndAnnounce, GoTo, TypeOK
    <3>2. ASSUME lock = r, job[r].op = "status"
          PROVE  /\ [kind |-> "TICKET_UPDATED", status |-> job[r].value] \in Webhooks(r)
                 /\ job[r].value \in Resolved
                      => [kind |-> "TICKET_RESOLVED", status |-> job[r].value] \in Webhooks(r)
      <4>1. Differs(r, "status", job[r].value)
        BY <3>1, <3>2 DEF OpenTransaction
      <4>2. loaded[r].status = job[r].value
        BY <4>1, RowColumns DEF Differs, Columns, TypeOK
      <4> QED BY <3>2, <4>2 DEF Webhooks, Kinds
    <3> QED BY <3>1, <3>2 DEF Announced
  <2>2. CASE ~exists
    BY <1>10, <2>2, <1>f DEF LogAndAnnounce
  <2> QED BY <2>1, <2>2
<1>11. ASSUME NEW r \in Requests, Commit(r) PROVE Announced'
  BY <1>11, <1>q, RequestsAreNamed DEF Commit, Release, End, GoTo, TypeOK
<1>12. ASSUME NEW r \in Requests, ReadEvents(r) PROVE Announced'
  BY <1>12, <1>q DEF ReadEvents, GoTo, TypeOK
<1>13. ASSUME NEW r \in Requests, Erase(r) PROVE Announced'
  BY <1>13, <1>q, <1>f DEF Erase, GoTo, TypeOK
<1>14. ASSUME NEW r \in Requests, CommitErase(r) PROVE Announced'
  BY <1>14, <1>f DEF CommitErase
<1>15. ASSUME NEW r \in Requests, Abort(r) PROVE Announced'
  BY <1>15, <1>f DEF Abort
<1> QED BY <1>1, <1>2, <1>3, <1>4, <1>5, <1>6, <1>7, <1>8, <1>9, <1>10, <1>11,
           <1>12, <1>13, <1>14, <1>15 DEF Next, Step

-----------------------------------------------------------------------------
\* Only the two commits of a held row write it.
LEMMA RowWriters ==
  ASSUME [Next]_vars
  PROVE  \/ row' = row /\ trail \subseteq trail' /\ fired \subseteq fired'
         \/ \E r \in Requests : CommitEscalation(r)
         \/ \E r \in Requests : Commit(r) /\ lock = r
<1>1. CASE UNCHANGED vars \/ Tick
  BY <1>1 DEF vars, Tick
<1>2. ASSUME NEW r \in Requests, Begin(r) \/ Load(r) \/ InTime(r) \/ Escalate(r) \/ Write(r)
               \/ WriteNothing(r) \/ ReadEvents(r) \/ Erase(r) \/ CommitErase(r) \/ Abort(r)
      PROVE  row' = row /\ trail' = trail /\ fired' = fired
  BY <1>2 DEF Begin, Load, InTime, Escalate, Write, WriteNothing, ReadEvents, Erase,
              CommitErase, Abort
<1>3. ASSUME NEW r \in Requests, LogAndAnnounce(r)
      PROVE  row' = row /\ trail' = trail /\ fired \subseteq fired'
  BY <1>3 DEF LogAndAnnounce
<1>4. ASSUME NEW r \in Requests, Commit(r), lock # r
      PROVE  row' = row /\ trail \subseteq trail' /\ fired' = fired
  BY <1>4 DEF Commit
<1> QED BY <1>1, <1>2, <1>3, <1>4 DEF Next, Step

\* Such a commit changes one column, records the change, and, if it is the
\* status, its webhooks have been fired.
LEMMA CommitEffect ==
  ASSUME IInv, NEW r \in Requests, CommitEscalation(r) \/ (Commit(r) /\ lock = r)
  PROVE  \E col \in Columns :
           /\ \A c \in Columns \ {col} : row'[c] = row[c]
           /\ <<col, row'[col]>> \in trail'
           /\ trail \subseteq trail' /\ fired' = fired
           /\ col = "status" =>
                /\ [kind |-> "TICKET_UPDATED", status |-> row'[col]] \in fired
                /\ row'[col] \in Resolved
                     => [kind |-> "TICKET_RESOLVED", status |-> row'[col]] \in fired
<1>1. CASE CommitEscalation(r)
  <2>1. Differs(r, "priority", loaded[r]["priority"])
    BY <1>1 DEF CommitEscalation, IInv, OpenTransaction
  <2>2. /\ row' = loaded[r] /\ fired' = fired
        /\ trail' = trail \cup {<<"priority", loaded[r].priority>>}
    BY <1>1 DEF CommitEscalation
  <2>3. "priority" \in Columns /\ loaded[r].priority = row'["priority"]
    BY <2>2, RowColumns DEF IInv, TypeOK, Columns
  <2>4. \A c \in Columns \ {"priority"} : row'[c] = row[c]
    BY <2>1, <2>2 DEF Differs
  <2> QED BY <2>2, <2>3, <2>4
<1>2. CASE Commit(r) /\ lock = r
  <2>1. job[r].op \in Columns /\ Differs(r, job[r].op, job[r].value)
    BY <1>2 DEF Commit, IInv, OpenTransaction
  <2>2. row' = loaded[r] /\ fired' = fired /\ trail' = trail \cup {<<job[r].op, job[r].value>>}
    BY <1>2, <2>1 DEF Commit
  <2>3. row'[job[r].op] = job[r].value /\ \A c \in Columns \ {job[r].op} : row'[c] = row[c]
    BY <2>1, <2>2 DEF Differs
  <2>4. job[r].op = "status" =>
          /\ [kind |-> "TICKET_UPDATED", status |-> job[r].value] \in fired
          /\ job[r].value \in Resolved
               => [kind |-> "TICKET_RESOLVED", status |-> job[r].value] \in fired
    BY <1>2 DEF Commit, IInv, Announced
  <2> QED BY <2>1, <2>2, <2>3, <2>4
<1> QED BY <1>1, <1>2

LEMMA NextAudited ==
  ASSUME IInv, TypeOK', [Next]_vars PROVE ColumnsAreAudited' /\ StatusIsAnnounced'
<1>c. /\ row.status = row["status"] /\ row.priority = row["priority"]
      /\ row.assignee = row["assignee"]
      /\ row'.status = row'["status"] /\ row'.priority = row'["priority"]
      /\ row'.assignee = row'["assignee"]
  BY RowColumns DEF IInv, TypeOK
<1>1. CASE row' = row /\ trail \subseteq trail' /\ fired \subseteq fired'
  BY <1>1 DEF IInv, ColumnsAreAudited, StatusIsAnnounced
<1>2. ASSUME NEW r \in Requests, CommitEscalation(r) \/ (Commit(r) /\ lock = r)
      PROVE  ColumnsAreAudited' /\ StatusIsAnnounced'
  <2>1. PICK col \in Columns :
           /\ \A c \in Columns \ {col} : row'[c] = row[c]
           /\ <<col, row'[col]>> \in trail'
           /\ trail \subseteq trail' /\ fired' = fired
           /\ col = "status" =>
                /\ [kind |-> "TICKET_UPDATED", status |-> row'[col]] \in fired
                /\ row'[col] \in Resolved
                     => [kind |-> "TICKET_RESOLVED", status |-> row'[col]] \in fired
    BY <1>2, CommitEffect
  <2>2. \A c \in Columns : row'[c] = row[c] \/ <<c, row'[c]>> \in trail'
    BY <2>1
  <2>3. ColumnsAreAudited'
    BY <1>c, <2>1, <2>2 DEF ColumnsAreAudited, IInv, Columns
  <2>4. StatusIsAnnounced'
    BY <1>c, <2>1 DEF StatusIsAnnounced, IInv, Columns
  <2> QED BY <2>3, <2>4
<1> QED BY <1>1, <1>2, RowWriters

LEMMA NextInv == IInv /\ [Next]_vars => IInv'
BY NextTyped, NextOpen, NextAnnounced, NextAudited DEF IInv

\* Type correctness of the ticket model.
THEOREM Types == Spec => []TypeOK
<1>1. IInv => TypeOK
  BY DEF IInv
<1> QED BY <1>1, InitInv, NextInv, PTL DEF Spec

\* However requests and escalations interleave, every committed column is
\* explained by a recorded event (TicketService's create_event calls).
THEOREM AuditTrail == Spec => []ColumnsAreAudited
<1>1. IInv => ColumnsAreAudited
  BY DEF IInv
<1> QED BY <1>1, InitInv, NextInv, PTL DEF Spec

\* The status a ticket is in has been announced to the subscribers.
THEOREM Announcements == Spec => []StatusIsAnnounced
<1>1. IInv => StatusIsAnnounced
  BY DEF IInv
<1> QED BY <1>1, InitInv, NextInv, PTL DEF Spec

\* No commit overwrites what others committed in the columns it is not about.
THEOREM NoLostColumn == Spec => OneColumnAtATime
<1> DEFINE One == \E col \in Columns : \A other \in Columns \ {col} : row'[other] = row[other]
<1>1. IInv /\ [Next]_vars => [One]_vars
  <2> SUFFICES ASSUME IInv, [Next]_vars PROVE One
    OBVIOUS
  <2>1. CASE row' = row
    BY <2>1 DEF Columns
  <2>2. ASSUME NEW r \in Requests, CommitEscalation(r) \/ (Commit(r) /\ lock = r) PROVE One
    BY <2>2, CommitEffect
  <2> QED BY <2>1, <2>2, RowWriters
<1> QED BY <1>1, InitInv, NextInv, PTL DEF Spec, OneColumnAtATime

-----------------------------------------------------------------------------
(* The refinement of AtomicTicket.  A delete has the ticket to itself, and *)
(* a request that writes nothing records a value the column has had.       *)

DeleteAlone ==
  /\ \A r \in Requests : pc[r] = "erased" => lock = r
  /\ \A r \in Requests : lock = r => exists
  /\ \A r \in Requests : pc[r] = "commit" => exists /\ ~Erasing

HadBy(r) ==
  /\ pc[r] \in {"check", "write"} => \A c \in Columns : Atomic!Had(c, loaded[r][c])
  /\ pc[r] \in {"log", "commit"} /\ job[r].op \in Columns /\ lock # r => Atomic!Had(job[r].op, job[r].value)

ValuesWereHad == \A r \in Requests : HadBy(r)

AtomicIInv == IInv /\ DeleteAlone /\ ValuesWereHad

\* A step of r that leaves the ticket there and takes no lock from another.
LEMMA DeleteStaysAlone ==
  ASSUME TypeOK, DeleteAlone, NEW r \in Requests, exists' = exists,
         \A q \in Requests \ {r} : pc'[q] = pc[q],
         \/ lock' = lock
         \/ lock = r /\ lock' = None
         \/ Free(r) /\ exists /\ lock' = r,
         pc'[r] = "erased" => lock' = r /\ \A q \in Requests : pc[q] # "commit",
         pc'[r] = "commit" => exists /\ ~Erasing
  PROVE  DeleteAlone'
<1>1. ASSUME NEW q \in Requests, pc'[q] = "erased" PROVE lock' = q
  BY <1>1, RequestsAreNamed DEF DeleteAlone, Free
<1>2. ASSUME NEW q \in Requests, lock' = q PROVE exists'
  BY <1>2, RequestsAreNamed DEF DeleteAlone
<1>3. ASSUME NEW q \in Requests, pc'[q] = "commit" PROVE exists' /\ ~Erasing'
  BY <1>3 DEF DeleteAlone, Erasing
<1> QED BY <1>1, <1>2, <1>3 DEF DeleteAlone

LEMMA NextAlone == TypeOK /\ OpenTransaction /\ DeleteAlone /\ [Next]_vars => DeleteAlone'
<1> SUFFICES ASSUME TypeOK, OpenTransaction, DeleteAlone, [Next]_vars PROVE DeleteAlone'
  OBVIOUS
<1>f. ASSUME NEW r \in Requests, Finish(r), exists' = exists PROVE DeleteAlone'
  BY <1>f, DeleteStaysAlone DEF Finish, End, GoTo, TypeOK
<1>1. CASE UNCHANGED vars
  BY <1>1 DEF DeleteAlone, Erasing, vars
<1>2. CASE Tick
  BY <1>2 DEF Tick, DeleteAlone, Erasing
<1>3. ASSUME NEW r \in Requests, Begin(r) \/ InTime(r) \/ ReadEvents(r) PROVE DeleteAlone'
  BY <1>3, DeleteStaysAlone DEF Begin, InTime, ReadEvents, AfterCheck, End, GoTo, TypeOK
<1>4. ASSUME NEW r \in Requests, Load(r) PROVE DeleteAlone'
  BY <1>4, <1>f, DeleteStaysAlone DEF Load, GoTo, TypeOK
<1>5. ASSUME NEW r \in Requests, Escalate(r) PROVE DeleteAlone'
  BY <1>5, <1>f, DeleteStaysAlone DEF Escalate, GoTo, TypeOK
<1>6. ASSUME NEW r \in Requests, CommitEscalation(r) PROVE DeleteAlone'
  BY <1>6, DeleteStaysAlone DEF CommitEscalation, AfterCheck, Release, End, GoTo, TypeOK
<1>7. ASSUME NEW r \in Requests, Write(r) PROVE DeleteAlone'
  BY <1>7, <1>f, DeleteStaysAlone DEF Write, GoTo, TypeOK
<1>8. ASSUME NEW r \in Requests, WriteNothing(r) PROVE DeleteAlone'
  BY <1>8, <1>f, DeleteStaysAlone DEF WriteNothing, GoTo, TypeOK
<1>9. ASSUME NEW r \in Requests, LogAndAnnounce(r) PROVE DeleteAlone'
  BY <1>9, <1>f, DeleteStaysAlone DEF LogAndAnnounce, GoTo, TypeOK
<1>10. ASSUME NEW r \in Requests, Commit(r) PROVE DeleteAlone'
  BY <1>10, DeleteStaysAlone DEF Commit, Release, End, GoTo, TypeOK
<1>11. ASSUME NEW r \in Requests, Erase(r) PROVE DeleteAlone'
  BY <1>11, <1>f, DeleteStaysAlone DEF Erase, GoTo, TypeOK
<1>12. ASSUME NEW r \in Requests, CommitErase(r) PROVE DeleteAlone'
  <2>1. /\ pc[r] = "erased" /\ lock = r /\ lock' = None /\ pc' = [pc EXCEPT ![r] = "idle"]
    BY <1>12 DEF CommitErase, Finish, End, GoTo, DeleteAlone
  <2>2. \A q \in Requests : pc[q] # "commit" /\ (pc[q] = "erased" => q = r)
    BY <2>1 DEF DeleteAlone, Erasing
  <2>3. \A q \in Requests : pc'[q] # "commit" /\ pc'[q] # "erased" /\ lock' # q
    BY <2>1, <2>2, RequestsAreNamed DEF TypeOK
  <2> QED BY <2>3 DEF DeleteAlone
<1>13. ASSUME NEW r \in Requests, Abort(r) PROVE DeleteAlone'
  BY <1>13, <1>f DEF Abort
<1> QED BY <1>1, <1>2, <1>3, <1>4, <1>5, <1>6, <1>7, <1>8, <1>9, <1>10, <1>11, <1>12, <1>13 DEF Next, Step

-----------------------------------------------------------------------------
LEMMA RowWasHad ==
  ASSUME TypeOK, ColumnsAreAudited, NEW c \in Columns
  PROVE  Atomic!Had(c, row[c])
<1>1. /\ row.status = row["status"] /\ row.priority = row["priority"] /\ row.assignee = row["assignee"]
  BY RowColumns DEF TypeOK
<1>2. Created["status"] = "OPEN" /\ Created["priority"] = First /\ Created["assignee"] = None
  BY DEF Created
<1> QED BY <1>1, <1>2 DEF ColumnsAreAudited, Columns, Atomic!Had

LEMMA RowWasHadNext ==
  ASSUME TypeOK', ColumnsAreAudited'
  PROVE  (\A c \in Columns : Atomic!Had(c, row[c]))'
<1>1. /\ row'.status = row'["status"] /\ row'.priority = row'["priority"] /\ row'.assignee = row'["assignee"]
  BY RowColumns DEF TypeOK
<1>2. Created["status"] = "OPEN" /\ Created["priority"] = First /\ Created["assignee"] = None
  BY DEF Created
<1> QED BY <1>1, <1>2 DEF ColumnsAreAudited, Columns, Atomic!Had

\* Events are never taken back: what the others rely on stays so.
LEMMA HadStays ==
  ASSUME ValuesWereHad, NEW r \in Requests, trail \subseteq trail',
         \A q \in Requests \ {r} :
           pc'[q] = pc[q] /\ job'[q] = job[q] /\ loaded'[q] = loaded[q] /\ (lock' # q => lock # q),
         HadBy(r)'
  PROVE  ValuesWereHad'
<1>1. \A c, v : Atomic!Had(c, v) => Atomic!Had(c, v)'
  BY DEF Atomic!Had, Created
<1>2. ASSUME NEW q \in Requests \ {r} PROVE HadBy(q)'
  <2>1. HadBy(q)
    BY DEF ValuesWereHad
  <2> QED BY <1>1, <2>1 DEF HadBy
<1> QED BY <1>2 DEF ValuesWereHad

LEMMA NextHad == AtomicIInv /\ IInv' /\ [Next]_vars => ValuesWereHad'
<1> SUFFICES ASSUME AtomicIInv, IInv', [Next]_vars PROVE ValuesWereHad'
  OBVIOUS
<1> USE DEF AtomicIInv, IInv
<1>f. ASSUME NEW r \in Requests, Finish(r), trail' = trail PROVE ValuesWereHad'
  <2>1. HadBy(r)'
    BY <1>f DEF Finish, End, GoTo, TypeOK, HadBy
  <2> QED BY <1>f, <2>1, HadStays, RequestsAreNamed DEF Finish, End, GoTo, TypeOK
<1>h. \A r \in Requests : HadBy(r)
  BY DEF ValuesWereHad
<1>l. \A r \in Requests : pc[r] \in {"load", "check", "write"} => lock # r
  BY DEF OpenTransaction
<1>1. CASE UNCHANGED vars
  BY <1>1, <1>h DEF ValuesWereHad, HadBy, Atomic!Had, vars
<1>2. CASE Tick
  BY <1>2, <1>h DEF ValuesWereHad, HadBy, Atomic!Had, Tick
<1>3. ASSUME NEW r \in Requests, Begin(r) \/ ReadEvents(r) PROVE ValuesWereHad'
  <2>1. HadBy(r)'
    BY <1>3 DEF Begin, ReadEvents, GoTo, TypeOK, HadBy
  <2> QED BY <1>3, <2>1, HadStays DEF Begin, ReadEvents, GoTo, TypeOK
<1>4. ASSUME NEW r \in Requests, Load(r) PROVE ValuesWereHad'
  <2>1. CASE exists
    <3>1. /\ pc' = [pc EXCEPT ![r] = "check"] /\ loaded' = [loaded EXCEPT ![r] = row]
          /\ UNCHANGED <<job, lock, trail>>
      BY <1>4, <2>1 DEF Load, GoTo
    <3>2. \A c \in Columns : Atomic!Had(c, row[c])
      BY RowWasHad
    <3>3. pc'[r] = "check" /\ loaded'[r] = row
      BY <3>1 DEF TypeOK
    <3>4. HadBy(r)'
      BY <3>1, <3>2, <3>3 DEF HadBy, Atomic!Had
    <3> QED BY <3>1, <3>4, HadStays DEF TypeOK
  <2>2. CASE ~exists
    BY <1>4, <2>2, <1>f DEF Load
  <2> QED BY <2>1, <2>2
<1>5. ASSUME NEW r \in Requests, InTime(r) PROVE ValuesWereHad'
  <2>1. /\ pc[r] = "check" /\ AfterCheck(r) /\ UNCHANGED <<lock, trail>>
    BY <1>5 DEF InTime
  <2>2. HadBy(r)'
    <3>1. CASE job[r].op = "view"
      BY <2>1, <3>1 DEF AfterCheck, End, GoTo, TypeOK, HadBy
    <3>2. CASE job[r].op # "view"
      <4>1. pc'[r] = "write" /\ loaded' = loaded
        BY <2>1, <3>2 DEF AfterCheck, GoTo, TypeOK
      <4>2. \A c \in Columns : Atomic!Had(c, loaded[r][c])
        BY <1>h, <2>1 DEF HadBy
      <4> QED BY <2>1, <4>1, <4>2 DEF HadBy, Atomic!Had
    <3> QED BY <3>1, <3>2
  <2> QED BY <2>1, <2>2, HadStays DEF AfterCheck, End, GoTo, TypeOK
<1>6. ASSUME NEW r \in Requests, Escalate(r) PROVE ValuesWereHad'
  <2>1. CASE exists
    <3>1. HadBy(r)'
      BY <1>6, <2>1 DEF Escalate, GoTo, TypeOK, HadBy
    <3> QED BY <1>6, <2>1, <3>1, HadStays, RequestsAreNamed DEF Escalate, Free, GoTo, TypeOK
  <2>2. CASE ~exists
    BY <1>6, <2>2, <1>f DEF Escalate
  <2> QED BY <2>1, <2>2
<1>7. ASSUME NEW r \in Requests, CommitEscalation(r) PROVE ValuesWereHad'
  <2>1. /\ pc[r] = "bumped" /\ row' = loaded[r] /\ AfterCheck(r) /\ Release(r) /\ trail \subseteq trail'
    BY <1>7 DEF CommitEscalation
  <2>2. HadBy(r)'
    <3>1. CASE job[r].op = "view"
      BY <2>1, <3>1 DEF AfterCheck, End, GoTo, TypeOK, HadBy
    <3>2. CASE job[r].op # "view"
      <4>1. pc'[r] = "write" /\ loaded' = loaded
        BY <2>1, <3>2 DEF AfterCheck, GoTo, TypeOK
      <4>2. (\A c \in Columns : Atomic!Had(c, row[c]))'
        BY RowWasHadNext
      <4> QED BY <2>1, <4>1, <4>2 DEF HadBy
    <3> QED BY <3>1, <3>2
  <2> QED BY <2>1, <2>2, HadStays, RequestsAreNamed DEF AfterCheck, Release, End, GoTo, TypeOK
<1>8. ASSUME NEW r \in Requests, Write(r) PROVE ValuesWereHad'
  <2>1. CASE exists
    <3>1. HadBy(r)'
      BY <1>8, <2>1 DEF Write, GoTo, TypeOK, HadBy
    <3> QED BY <1>8, <2>1, <3>1, HadStays, RequestsAreNamed DEF Write, Free, GoTo, TypeOK
  <2>2. CASE ~exists
    BY <1>8, <2>2, <1>f DEF Write
  <2> QED BY <2>1, <2>2
<1>9. ASSUME NEW r \in Requests, WriteNothing(r) PROVE ValuesWereHad'
  <2>1. CASE exists
    <3>1. /\ pc[r] = "write" /\ pc' = [pc EXCEPT ![r] = "log"] /\ loaded' = [loaded EXCEPT ![r] = row]
          /\ UNCHANGED <<job, lock, trail>>
          /\ job[r].op \in Columns => loaded[r][job[r].op] = job[r].value
      BY <1>9, <2>1 DEF WriteNothing, GoTo
    <3>2. job[r].op \in Columns => Atomic!Had(job[r].op, job[r].value)
      BY <1>h, <3>1 DEF HadBy
    <3>3. pc'[r] = "log"
      BY <3>1 DEF TypeOK
    <3>4. HadBy(r)'
      BY <3>1, <3>2, <3>3 DEF HadBy, Atomic!Had
    <3> QED BY <3>1, <3>4, HadStays DEF TypeOK
  <2>2. CASE ~exists
    BY <1>9, <2>2, <1>f DEF WriteNothing
  <2> QED BY <2>1, <2>2
<1>10. ASSUME NEW r \in Requests, LogAndAnnounce(r) PROVE ValuesWereHad'
  <2>1. CASE exists
    <3>1. /\ pc[r] = "log" /\ pc' = [pc EXCEPT ![r] = "commit"] /\ UNCHANGED <<job, loaded, lock, trail>>
      BY <1>10, <2>1 DEF LogAndAnnounce, GoTo
    <3>2. job[r].op \in Columns /\ lock # r => Atomic!Had(job[r].op, job[r].value)
      BY <1>h, <3>1 DEF HadBy
    <3>3. pc'[r] = "commit"
      BY <3>1 DEF TypeOK
    <3>4. HadBy(r)'
      BY <3>1, <3>2, <3>3 DEF HadBy, Atomic!Had
    <3> QED BY <3>1, <3>4, HadStays DEF TypeOK
  <2>2. CASE ~exists
    BY <1>10, <2>2, <1>f DEF LogAndAnnounce
  <2> QED BY <2>1, <2>2
<1>11. ASSUME NEW r \in Requests, Commit(r) PROVE ValuesWereHad'
  <2>1. trail \subseteq trail' /\ End(r) /\ Release(r)
    BY <1>11 DEF Commit
  <2>2. HadBy(r)'
    BY <2>1 DEF End, GoTo, TypeOK, HadBy
  <2> QED BY <2>1, <2>2, HadStays, RequestsAreNamed DEF Release, End, GoTo, TypeOK
<1>12. ASSUME NEW r \in Requests, Erase(r) PROVE ValuesWereHad'
  <2>1. CASE exists /\ r \in fresh
    <3>1. HadBy(r)'
      BY <1>12, <2>1 DEF Erase, GoTo, TypeOK, HadBy
    <3> QED BY <1>12, <2>1, <3>1, HadStays, RequestsAreNamed DEF Erase, Free, GoTo, TypeOK
  <2>2. CASE ~(exists /\ r \in fresh)
    BY <1>12, <2>2, <1>f DEF Erase
  <2> QED BY <2>1, <2>2
<1>13. ASSUME NEW r \in Requests, CommitErase(r) \/ Abort(r) PROVE ValuesWereHad'
  BY <1>13, <1>f DEF CommitErase, Abort
<1> QED BY <1>1, <1>2, <1>3, <1>4, <1>5, <1>6, <1>7, <1>8, <1>9, <1>10, <1>11, <1>12, <1>13 DEF Next, Step

LEMMA AtomicInv == Init => AtomicIInv
<1>1. Init => DeleteAlone /\ ValuesWereHad
  BY RequestsAreNamed DEF Init, DeleteAlone, ValuesWereHad, HadBy
<1> QED BY <1>1, InitInv DEF AtomicIInv

-----------------------------------------------------------------------------
\* Rows that agree in their columns are the same.
LEMMA RowChanged ==
  ASSUME TypeOK, NEW r \in Requests, NEW col \in Columns, NEW v \in Values[col], Differs(r, col, v)
  PROVE  loaded[r] = [row EXCEPT ![col] = v]
<1>1. loaded[r] \in Rows /\ [row EXCEPT ![col] = v] \in Rows
  BY OneColumnChanged DEF TypeOK
<1>2. \A c \in Columns : loaded[r][c] = [row EXCEPT ![col] = v][c]
  <2>1. row \in Rows
    BY DEF TypeOK
  <2>2. \A c \in Columns : [row EXCEPT ![col] = v][c] = IF c = col THEN v ELSE row[c]
    BY <2>1 DEF Rows, Columns, Values
  <2>3. \A c \in Columns : loaded[r][c] = IF c = col THEN v ELSE row[c]
    BY DEF Differs
  <2> QED BY <2>2, <2>3
<1>3. \A s, t \in Rows : (\A c \in Columns : s[c] = t[c]) => s = t
  BY DEF Rows, Columns
<1> QED BY <1>1, <1>2, <1>3

LEMMA StepIsAtomic == AtomicIInv /\ [Next]_vars => [Atomic!Next]_(Atomic!ticketVars)
<1> SUFFICES ASSUME AtomicIInv, [Next]_vars PROVE [Atomic!Next]_(Atomic!ticketVars)
  OBVIOUS
<1> USE DEF AtomicIInv, IInv
<1>s. ASSUME UNCHANGED <<exists, row, trail, fired>> PROVE UNCHANGED Atomic!ticketVars
  BY <1>s DEF Atomic!ticketVars
<1>c. ASSUME NEW col \in Columns, NEW v \in Values[col], Atomic!Change(col, v) \/ Atomic!Repeat(col, v)
      PROVE  Atomic!Next
  BY <1>c DEF Atomic!Next, Values, Columns
<1>1. CASE UNCHANGED vars \/ Tick
  BY <1>1, <1>s DEF vars, Tick
<1>2. ASSUME NEW r \in Requests, Begin(r) \/ Load(r) \/ InTime(r) \/ Escalate(r) \/ Write(r)
               \/ WriteNothing(r) \/ ReadEvents(r) \/ Erase(r) \/ Abort(r)
      PROVE  UNCHANGED Atomic!ticketVars
  <2>1. UNCHANGED <<exists, row, trail, fired>>
    BY <1>2 DEF Begin, Load, InTime, Escalate, Write, WriteNothing, ReadEvents, Erase, Abort
  <2> QED BY <1>s, <2>1
<1>3. ASSUME NEW r \in Requests, CommitEscalation(r) PROVE Atomic!Next
  <2> DEFINE v == loaded[r]["priority"]
  <2>1. lock = r /\ exists /\ Differs(r, "priority", v)
    BY <1>3 DEF CommitEscalation, OpenTransaction, DeleteAlone
  <2>2. v \in Values["priority"] /\ v = loaded[r].priority /\ "priority" \in Columns
    BY RowColumns DEF TypeOK, Values, Columns
  <2>3. loaded[r] = [row EXCEPT !["priority"] = v]
    BY <2>1, <2>2, RowChanged
  <2>4. Atomic!Change("priority", v)
    BY <1>3, <2>1, <2>2, <2>3 DEF CommitEscalation, Atomic!Change
  <2> QED BY <1>c, <2>2, <2>4
<1>4. ASSUME NEW r \in Requests, LogAndAnnounce(r) PROVE Atomic!Next \/ UNCHANGED Atomic!ticketVars
  <2>1. CASE exists
    <3> DEFINE kinds == {k \in Kinds :
                  IF k = "TICKET_RESOLVED"
                    THEN job[r].op = "status" /\ job[r].value \in Resolved
                    ELSE job[r].op # "reply"}
    <3>1. Webhooks(r) = [kind : kinds, status : {loaded[r].status}]
      BY DEF Webhooks
    <3>2. kinds \in SUBSET {"TICKET_UPDATED", "TICKET_RESOLVED"} /\ loaded[r].status \in Statuses
      BY RowColumns DEF Kinds, TypeOK
    <3>3. UNCHANGED <<exists, row, trail>> /\ fired' = fired \cup Webhooks(r)
      BY <1>4, <2>1 DEF LogAndAnnounce
    <3> HIDE DEF kinds
    <3>4. Atomic!Announce(kinds, loaded[r].status)
      BY <2>1, <3>1, <3>3 DEF Atomic!Announce
    <3> QED BY <3>2, <3>4 DEF Atomic!Next
  <2>2. CASE ~exists
    BY <1>4, <2>2, <1>s DEF LogAndAnnounce
  <2> QED BY <2>1, <2>2
<1>5. ASSUME NEW r \in Requests, Commit(r) PROVE Atomic!Next \/ UNCHANGED Atomic!ticketVars
  <2> DEFINE col == job[r].op  v == job[r].value
  <2>0. pc[r] = "commit" /\ exists
    BY <1>5 DEF Commit, DeleteAlone
  <2>v. col \in Columns => v \in Values[col]
    BY CallValues DEF TypeOK
  <2>1. CASE lock = r
    <3>1. col \in Columns /\ Differs(r, col, v)
      BY <2>0, <2>1 DEF OpenTransaction
    <3>2. loaded[r] = [row EXCEPT ![col] = v]
      BY <2>v, <3>1, RowChanged
    <3>3. col = "status" => Atomic!Announced(v)
      BY <2>0, <2>1 DEF Announced, Atomic!Announced
    <3>4. /\ row' = [row EXCEPT ![col] = v] /\ trail' = trail \cup {<<col, v>>} /\ UNCHANGED <<exists, fired>>
      BY <1>5, <2>1, <3>1, <3>2 DEF Commit
    <3> HIDE DEF col, v
    <3>5. Atomic!Change(col, v)
      BY <2>0, <3>3, <3>4 DEF Atomic!Change
    <3> QED BY <1>c, <2>v, <3>1, <3>5
  <2>2. CASE lock # r /\ col \in Columns
    <3>1. Atomic!Had(col, v)
      BY <2>0, <2>2 DEF ValuesWereHad, HadBy
    <3>2. trail' = trail \cup {<<col, v>>} /\ UNCHANGED <<exists, row, fired>>
      BY <1>5, <2>2 DEF Commit
    <3> HIDE DEF col, v
    <3>3. Atomic!Repeat(col, v)
      BY <2>0, <3>1, <3>2 DEF Atomic!Repeat
    <3> QED BY <1>c, <2>v, <2>2, <3>3
  <2>3. CASE lock # r /\ col \notin Columns
    BY <1>5, <2>3, <1>s DEF Commit
  <2> QED BY <2>1, <2>2, <2>3
<1>6. ASSUME NEW r \in Requests, CommitErase(r) PROVE Atomic!Next
  <2>1. exists
    BY <1>6 DEF CommitErase, DeleteAlone
  <2> QED BY <1>6, <2>1 DEF CommitErase, Atomic!Next, Atomic!Delete
<1> QED BY <1>1, <1>2, <1>3, <1>4, <1>5, <1>6 DEF Next, Step

\* However the sessions of a ticket interleave, abort and wait for each other, the
\* committed ticket, its trail and its webhooks are those of AtomicTicket: a commit
\* changes one column and records it, a status was announced before, an event that
\* changed nothing has a value the column had, and nothing follows the deletion.
THEOREM ImplementsAtomicTicket == Spec => AtomicTicketSpec
<1>1. Init => Atomic!Init
  BY DEF Init, Atomic!Init
<1>2. AtomicIInv /\ [Next]_vars => AtomicIInv'
  BY NextInv, NextAlone, NextHad DEF AtomicIInv, IInv
<1> QED BY <1>1, <1>2, AtomicInv, StepIsAtomic, PTL DEF Spec, AtomicTicketSpec, Atomic!Spec

\* What AtomicTicket says is enough: that the columns are audited, that the status
\* has been announced and that a change leaves the other columns alone follows from
\* it without a word about requests, sessions and locks.
THEOREM AtomicTicketSuffices ==
  AtomicTicketSpec => [](ColumnsAreAudited /\ StatusIsAnnounced) /\ OneColumnAtATime
<1> DEFINE Good == row \in Rows /\ ColumnsAreAudited /\ StatusIsAnnounced
           One  == \E col \in Columns : \A other \in Columns \ {col} : row'[other] = row[other]
<1>1. Atomic!Init => Good
  <2> SUFFICES ASSUME Atomic!Init PROVE Good
    OBVIOUS
  <2>1. row = Created /\ Created \in Rows
    BY FirstIsPriority DEF Atomic!Init, Created, Rows, Statuses
  <2> QED BY <2>1 DEF Created, ColumnsAreAudited, StatusIsAnnounced, Resolved
<1>2. ASSUME Good, NEW col \in Columns, NEW v \in Values[col], Atomic!Change(col, v) PROVE Good' /\ One
  <2>1. row' \in Rows /\ \A c \in Columns : row'[c] = IF c = col THEN v ELSE row[c]
    <3>1. row \in Rows /\ row' = [row EXCEPT ![col] = v]
      BY <1>2 DEF Atomic!Change
    <3> QED BY <3>1 DEF Rows, Columns, Values
  <2>2. trail' = trail \cup {<<col, v>>} /\ fired' = fired
    BY <1>2 DEF Atomic!Change
  <2>3. /\ row.status = row["status"] /\ row.priority = row["priority"] /\ row.assignee = row["assignee"]
        /\ row'.status = row'["status"] /\ row'.priority = row'["priority"] /\ row'.assignee = row'["assignee"]
    BY <1>2, <2>1, RowColumns
  <2>4. \A c \in Columns : <<c, row'[c]>> \in trail' \/ row'[c] = row[c]
    BY <2>1, <2>2
  <2>5. ColumnsAreAudited'
    BY <1>2, <2>2, <2>3, <2>4 DEF ColumnsAreAudited, Columns
  <2>6. col = "status" =>
          /\ [kind |-> "TICKET_UPDATED", status |-> v] \in fired
          /\ v \in Resolved => [kind |-> "TICKET_RESOLVED", status |-> v] \in fired
    BY <1>2 DEF Atomic!Change, Atomic!Announced
  <2>7. StatusIsAnnounced'
    <3>1. CASE col = "status"
      BY <2>1, <2>2, <2>3, <2>6, <3>1 DEF StatusIsAnnounced
    <3>2. CASE col # "status"
      BY <1>2, <2>1, <2>2, <2>3, <3>2 DEF StatusIsAnnounced, Columns
    <3> QED BY <3>1, <3>2
  <2> QED BY <2>1, <2>5, <2>7
<1>3. ASSUME Good, row' = row, trail \subseteq trail', fired \subseteq fired' PROVE Good' /\ One
  BY <1>3 DEF ColumnsAreAudited, StatusIsAnnounced, Columns
<1>4. Good /\ [Atomic!Next]_(Atomic!ticketVars) => Good' /\ One
  <2> SUFFICES ASSUME Good, [Atomic!Next]_(Atomic!ticketVars) PROVE Good' /\ One
    OBVIOUS
  <2> HIDE DEF Good, One
  <2>1. CASE UNCHANGED Atomic!ticketVars \/ Atomic!Delete
    BY <1>3, <2>1 DEF Atomic!ticketVars, Atomic!Delete
  <2>2. ASSUME NEW kinds, NEW s, Atomic!Announce(kinds, s) PROVE Good' /\ One
    BY <1>3, <2>2 DEF Atomic!Announce
  <2>3. ASSUME NEW col \in Columns, NEW v \in Values[col], Atomic!Repeat(col, v) PROVE Good' /\ One
    BY <1>3, <2>3 DEF Atomic!Repeat
  <2>4. Atomic!Next =>
          \/ Atomic!Delete \/ \E kinds, s : Atomic!Announce(kinds, s)
          \/ \E col \in Columns : \E v \in Values[col] : Atomic!Change(col, v) \/ Atomic!Repeat(col, v)
    BY DEF Atomic!Next, Values, Columns
  <2> QED BY <1>2, <2>1, <2>2, <2>3, <2>4
<1>5. Good => ColumnsAreAudited /\ StatusIsAnnounced
  OBVIOUS
<1> HIDE DEF Good, One
<1> QED BY <1>1, <1>4, <1>5, PTL DEF AtomicTicketSpec, Atomic!Spec, OneColumnAtATime, One
=============================================================================
