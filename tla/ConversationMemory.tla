------------------------- MODULE ConversationMemory -------------------------
(***************************************************************************)
(* The stored history of one conversation: the messages the turns of       *)
(* ChatService commit, and MemoryCompressor, the Celery task that replaces *)
(* the oldest ones by a summary.                                           *)
(*                                                                         *)
(* Messages are read in the order of created_at, which the database sets   *)
(* to the time their transaction STARTED, not to the time it committed. A  *)
(* transaction inserts one message at most, so its start identifies the    *)
(* message it inserts.                                                     *)
(***************************************************************************)
EXTENDS Naturals, FiniteSets

CONSTANTS Turns,      \* chat turns of the conversation that run at once
          Workers,    \* Celery workers on the background queue
          Batch,      \* messages compressed at once (10 in the code)
          Attempts,   \* runs of a failing task, retries included (4 in the code)
          MaxClock,   \* bound: no turn starts after this transaction
          MaxRated,   \* bound on rated messages
          MaxOutages  \* bound on tasks that fail for lack of LLM or database

ASSUME TurnsFinite   == IsFiniteSet(Turns)
ASSUME BatchPositive == Batch \in Nat \ {0}
ASSUME SomeAttempts  == Attempts \in Nat \ {0}
ASSUME Bounds        == MaxClock \in Nat /\ MaxRated \in Nat /\ MaxOutages \in Nat

\* A stored message: its created_at and the utterances it stands for, itself
\* alone for a USER or ASSISTANT message, a set of others for a summary.
Messages  == [at : Nat, covers : SUBSET Nat]
TurnStops == {"idle", "ask", "history", "reply"}

VARIABLES
  clock,    \* transactions started so far
  log,      \* committed rows of the messages table
  said,     \* history: created_at of every utterance ever committed
  stop,     \* stop[t]: what turn t does next
  begun,    \* begun[t]: start of the open transaction of turn t
  queue,    \* queue[n]: tasks waiting with n runs left
  busy,     \* busy[w]: runs left of the task worker w is in, 0 for none
  opened,   \* opened[w]: start of the worker's transaction
  picked,   \* picked[w]: the rows the worker read
  rated,    \* created_at of the messages a message_feedbacks row refers to
  outages   \* failures counted against MaxOutages

turnVars == <<stop, begun>>
taskVars == <<busy, opened, picked>>
vars == <<clock, log, said, turnVars, queue, taskVars, rated, outages>>

IsSummary(m) == m.covers # {m.at}
Covered(S)   == UNION {m.covers : m \in S}

\* The oldest n rows by created_at.
Oldest(n) == {m \in log : Cardinality({o \in log : o.at < m.at}) < n}

-----------------------------------------------------------------------------
Init ==
  /\ clock = 0 /\ log = {} /\ said = {}
  /\ stop   = [t \in Turns |-> "idle"]
  /\ begun  = [t \in Turns |-> 0]
  /\ queue  = [n \in 1 .. Attempts |-> 0]
  /\ busy   = [w \in Workers |-> 0]
  /\ opened = [w \in Workers |-> 0]
  /\ picked = [w \in Workers |-> {}]
  /\ rated = {} /\ outages = 0

\* INSERT and COMMIT of an utterance, stamped with its transaction's start.
Say(at) ==
  /\ log'  = log \cup {[at |-> at, covers |-> {at}]}
  /\ said' = said \cup {at}

\* get_conversation: the first SELECT starts the turn's transaction.
Open(t) ==
  /\ stop[t] = "idle"
  /\ clock < MaxClock
  /\ clock' = clock + 1
  /\ begun' = [begun EXCEPT ![t] = clock']
  /\ stop'  = [stop EXCEPT ![t] = "ask"]
  /\ UNCHANGED <<log, said, queue, taskVars, rated, outages>>

\* The USER message is committed, and its refresh starts the transaction the
\* ASSISTANT message will be inserted in, before anything is generated.
Ask(t) ==
  /\ stop[t] = "ask"
  /\ Say(begun[t])
  /\ clock' = clock + 1
  /\ begun' = [begun EXCEPT ![t] = clock']
  /\ stop'  = [stop EXCEPT ![t] = "history"]
  /\ UNCHANGED <<queue, taskVars, rated, outages>>

\* The history is read; one that holds a batch queues a compression.
ReadHistory(t) ==
  /\ stop[t] = "history"
  /\ queue' = IF Cardinality(log) >= Batch
                THEN [queue EXCEPT ![Attempts] = @ + 1] ELSE queue
  /\ stop'  = [stop EXCEPT ![t] = "reply"]
  /\ UNCHANGED <<clock, log, said, begun, taskVars, rated, outages>>

\* The first usage or settings row of the organization, or a ticket, is
\* committed on the way, and the next statement starts a new transaction.
Renew(t) ==
  /\ stop[t] = "reply"
  /\ clock < MaxClock
  /\ clock' = clock + 1
  /\ begun' = [begun EXCEPT ![t] = clock']
  /\ UNCHANGED <<log, said, stop, queue, taskVars, rated, outages>>

\* The ASSISTANT message is committed.
Reply(t) ==
  /\ stop[t] = "reply"
  /\ Say(begun[t])
  /\ stop' = [stop EXCEPT ![t] = "idle"]
  /\ UNCHANGED <<clock, begun, queue, taskVars, rated, outages>>

\* reply_as_agent: the request commits a SUPPORT message instead, and is done.
AgentReply(t) ==
  /\ stop[t] = "ask"
  /\ Say(begun[t])
  /\ stop' = [stop EXCEPT ![t] = "idle"]
  /\ UNCHANGED <<clock, begun, queue, taskVars, rated, outages>>

\* The turn fails: over quota, a provider error, a disconnect, a restart.
AbortTurn(t) ==
  /\ stop[t] # "idle"
  /\ stop' = [stop EXCEPT ![t] = "idle"]
  /\ UNCHANGED <<clock, log, said, begun, queue, taskVars, rated, outages>>

\* FeedbackService.submit_feedback inserts a row that refers to the message.
Rate(m) ==
  /\ m \in log
  /\ Cardinality(rated) < MaxRated
  /\ rated' = rated \cup {m.at}
  /\ UNCHANGED <<clock, log, said, turnVars, queue, taskVars, outages>>

-----------------------------------------------------------------------------
\* The worker's task is over.
Release(w) ==
  /\ busy'   = [busy EXCEPT ![w] = 0]
  /\ picked' = [picked EXCEPT ![w] = {}]
  /\ opened' = [opened EXCEPT ![w] = 0]

\* Mutant: a failed task is not queued again.
FailTaskForGood(w) ==
  /\ Release(w)
  /\ UNCHANGED <<clock, log, said, turnVars, queue, rated>>

\* autoretry_for queues a failed task with one run less.
FailTask(w) ==
  /\ Release(w)
  /\ queue' = IF busy[w] > 1 THEN [queue EXCEPT ![busy[w] - 1] = @ + 1] ELSE queue
  /\ UNCHANGED <<clock, log, said, turnVars, rated>>

\* A worker takes a task and reads the oldest rows; fewer than a batch and it
\* returns.
Pick(w) ==
  /\ busy[w] = 0
  /\ \E n \in 1 .. Attempts :
       /\ queue[n] > 0
       /\ queue' = [queue EXCEPT ![n] = @ - 1]
       /\ IF Cardinality(Oldest(Batch)) < Batch
            THEN UNCHANGED <<clock, taskVars>>
            ELSE /\ clock'  = clock + 1
                 /\ opened' = [opened EXCEPT ![w] = clock']
                 /\ busy'   = [busy EXCEPT ![w] = n]
                 /\ picked' = [picked EXCEPT ![w] = Oldest(Batch)]
  /\ UNCHANGED <<log, said, turnVars, rated, outages>>

\* Mutant: everything up to the last row read is deleted, by created_at.
ReplaceUpToLast(w) ==
  /\ busy[w] > 0
  /\ ~ \E m \in log : m \in picked[w] /\ m.at \in rated
  /\ log' = {m \in log : \A p \in picked[w] : m.at > p.at}
            \cup {[at |-> opened[w], covers |-> Covered(picked[w])]}
  /\ Release(w)
  /\ UNCHANGED <<clock, said, turnVars, queue, rated, outages>>

\* The summary is back: DELETE of the rows read, INSERT of the summary, COMMIT.
\* Rows another task deleted meanwhile are no obstacle.
Replace(w) ==
  /\ busy[w] > 0
  /\ ~ \E m \in log : m \in picked[w] /\ m.at \in rated
  /\ log' = (log \ picked[w])
            \cup {[at |-> opened[w], covers |-> Covered(picked[w])]}
  /\ Release(w)
  /\ UNCHANGED <<clock, said, turnVars, queue, rated, outages>>

\* The DELETE fails on the foreign key of message_feedbacks.
RefuseDelete(w) ==
  /\ busy[w] > 0
  /\ \E m \in log : m \in picked[w] /\ m.at \in rated
  /\ FailTask(w)
  /\ UNCHANGED outages

\* The LLM, the database or the worker fails; nothing was committed.
Outage(w) ==
  /\ busy[w] > 0
  /\ outages < MaxOutages
  /\ outages' = outages + 1
  /\ FailTask(w)

TurnStep(t) == Ask(t) \/ ReadHistory(t) \/ Reply(t)
TaskStep(w) == Pick(w) \/ Replace(w) \/ RefuseDelete(w)

Next ==
  \/ \E t \in Turns : Open(t) \/ TurnStep(t) \/ Renew(t) \/ AgentReply(t) \/ AbortTurn(t)
  \/ \E w \in Workers : TaskStep(w) \/ Outage(w)
  \/ \E m \in log : Rate(m)

\* Started turns run on, and workers keep taking tasks and running them.
Fairness ==
  /\ \A t \in Turns : WF_vars(TurnStep(t))
  /\ \A w \in Workers : WF_vars(TaskStep(w))

Spec     == Init /\ [][Next]_vars
FairSpec == Spec /\ Fairness

-----------------------------------------------------------------------------
\* Every variable stays in its domain.
TypeOK ==
  /\ clock \in Nat /\ outages \in Nat
  /\ log \subseteq Messages
  /\ said \subseteq Nat /\ rated \subseteq Nat
  /\ stop \in [Turns -> TurnStops]
  /\ begun \in [Turns -> Nat]
  /\ queue \in [1 .. Attempts -> Nat]
  /\ busy \in [Workers -> 0 .. Attempts]
  /\ opened \in [Workers -> Nat]
  /\ picked \in [Workers -> SUBSET Messages]

\* Whatever turns commit late and however many tasks compress the same rows,
\* every utterance is stored or covered by a stored summary, and no summary
\* covers anything else.
NothingForgotten == Covered(log) = said

\* A message that a feedback refers to is never compressed away.
RatedMessagesRemain == \A s \in rated : \E m \in log : m.at = s

\* A queued compression ends in a summary, in spite of rival tasks and of
\* failures that the retries can absorb, unless a message has been rated.
Queued     == \E n \in 1 .. Attempts : queue[n] > 0
Summarized == \E m \in log : IsSummary(m)
LongHistoriesAreCompressed ==
  Queued ~> (Summarized \/ rated # {} \/ outages >= Attempts)

\* memory.py, header: inject the summary at the top of the prompt. The prompt
\* lists the history by created_at.
SummaryOnTop ==
  \A m, o \in log : IsSummary(m) /\ ~IsSummary(o) => m.at < o.at

\* memory.py, header: you will never hit the token limit, because a history
\* that reaches a batch is compressed.
CompressionIsGuaranteed == Queued ~> Summarized
=============================================================================
