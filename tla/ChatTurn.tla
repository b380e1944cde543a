------------------------------ MODULE ChatTurn ------------------------------
(***************************************************************************)
(* The chat pipeline of one organization: ChatService.answer (POST /chat)  *)
(* and stream_answer (the SSE endpoints), the AI quota they check first    *)
(* and record last, the escalation that opens a ticket, the manual         *)
(* POST /tickets that shares create_ticket with it, and the Celery task    *)
(* that mails urgent tickets.                                              *)
(*                                                                         *)
(* A turn is a coroutine with its own database session, cut at every await *)
(* that reads or writes shared state. Retrieval, routing, settings and     *)
(* prompt building only read and are left out: they can only raise, which  *)
(* is Abort. Several turns run at once, in one conversation or in many.    *)
(***************************************************************************)
EXTENDS Naturals, FiniteSets

CONSTANTS Turns,         \* request slots: how many turns are in flight at once
          Convs,         \* conversations of the organization
          Tickets,       \* ticket ids: bounds how many tickets are ever inserted
          Modes,         \* entry points in use, a subset of EntryPoints
          Verdicts,      \* escalation decisions the model may return
          MaxResponses,  \* max_ai_responses_per_month of the plan
          MaxTokens,     \* max_ai_tokens_per_month of the plan
          MaxCost,       \* most tokens one completion takes
          MaxLost        \* bound on answers whose usage record never runs

EntryPoints == {"api", "stream", "manual"}
Decisions   == {"ANSWER", "MEDIUM", "URGENT"}
None        == "none"

ASSUME TurnsFinite     == IsFiniteSet(Turns) /\ Turns # {}
ASSUME TicketsFinite   == IsFiniteSet(Tickets)
ASSUME ModesKnown      == Modes \subseteq EntryPoints
ASSUME VerdictsKnown   == Verdicts \subseteq Decisions
ASSUME PlanLimits      == MaxResponses \in Nat \ {0} /\ MaxTokens \in Nat \ {0}
ASSUME CostBound       == MaxCost \in Nat
ASSUME LostBound       == MaxLost \in Nat
ASSUME NoTicketIsNone  == None \notin Tickets

Rows == [id : Tickets, conv : Convs, urgent : BOOLEAN]
Jobs == [mode : Modes, conv : Convs, verdict : Decisions \cup {None},
         cost : 0 .. MaxCost, draft : Tickets \cup {None}]
NoJob == [mode |-> None, conv |-> None, verdict |-> None, cost |-> 0, draft |-> None]

VARIABLES
  pc,         \* pc[t]: the await turn t performs next
  job,        \* job[t]: arguments and local variables of turn t
  metered,    \* the usage row of the current period exists
  used,       \* ai_responses_used of that row
  tokens,     \* prompt_tokens_used + completion_tokens_used of that row
  answers,    \* history: committed ASSISTANT messages
  lost,       \* history: turns that stopped after the message, before the count
  told,       \* conversations holding a "your ticket has been created" message
  minted,     \* ticket ids inserted so far, committed or not
  open,       \* committed rows of the tickets table
  committed,  \* history: every row ever committed
  announced,  \* ids whose TICKET_CREATED webhook was fired
  queue,      \* ids in send_ticket_create_email tasks not yet taken
  mailed,     \* ids whose email a worker has composed
  unserved    \* history: conversations with a charged answer that was not returned

turnVars   == <<pc, job>>
usageVars  == <<metered, used, tokens>>
textVars   == <<answers, lost, told, unserved>>
ticketVars == <<minted, open, committed, announced>>
mailVars   == <<queue, mailed>>
vars == <<turnVars, usageVars, textVars, ticketVars, mailVars>>

Stops == {"idle", "ask", "quota", "meter", "decide", "lookup", "insert",
          "mail", "announce", "commit", "generate", "reply", "record", "title"}

\* Turns that have passed the quota and have not recorded their response.
Admitted == {"decide", "lookup", "insert", "mail", "announce", "commit",
             "generate", "reply", "record"}
InFlight == {t \in Turns : pc[t] \in Admitted /\ job[t].mode # "manual"}

TicketOf(c) == {row \in open : row.conv = c}

\* The turn whose open transaction holds an uncommitted ticket of c.
Holders(c) == {t \in Turns : job[t].draft # None /\ job[t].conv = c}

-----------------------------------------------------------------------------
Init ==
  /\ pc  = [t \in Turns |-> "idle"]
  /\ job = [t \in Turns |-> NoJob]
  /\ metered = FALSE /\ used = 0 /\ tokens = 0
  /\ answers = 0 /\ lost = 0 /\ told = {} /\ unserved = {}
  /\ minted = {} /\ open = {} /\ committed = {} /\ announced = {}
  /\ queue = {} /\ mailed = {}

GoTo(t, stop) == pc' = [pc EXCEPT ![t] = stop]

\* The turn answers or raises; its session rolls back what is uncommitted.
Finish(t) ==
  /\ GoTo(t, "idle")
  /\ job' = [job EXCEPT ![t] = NoJob]

\* A ticket id is left for one more turn on its way to the INSERT.
CanMint ==
  Cardinality({t \in Turns : pc[t] \in {"lookup", "insert"}})
    < Cardinality(Tickets \ minted)

-----------------------------------------------------------------------------
\* A request arrives for an existing conversation. An agent's POST /tickets
\* names the priority and goes straight to create_ticket.
Begin(t) ==
  /\ pc[t] = "idle"
  /\ \E m \in Modes, c \in Convs :
       \E v \in (IF m = "manual" THEN Decisions \ {"ANSWER"} ELSE {None}) :
         /\ m = "manual" => CanMint
         /\ job' = [job EXCEPT ![t] = [mode |-> m, conv |-> c, verdict |-> v,
                                       cost |-> 0, draft |-> None]]
         /\ GoTo(t, IF m = "manual" THEN "lookup" ELSE "ask")
  /\ UNCHANGED <<usageVars, textVars, ticketVars, mailVars>>

\* The USER message is inserted and committed, before any quota is looked at.
Ask(t) ==
  /\ pc[t] = "ask"
  /\ GoTo(t, "quota")
  /\ UNCHANGED <<job, usageVars, textVars, ticketVars, mailVars>>

\* Mutant: one response too many is let through.
CheckQuotaOffByOne(t) ==
  /\ pc[t] = "quota"
  /\ CASE ~metered -> GoTo(t, "meter") /\ UNCHANGED job
       [] metered /\ used <= MaxResponses /\ tokens < MaxTokens ->
            GoTo(t, "decide") /\ UNCHANGED job
       [] OTHER -> Finish(t)
  /\ UNCHANGED <<usageVars, textVars, ticketVars, mailVars>>

\* Mutant: a turn over the quota waits for room instead of being refused.
CheckQuotaWaits(t) ==
  /\ pc[t] = "quota"
  /\ CASE ~metered -> GoTo(t, "meter") /\ UNCHANGED job
       [] OTHER -> used < MaxResponses /\ GoTo(t, "decide") /\ UNCHANGED job
  /\ UNCHANGED <<usageVars, textVars, ticketVars, mailVars>>

\* check_ai_quota: the counters are read and compared; nothing is reserved.
CheckQuota(t) ==
  /\ pc[t] = "quota"
  /\ CASE ~metered -> GoTo(t, "meter") /\ UNCHANGED job
       [] metered /\ used < MaxResponses /\ tokens < MaxTokens ->
            GoTo(t, "decide") /\ UNCHANGED job
       [] OTHER -> Finish(t)
  /\ UNCHANGED <<usageVars, textVars, ticketVars, mailVars>>

\* The first turn of a period inserts the row; a second one that saw none
\* either fails on uq_org_usage_period.
CreateUsage(t) ==
  /\ pc[t] = "meter"
  /\ IF metered THEN Finish(t) ELSE GoTo(t, "decide") /\ UNCHANGED job
  /\ metered' = TRUE
  /\ UNCHANGED <<used, tokens, textVars, ticketVars, mailVars>>

\* Mutant: the handoff message is sent without opening a ticket.
DecideWithoutTicket(t) ==
  /\ pc[t] = "decide"
  /\ \E v \in Verdicts :
       /\ v # "ANSWER" => CanMint
       /\ job' = [job EXCEPT ![t].verdict = v]
       /\ GoTo(t, IF v = "ANSWER" THEN "generate" ELSE "reply")
  /\ UNCHANGED <<usageVars, textVars, ticketVars, mailVars>>

\* The escalation model decides: answer, or escalate with a priority.
Decide(t) ==
  /\ pc[t] = "decide"
  /\ \E v \in Verdicts :
       /\ v # "ANSWER" => CanMint
       /\ job' = [job EXCEPT ![t].verdict = v]
       /\ GoTo(t, IF v = "ANSWER" THEN "generate" ELSE "lookup")
  /\ UNCHANGED <<usageVars, textVars, ticketVars, mailVars>>

-----------------------------------------------------------------------------
\* create_ticket looks for a ticket of the conversation. EscalationService
\* catches TicketAlreadyExists and hands off all the same; an agent gets 409.
LookUpTicket(t) ==
  /\ pc[t] = "lookup"
  /\ CASE TicketOf(job[t].conv) = {} -> GoTo(t, "insert") /\ UNCHANGED job
       [] job[t].mode = "manual" /\ TicketOf(job[t].conv) # {} -> Finish(t)
       [] OTHER -> GoTo(t, "reply") /\ UNCHANGED job
  /\ UNCHANGED <<usageVars, textVars, ticketVars, mailVars>>

\* Mutant: tickets.conversation_id is not unique.
InsertTicketNotUnique(t) ==
  /\ pc[t] = "insert"
  /\ \E k \in Tickets \ minted :
       /\ job' = [job EXCEPT ![t].draft = k]
       /\ minted' = minted \cup {k}
       /\ GoTo(t, IF job[t].verdict = "URGENT" THEN "mail" ELSE "announce")
  /\ UNCHANGED <<usageVars, textVars, open, committed, announced, mailVars>>

\* The INSERT is flushed. The unique index makes it wait while another open
\* transaction holds a ticket of the conversation, and fail if one committed.
InsertTicket(t) ==
  /\ pc[t] = "insert"
  /\ Holders(job[t].conv) = {}
  /\ IF TicketOf(job[t].conv) # {}
       THEN Finish(t) /\ UNCHANGED minted
       ELSE \E k \in Tickets \ minted :
              /\ job' = [job EXCEPT ![t].draft = k]
              /\ minted' = minted \cup {k}
              /\ GoTo(t, IF job[t].verdict = "URGENT" THEN "mail" ELSE "announce")
  /\ UNCHANGED <<usageVars, textVars, open, committed, announced, mailVars>>

\* Mutant: an urgent ticket is mailed instead of announced.
QueueMailOnly(t) ==
  /\ pc[t] = "mail"
  /\ queue' = queue \cup {job[t].draft}
  /\ GoTo(t, "commit")
  /\ UNCHANGED <<job, usageVars, textVars, ticketVars, mailed>>

\* send_ticket_create_email.delay, for an urgent ticket, before the commit.
QueueMail(t) ==
  /\ pc[t] = "mail"
  /\ queue' = queue \cup {job[t].draft}
  /\ GoTo(t, "announce")
  /\ UNCHANGED <<job, usageVars, textVars, ticketVars, mailed>>

\* fire_webhook_event(TICKET_CREATED), also before the commit.
Announce(t) ==
  /\ pc[t] = "announce"
  /\ announced' = announced \cup {job[t].draft}
  /\ GoTo(t, "commit")
  /\ UNCHANGED <<job, usageVars, textVars, minted, open, committed, mailVars>>

CommitTicket(t) ==
  LET row == [id |-> job[t].draft, conv |-> job[t].conv,
              urgent |-> job[t].verdict = "URGENT"] IN
  /\ pc[t] = "commit"
  /\ open' = open \cup {row}
  /\ committed' = committed \cup {row}
  /\ IF job[t].mode = "manual"
       THEN Finish(t)
       ELSE GoTo(t, "reply") /\ job' = [job EXCEPT ![t].draft = None]
  /\ UNCHANGED <<usageVars, textVars, minted, announced, mailVars>>

-----------------------------------------------------------------------------
\* The model writes the answer. A failing stream falls back to an apology
\* that costs nothing; a failing completion raises, which is Abort.
Generate(t) ==
  /\ pc[t] = "generate"
  /\ \E n \in 0 .. MaxCost : job' = [job EXCEPT ![t].cost = n]
  /\ GoTo(t, "reply")
  /\ UNCHANGED <<usageVars, textVars, ticketVars, mailVars>>

\* The ASSISTANT message (the answer, or the handoff text) is committed.
Reply(t) ==
  /\ pc[t] = "reply"
  /\ answers' = answers + 1
  /\ told' = IF job[t].verdict = "ANSWER" THEN told ELSE told \cup {job[t].conv}
  /\ GoTo(t, "record")
  /\ UNCHANGED <<job, lost, unserved, usageVars, ticketVars, mailVars>>

\* Mutant: a reply that took no tokens is not counted.
RecordPaidOnly(t) ==
  /\ pc[t] = "record"
  /\ used' = used + (IF job[t].cost > 0 THEN 1 ELSE 0)
  /\ tokens' = tokens + job[t].cost
  /\ IF job[t].mode = "api" THEN GoTo(t, "title") /\ UNCHANGED job ELSE Finish(t)
  /\ UNCHANGED <<metered, textVars, ticketVars, mailVars>>

\* record_ai_response: one atomic UPDATE, committed.
Record(t) ==
  /\ pc[t] = "record"
  /\ used' = used + 1
  /\ tokens' = tokens + job[t].cost
  /\ IF job[t].mode = "api" THEN GoTo(t, "title") /\ UNCHANGED job ELSE Finish(t)
  /\ UNCHANGED <<metered, textVars, ticketVars, mailVars>>

\* answer returns result.answer, which is set only by an escalation, and
\* ChatResponse refuses None. The title it flushed is never committed.
Title(t) ==
  /\ pc[t] = "title"
  /\ unserved' = IF job[t].verdict = "ANSWER" THEN unserved \cup {job[t].conv}
                                              ELSE unserved
  /\ Finish(t)
  /\ UNCHANGED <<answers, lost, told, usageVars, ticketVars, mailVars>>

\* A provider or database error, a client that disconnects from its stream,
\* or a restart ends the turn; its open transaction is rolled back.
Abort(t) ==
  /\ pc[t] # "idle"
  /\ pc[t] = "record" => lost < MaxLost
  /\ lost' = lost + (IF pc[t] = "record" THEN 1 ELSE 0)
  /\ Finish(t)
  /\ UNCHANGED <<answers, told, unserved, usageVars, ticketVars, mailVars>>

-----------------------------------------------------------------------------
\* The worker takes a task, reads the ticket and mails it; it returns without
\* an error, hence without a retry, when it finds no row.
SendMail(k) ==
  /\ k \in queue
  /\ queue' = queue \ {k}
  /\ mailed' = mailed \cup {row.id : row \in {r \in open : r.id = k}}
  /\ UNCHANGED <<turnVars, usageVars, textVars, ticketVars>>

\* TicketService.delete_ticket.
DeleteTicket(row) ==
  /\ row \in open
  /\ open' = open \ {row}
  /\ UNCHANGED <<turnVars, usageVars, textVars, minted, committed, announced, mailVars>>

Step(t) ==
  \/ Ask(t) \/ CheckQuota(t) \/ CreateUsage(t) \/ Decide(t)
  \/ LookUpTicket(t) \/ InsertTicket(t) \/ QueueMail(t) \/ Announce(t)
  \/ CommitTicket(t) \/ Generate(t) \/ Reply(t) \/ Record(t) \/ Title(t)

Next ==
  \/ \E t \in Turns : Begin(t) \/ Step(t) \/ Abort(t)
  \/ \E k \in Tickets : SendMail(k)
  \/ \E row \in open : DeleteTicket(row)

\* The event loop runs every started turn, every provider call answers or
\* times out, and the workers drain their queue.
Fairness ==
  /\ \A t \in Turns : WF_vars(Step(t))
  /\ \A k \in Tickets : WF_vars(SendMail(k))

Spec     == Init /\ [][Next]_vars
FairSpec == Spec /\ Fairness

-----------------------------------------------------------------------------
\* Every variable stays in its domain.
TypeOK ==
  /\ pc \in [Turns -> Stops]
  /\ job \in [Turns -> Jobs \cup {NoJob}]
  /\ metered \in BOOLEAN
  /\ used \in Nat /\ tokens \in Nat /\ answers \in Nat /\ lost \in Nat
  /\ told \subseteq Convs /\ unserved \subseteq Convs
  /\ open \subseteq Rows /\ committed \subseteq Rows
  /\ minted \subseteq Tickets /\ announced \subseteq Tickets
  /\ queue \subseteq Tickets /\ mailed \subseteq Tickets

\* The quota is read long before it is charged, so concurrent turns overrun
\* it, but by fewer responses than there are turns in flight.
ResponsesBounded == used <= MaxResponses + Cardinality(Turns) - 1

\* Likewise for tokens: the last turns admitted may each spend a full
\* completion on top of a budget that had one token left.
TokensBounded == tokens <= MaxTokens + Cardinality(Turns) * MaxCost - 1

\* No answer is given away and none is charged twice: the committed ASSISTANT
\* messages are the responses counted, those about to be, and those whose
\* turn stopped between the two commits.
AnswersAreCounted ==
  answers = used + lost + Cardinality({t \in Turns : pc[t] = "record"})

\* A customer is told that a ticket was created only if one was committed for
\* the conversation, whoever inserted it and even if it is deleted since.
HandoffIsBacked == \A c \in told : \E row \in committed : row.conv = c

\* However many turns escalate a conversation at once, it has one ticket.
OneTicketPerConversation ==
  \A a, b \in open : a.conv = b.conv => a = b

\* No committed ticket is missing from the webhook stream, because the event
\* is fired before the commit (and may announce a ticket that rolls back).
TicketsAreAnnounced == \A row \in committed : row.id \in announced

\* Every turn ends, although inserts of one conversation wait for each other.
TurnsEnd == \A t \in Turns : pc[t] # "idle" ~> pc[t] = "idle"

\* README, sequence diagram: check_and_increment (AI response + token quota).
\* A check that also increments would keep the counter within the plan.
QuotaIsReserved == used <= MaxResponses

\* README, queue table: AI escalation creates a ticket -> the email is sent.
\* A committed urgent ticket has its email sent or its task still queued.
UrgentTicketsAreMailed ==
  \A row \in open : row.urgent => row.id \in queue \cup mailed

\* README, sequence diagram: the API answers ChatResponse(answer, ...).
AnswersReachTheCaller == unserved = {}

\* The response quota seen alone: checked at admission, charged at the end.
Meter == INSTANCE LateMeter WITH
  Limit <- MaxResponses, Slots <- Cardinality(Turns),
  pending <- Cardinality(InFlight)
MeterSpec == Meter!Spec
=============================================================================
