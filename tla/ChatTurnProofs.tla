--------------------------- MODULE ChatTurnProofs ---------------------------
(***************************************************************************)
(* Proofs about ChatTurn for every number of turns, conversations and      *)
(* tickets, every plan and every cost of a completion.                     *)
(***************************************************************************)
EXTENDS ChatTurn, FiniteSetTheorems, TLAPS

\* What a turn's position says about its local variables.
TurnShape ==
  \A t \in Turns :
    /\ pc[t] = "idle" => job[t] = NoJob
    /\ pc[t] # "idle" => job[t] \in Jobs
    /\ pc[t] \in {"mail", "announce", "commit"} => job[t].draft \in Tickets
    /\ pc[t] \notin {"mail", "announce", "commit"} => job[t].draft = None
    /\ pc[t] \in {"ask", "quota", "meter", "decide", "generate", "reply",
                  "record", "title"} => job[t].mode # "manual"

Typed == TypeOK /\ TurnShape

-----------------------------------------------------------------------------
LEMMA InitTyped == Init => Typed
<1> SUFFICES ASSUME Init PROVE Typed
  OBVIOUS
<1>1. TypeOK
  BY DEF Init, TypeOK, Stops
<1>2. ASSUME NEW t \in Turns PROVE pc[t] = "idle" /\ job[t] = NoJob /\ NoJob.draft = None
  BY DEF Init, NoJob
<1> QED BY <1>1, <1>2 DEF Typed, TurnShape

\* A step of one turn that goes on keeps the shape if it does for that turn.
LEMMA NextTyped == Typed /\ [Next]_vars => Typed'
<1> SUFFICES ASSUME Typed, [Next]_vars PROVE Typed'
  OBVIOUS
<1> USE ModesKnown, VerdictsKnown, NoTicketIsNone, CostBound, PlanLimits
    DEF Typed, TypeOK, TurnShape, turnVars, usageVars, textVars, ticketVars, mailVars
<1>1. ASSUME NEW t \in Turns, Begin(t) PROVE Typed'
  <2>1. PICK m \in Modes, c \in Convs, v \in Decisions \cup {None} :
          /\ pc[t] = "idle"
          /\ m # "manual" => v = None
          /\ job' = [job EXCEPT ![t] = [mode |-> m, conv |-> c, verdict |-> v,
                                        cost |-> 0, draft |-> None]]
          /\ pc' = [pc EXCEPT ![t] = IF m = "manual" THEN "lookup" ELSE "ask"]
          /\ UNCHANGED <<usageVars, textVars, ticketVars, mailVars>>
    BY <1>1 DEF Begin, GoTo
  <2>2. [mode |-> m, conv |-> c, verdict |-> v, cost |-> 0, draft |-> None] \in Jobs
    BY DEF Jobs
  <2> QED BY <2>1, <2>2 DEF Stops
<1>2. ASSUME NEW t \in Turns, Ask(t) PROVE Typed'
  BY <1>2 DEF Ask, GoTo, Stops
<1>3. ASSUME NEW t \in Turns, CheckQuota(t) PROVE Typed'
  BY <1>3 DEF CheckQuota, Finish, GoTo, Stops, NoJob
<1>4. ASSUME NEW t \in Turns, CreateUsage(t) PROVE Typed'
  BY <1>4 DEF CreateUsage, Finish, GoTo, Stops, NoJob
<1>5. ASSUME NEW t \in Turns, Decide(t) PROVE Typed'
  <2>1. PICK v \in Decisions :
          /\ job' = [job EXCEPT ![t].verdict = v]
          /\ pc' = [pc EXCEPT ![t] = IF v = "ANSWER" THEN "generate" ELSE "lookup"]
    BY <1>5 DEF Decide, GoTo
  <2>2. job[t] \in Jobs /\ pc[t] = "decide"
    BY <1>5 DEF Decide
  <2>3. [job[t] EXCEPT !.verdict = v] \in Jobs
    BY <2>2 DEF Jobs
  <2> QED BY <1>5, <2>1, <2>2, <2>3 DEF Decide, Stops, Jobs
<1>6. ASSUME NEW t \in Turns, LookUpTicket(t) PROVE Typed'
  BY <1>6 DEF LookUpTicket, Finish, GoTo, Stops, NoJob
<1>7. ASSUME NEW t \in Turns, InsertTicket(t) PROVE Typed'
  <2>1. CASE TicketOf(job[t].conv) # {}
    BY <1>7, <2>1 DEF InsertTicket, Finish, GoTo, Stops, NoJob
  <2>2. CASE TicketOf(job[t].conv) = {}
    <3>1. PICK k \in Tickets \ minted :
            /\ job' = [job EXCEPT ![t].draft = k]
            /\ minted' = minted \cup {k}
            /\ pc' = [pc EXCEPT ![t] = IF job[t].verdict = "URGENT" THEN "mail" ELSE "announce"]
      BY <1>7, <2>2 DEF InsertTicket, GoTo
    <3>2. job[t] \in Jobs /\ pc[t] = "insert"
      BY <1>7 DEF InsertTicket
    <3>3. [job[t] EXCEPT !.draft = k] \in Jobs
      BY <3>2 DEF Jobs
    <3> QED BY <1>7, <3>1, <3>2, <3>3 DEF InsertTicket, Stops, Jobs
  <2> QED BY <2>1, <2>2
<1>8. ASSUME NEW t \in Turns, QueueMail(t) PROVE Typed'
  BY <1>8 DEF QueueMail, GoTo, Stops
<1>9. ASSUME NEW t \in Turns, Announce(t) PROVE Typed'
  BY <1>9 DEF Announce, GoTo, Stops
<1>10. ASSUME NEW t \in Turns, CommitTicket(t) PROVE Typed'
  <2> DEFINE row == [id |-> job[t].draft, conv |-> job[t].conv,
                     urgent |-> job[t].verdict = "URGENT"]
  <2>1. job[t] \in Jobs /\ pc[t] = "commit" /\ job[t].draft \in Tickets
    BY <1>10 DEF CommitTicket
  <2>2. row \in Rows
    BY <2>1 DEF Rows, Jobs
  <2>3. [job[t] EXCEPT !.draft = None] \in Jobs
    BY <2>1 DEF Jobs
  <2>4. /\ open' = open \cup {row} /\ committed' = committed \cup {row}
        /\ UNCHANGED <<usageVars, textVars, minted, announced, mailVars>>
    BY <1>10 DEF CommitTicket
  <2>5. CASE job[t].mode = "manual"
    <3>1. Finish(t) BY <1>10, <2>5 DEF CommitTicket
    <3> QED BY <2>2, <2>4, <3>1 DEF Finish, GoTo, Stops, NoJob
  <2>6. CASE job[t].mode # "manual"
    <3>1. /\ job' = [job EXCEPT ![t].draft = None]
          /\ pc' = [pc EXCEPT ![t] = "reply"]
      BY <1>10, <2>6 DEF CommitTicket, GoTo
    <3> HIDE DEF row
    <3> QED BY <2>1, <2>2, <2>3, <2>4, <2>6, <3>1 DEF Stops, Jobs
  <2> QED BY <2>5, <2>6
<1>11. ASSUME NEW t \in Turns, Generate(t) PROVE Typed'
  <2>1. PICK n \in 0 .. MaxCost : job' = [job EXCEPT ![t].cost = n]
    BY <1>11 DEF Generate
  <2>2. job[t] \in Jobs /\ pc[t] = "generate"
    BY <1>11 DEF Generate
  <2>3. [job[t] EXCEPT !.cost = n] \in Jobs
    BY <2>2 DEF Jobs
  <2> QED BY <1>11, <2>1, <2>2, <2>3 DEF Generate, GoTo, Stops, Jobs
<1>12. ASSUME NEW t \in Turns, Reply(t) PROVE Typed'
  <2>1. job[t].conv \in Convs
    BY <1>12 DEF Reply, Jobs
  <2> QED BY <1>12, <2>1 DEF Reply, GoTo, Stops
<1>13. ASSUME NEW t \in Turns, Record(t) PROVE Typed'
  <2>1. job[t].cost \in Nat
    BY <1>13 DEF Record, Jobs
  <2> QED BY <1>13, <2>1 DEF Record, Finish, GoTo, Stops, NoJob
<1>14. ASSUME NEW t \in Turns, Title(t) PROVE Typed'
  <2>1. job[t].conv \in Convs
    BY <1>14 DEF Title, Jobs
  <2> QED BY <1>14, <2>1 DEF Title, Finish, GoTo, Stops, NoJob
<1>15. ASSUME NEW t \in Turns, Abort(t) PROVE Typed'
  BY <1>15 DEF Abort, Finish, GoTo, Stops, NoJob
<1>16. ASSUME NEW k \in Tickets, SendMail(k) PROVE Typed'
  <2>1. {row.id : row \in {r \in open : r.id = k}} \subseteq Tickets
    BY DEF Rows
  <2> QED BY <1>16, <2>1 DEF SendMail
<1>17. ASSUME NEW row \in open, DeleteTicket(row) PROVE Typed'
  BY <1>17 DEF DeleteTicket
<1>18. CASE UNCHANGED vars
  BY <1>18 DEF vars
<1> QED
  BY <1>1, <1>2, <1>3, <1>4, <1>5, <1>6, <1>7, <1>8, <1>9, <1>10, <1>11, <1>12,
     <1>13, <1>14, <1>15, <1>16, <1>17, <1>18 DEF Next, Step

LEMMA TypedAlways == Spec => []Typed
BY InitTyped, NextTyped, PTL DEF Spec

\* Every variable stays in its domain (chat_services.answer and stream_answer
\* with the services they call).
THEOREM TypeCorrect == Spec => []TypeOK
<1>1. Typed => TypeOK BY DEF Typed
<1> QED BY TypedAlways, <1>1, PTL

-----------------------------------------------------------------------------
\* The two quotas are charged when a turn leaves InFlight, so what a step does
\* to the counters is told by what it does to that set: it admits a turn when
\* it found room, charges one, abandons one, or leaves set and counters alone.
Admits(t) ==
  /\ used < MaxResponses /\ tokens < MaxTokens /\ metered' = TRUE
  /\ t \notin InFlight /\ InFlight' = InFlight \cup {t}
  /\ UNCHANGED <<used, tokens>>
Charges(t) ==
  /\ t \in InFlight /\ InFlight' = InFlight \ {t}
  /\ used' = used + 1
  /\ \E n \in 0 .. MaxCost : tokens' = tokens + n
Abandons(t) ==
  /\ t \in InFlight /\ InFlight' = InFlight \ {t}
  /\ UNCHANGED <<used, tokens>>
LeavesMeter ==
  InFlight' = InFlight /\ UNCHANGED <<used, tokens>>

\* Nothing is in flight, and nothing counted, before the period's row exists.
RowCounts == ~metered => used = 0 /\ tokens = 0 /\ InFlight = {}

LEMMA InitRow == Init => RowCounts
BY DEF Init, RowCounts, InFlight, Admitted

\* What a step does to the meter, action by action.
LEMMA MeterStep ==
  ASSUME Typed, RowCounts, [Next]_vars
  PROVE  LeavesMeter \/ \E t \in Turns : Admits(t) \/ Charges(t) \/ Abandons(t)
<1> USE DEF turnVars, usageVars, textVars, ticketVars, mailVars
<1>0. /\ pc \in [Turns -> Stops] /\ job \in [Turns -> Jobs \cup {NoJob}]
      /\ \A t \in Turns : pc[t] \in {"ask", "quota", "meter", "decide", "generate",
                                     "reply", "record", "title"} => job[t].mode # "manual"
  BY DEF Typed, TypeOK, TurnShape
<1>1. ASSUME NEW t \in Turns, CheckQuota(t) PROVE LeavesMeter \/ Admits(t)
  <2>1. metered \in BOOLEAN BY DEF Typed, TypeOK
  <2> QED
  BY <1>0, <1>1, <2>1 DEF CheckQuota, Finish, GoTo, InFlight, Admitted, LeavesMeter, Admits
<1>2. ASSUME NEW t \in Turns, CreateUsage(t) PROVE LeavesMeter \/ Admits(t)
  BY <1>0, <1>2, PlanLimits
     DEF CreateUsage, Finish, GoTo, InFlight, Admitted, LeavesMeter, Admits, RowCounts
<1>3. ASSUME NEW t \in Turns, Record(t) PROVE Charges(t)
  <2>1. job[t].cost \in 0 .. MaxCost
    BY <1>3 DEF Record, Typed, TurnShape, Jobs
  <2>2. t \in InFlight /\ InFlight' = InFlight \ {t}
    BY <1>0, <1>3 DEF Record, Finish, GoTo, InFlight, Admitted
  <2> QED BY <1>3, <2>1, <2>2 DEF Record, Charges
<1>4. ASSUME NEW t \in Turns, Abort(t) PROVE LeavesMeter \/ Abandons(t)
  BY <1>0, <1>4 DEF Abort, Finish, GoTo, InFlight, Admitted, LeavesMeter, Abandons
<1>5. ASSUME NEW t \in Turns, Begin(t) PROVE LeavesMeter
  BY <1>0, <1>5 DEF Begin, GoTo, InFlight, Admitted, LeavesMeter
<1>6. ASSUME NEW t \in Turns, Ask(t) \/ Title(t) PROVE LeavesMeter
  BY <1>0, <1>6 DEF Ask, Title, Finish, GoTo, InFlight, Admitted, LeavesMeter
<1>7. ASSUME NEW t \in Turns, Decide(t) \/ Generate(t) \/ Reply(t) PROVE LeavesMeter
  <2>1. job[t] \in Jobs /\ pc[t] \in Admitted
    BY <1>7 DEF Decide, Generate, Reply, Typed, TurnShape, Admitted
  <2>2. /\ job'[t].mode = job[t].mode
        /\ \A q \in Turns \ {t} : job'[q] = job[q]
    BY <1>0, <1>7, <2>1 DEF Decide, Generate, Reply, Jobs
  <2>3. \E s \in Admitted : pc' = [pc EXCEPT ![t] = s]
    BY <1>7 DEF Decide, Generate, Reply, GoTo, Admitted
  <2>4. InFlight' = InFlight
    BY <1>0, <2>1, <2>2, <2>3 DEF InFlight
  <2> QED BY <1>7, <2>4 DEF Decide, Generate, Reply, LeavesMeter
<1>8. ASSUME NEW t \in Turns, LookUpTicket(t) PROVE LeavesMeter
  <2>1. CASE Finish(t) /\ job[t].mode = "manual"
    <3>1. InFlight' = InFlight
      BY <1>0, <2>1 DEF Finish, GoTo, InFlight, Admitted
    <3> QED BY <1>8, <3>1 DEF LookUpTicket, LeavesMeter
  <2>2. CASE pc[t] = "lookup" /\ (GoTo(t, "insert") \/ GoTo(t, "reply")) /\ UNCHANGED job
    BY <1>0, <1>8, <2>2 DEF LookUpTicket, GoTo, InFlight, Admitted, LeavesMeter
  <2> QED BY <1>8, <2>1, <2>2 DEF LookUpTicket
<1>9. ASSUME NEW t \in Turns, InsertTicket(t) PROVE LeavesMeter \/ Abandons(t)
  <2>1. pc[t] = "insert" /\ job[t] \in Jobs /\ UNCHANGED usageVars
    BY <1>9 DEF InsertTicket, Typed, TurnShape
  <2>2. CASE Finish(t)
    BY <1>0, <2>1, <2>2 DEF Finish, GoTo, InFlight, Admitted, LeavesMeter, Abandons
  <2>3. CASE ~Finish(t)
    <3>1. PICK k \in Tickets : job' = [job EXCEPT ![t].draft = k]
      BY <1>9, <2>3 DEF InsertTicket
    <3>2. GoTo(t, "mail") \/ GoTo(t, "announce")
      BY <1>9, <2>3 DEF InsertTicket
    <3>3. InFlight' = InFlight
      BY <1>0, <2>1, <3>1, <3>2 DEF GoTo, InFlight, Admitted, Jobs
    <3> QED BY <2>1, <3>3 DEF LeavesMeter
  <2> QED BY <2>2, <2>3
<1>10. ASSUME NEW t \in Turns, QueueMail(t) \/ Announce(t) PROVE LeavesMeter
  BY <1>0, <1>10 DEF QueueMail, Announce, GoTo, InFlight, Admitted, LeavesMeter
<1>11. ASSUME NEW t \in Turns, CommitTicket(t) PROVE LeavesMeter
  <2>1. pc[t] = "commit" /\ job[t] \in Jobs /\ UNCHANGED usageVars
    BY <1>11 DEF CommitTicket, Typed, TurnShape
  <2>2. CASE job[t].mode = "manual"
    BY <1>0, <1>11, <2>1, <2>2 DEF CommitTicket, Finish, GoTo, InFlight, Admitted, LeavesMeter
  <2>3. CASE job[t].mode # "manual"
    <3>1. job' = [job EXCEPT ![t].draft = None] /\ GoTo(t, "reply")
      BY <1>11, <2>3 DEF CommitTicket
    <3>2. InFlight' = InFlight
      BY <1>0, <2>1, <2>3, <3>1 DEF GoTo, InFlight, Admitted, Jobs
    <3> QED BY <2>1, <3>2 DEF LeavesMeter
  <2> QED BY <2>2, <2>3
<1>12. ASSUME \/ \E k \in Tickets : SendMail(k)
              \/ \E row \in open : DeleteTicket(row)
              \/ UNCHANGED vars
       PROVE  LeavesMeter
  BY <1>12 DEF SendMail, DeleteTicket, vars, InFlight, LeavesMeter
<1> QED
  BY <1>1, <1>2, <1>3, <1>4, <1>5, <1>6, <1>7, <1>8, <1>9, <1>10, <1>11, <1>12
     DEF Next, Step

LEMMA NextRow == Typed /\ RowCounts /\ [Next]_vars => RowCounts'
<1> SUFFICES ASSUME Typed, RowCounts, [Next]_vars, ~metered' PROVE RowCounts'
  BY DEF RowCounts
<1>1. ~metered
  BY DEF Next, Step, Begin, Ask, CheckQuota, CreateUsage, Decide, LookUpTicket,
     InsertTicket, QueueMail, Announce, CommitTicket, Generate, Reply, Record, Title,
     Abort, SendMail, DeleteTicket, vars, usageVars
<1> QED BY MeterStep, <1>1 DEF RowCounts, LeavesMeter, Admits, Charges, Abandons

LEMMA RowAlways == Spec => [](Typed /\ RowCounts)
BY TypedAlways, InitRow, NextRow, PTL DEF Spec

-----------------------------------------------------------------------------
\* The strengthening of ResponsesBounded and TokensBounded: what is charged
\* and what the turns in flight may still charge. A turn is admitted only
\* when one unit is left, and at most Turns of them are in flight.
Promised ==
  /\ used + Cardinality(InFlight) <= MaxResponses + Cardinality(Turns) - 1
  /\ tokens + Cardinality(InFlight) * MaxCost
       <= MaxTokens + Cardinality(Turns) * MaxCost - 1

LEMMA FlightCounts ==
  /\ IsFiniteSet(InFlight) /\ Cardinality(InFlight) \in Nat
  /\ IsFiniteSet(InFlight') /\ Cardinality(InFlight') \in Nat
  /\ Cardinality(InFlight) <= Cardinality(Turns)
  /\ Cardinality(InFlight') <= Cardinality(Turns)
  /\ Cardinality(Turns) \in Nat \ {0}
<1>1. InFlight \subseteq Turns /\ InFlight' \subseteq Turns
  BY DEF InFlight
<1>2. /\ IsFiniteSet(InFlight) /\ Cardinality(InFlight) <= Cardinality(Turns)
      /\ IsFiniteSet(InFlight') /\ Cardinality(InFlight') <= Cardinality(Turns)
  BY <1>1, TurnsFinite, FS_Subset
<1>3. Cardinality(Turns) # 0
  BY TurnsFinite, FS_EmptySet
<1> QED BY <1>2, <1>3, TurnsFinite, FS_CardinalityType

LEMMA FlightGrows ==
  ASSUME NEW t \in Turns, Admits(t)
  PROVE  Cardinality(InFlight') = Cardinality(InFlight) + 1
BY FlightCounts, FS_AddElement DEF Admits

LEMMA FlightShrinks ==
  ASSUME NEW t \in Turns, Charges(t) \/ Abandons(t)
  PROVE  Cardinality(InFlight') = Cardinality(InFlight) - 1
BY FlightCounts, FS_RemoveElement DEF Charges, Abandons

\* One completion is the cost of one more, or of one fewer, turn in flight.
LEMMA OneMore ==
  ASSUME NEW n \in Nat
  PROVE  (n + 1) * MaxCost = n * MaxCost + MaxCost /\ n * MaxCost \in Nat
BY CostBound

LEMMA Times ==
  ASSUME NEW n \in Nat, NEW m \in Nat, n <= m
  PROVE  n * MaxCost <= m * MaxCost
BY CostBound

LEMMA InitPromised == Init => Promised
<1> SUFFICES ASSUME Init PROVE Promised
  OBVIOUS
<1>1. InFlight = {} /\ used = 0 /\ tokens = 0
  BY DEF Init, InFlight, Admitted
<1>2. Cardinality(InFlight) = 0
  BY <1>1, FS_EmptySet
<1>3. Cardinality(Turns) * MaxCost \in Nat /\ 0 * MaxCost = 0
  BY FlightCounts, CostBound
<1> QED BY <1>1, <1>2, <1>3, FlightCounts, PlanLimits DEF Promised

LEMMA NextPromised ==
  Typed /\ RowCounts /\ Promised /\ [Next]_vars => Promised'
<1> SUFFICES ASSUME Typed, RowCounts, Promised, [Next]_vars PROVE Promised'
  OBVIOUS
<1> DEFINE c == Cardinality(InFlight)
           d == Cardinality(InFlight')
           n == Cardinality(Turns)
<1>0. /\ c \in Nat /\ d \in Nat /\ n \in Nat \ {0} /\ d <= n
      /\ used \in Nat /\ tokens \in Nat
      /\ MaxResponses \in Nat /\ MaxTokens \in Nat /\ MaxCost \in Nat
  BY FlightCounts, PlanLimits, CostBound DEF Typed, TypeOK
<1>1. /\ used + c <= MaxResponses + n - 1
      /\ tokens + c * MaxCost <= MaxTokens + n * MaxCost - 1
  BY DEF Promised
<1>2. /\ c * MaxCost \in Nat /\ d * MaxCost \in Nat /\ n * MaxCost \in Nat
      /\ (d + 1) * MaxCost = d * MaxCost + MaxCost
  BY <1>0, OneMore
<1>3. d * MaxCost <= n * MaxCost
  BY <1>0, Times
<1> SUFFICES /\ used' + d <= MaxResponses + n - 1
             /\ tokens' + d * MaxCost <= MaxTokens + n * MaxCost - 1
  BY DEF Promised
<1>4. CASE LeavesMeter
  BY <1>1, <1>4 DEF LeavesMeter
<1>5. ASSUME NEW t \in Turns, Admits(t) PROVE /\ used' + d <= MaxResponses + n - 1
             /\ tokens' + d * MaxCost <= MaxTokens + n * MaxCost - 1
  <2>1. used' = used /\ tokens' = tokens /\ used < MaxResponses /\ tokens < MaxTokens
    BY <1>5 DEF Admits
  <2> HIDE DEF c, d, n
  <2> QED BY <1>0, <1>2, <1>3, <2>1
<1>6. ASSUME NEW t \in Turns, Charges(t) PROVE /\ used' + d <= MaxResponses + n - 1
             /\ tokens' + d * MaxCost <= MaxTokens + n * MaxCost - 1
  <2>1. c = d + 1
    BY <1>6, <1>0, FlightShrinks
  <2>2. used' = used + 1 /\ \E k \in 0 .. MaxCost : tokens' = tokens + k
    BY <1>6 DEF Charges
  <2> HIDE DEF c, d, n
  <2>3. tokens + d * MaxCost + MaxCost <= MaxTokens + n * MaxCost - 1
    BY <1>0, <1>1, <1>2, <2>1
  <2> QED BY <1>0, <1>1, <1>2, <2>1, <2>2, <2>3
<1>7. ASSUME NEW t \in Turns, Abandons(t) PROVE /\ used' + d <= MaxResponses + n - 1
             /\ tokens' + d * MaxCost <= MaxTokens + n * MaxCost - 1
  <2>1. c = d + 1
    BY <1>7, <1>0, FlightShrinks
  <2>2. used' = used /\ tokens' = tokens
    BY <1>7 DEF Abandons
  <2> HIDE DEF c, d, n
  <2>3. tokens + d * MaxCost + MaxCost <= MaxTokens + n * MaxCost - 1
    BY <1>0, <1>1, <1>2, <2>1
  <2> QED BY <1>0, <1>1, <1>2, <2>1, <2>2, <2>3
<1> QED BY MeterStep, <1>4, <1>5, <1>6, <1>7

LEMMA PromisedAlways == Spec => [](Typed /\ Promised)
BY RowAlways, InitPromised, NextPromised, PTL DEF Spec

LEMMA PromisedBounds ==
  Typed /\ Promised => ResponsesBounded /\ TokensBounded
<1> SUFFICES ASSUME Typed, Promised PROVE ResponsesBounded /\ TokensBounded
  OBVIOUS
<1>1. /\ Cardinality(InFlight) \in Nat /\ Cardinality(Turns) \in Nat
      /\ used \in Nat /\ tokens \in Nat
      /\ Cardinality(InFlight) * MaxCost \in Nat
      /\ Cardinality(Turns) * MaxCost \in Nat
  BY FlightCounts, CostBound DEF Typed, TypeOK
<1> QED BY <1>1, PlanLimits DEF Promised, ResponsesBounded, TokensBounded

\* check_ai_quota reads what record_ai_response will only write a whole LLM
\* call later, so concurrent turns overrun the plan's responses; never by as
\* many as there are turns in flight at once.
THEOREM ResponsesSafe == Spec => []ResponsesBounded
BY PromisedAlways, PromisedBounds, PTL

\* Likewise the plan's tokens are overrun by less than one full completion
\* for every turn in flight at once.
THEOREM TokensSafe == Spec => []TokensBounded
BY PromisedAlways, PromisedBounds, PTL

\* Seen through the response counter and the number of turns in flight, the
\* pipeline is a meter that checks at admission and charges at the end.
THEOREM ImplementsMeter == Spec => MeterSpec
<1>1. Init => Meter!Init
  <2> SUFFICES ASSUME Init PROVE Meter!Init
    OBVIOUS
  <2>1. InFlight = {} /\ used = 0
    BY DEF Init, InFlight, Admitted
  <2> QED BY <2>1, FS_EmptySet DEF Meter!Init
<1>2. Typed /\ RowCounts /\ [Next]_vars
        => [Meter!Next]_<<used, Cardinality(InFlight)>>
  <2> SUFFICES ASSUME Typed, RowCounts, [Next]_vars
               PROVE  [Meter!Next]_<<used, Cardinality(InFlight)>>
    OBVIOUS
  <2>1. CASE LeavesMeter
    BY <2>1 DEF LeavesMeter
  <2>2. ASSUME NEW t \in Turns, Admits(t) PROVE Meter!Admit
    <3>1. Cardinality(InFlight') = Cardinality(InFlight) + 1
      BY <2>2, FlightGrows
    <3> QED BY <2>2, <3>1, FlightCounts DEF Admits, Meter!Admit
  <2>3. ASSUME NEW t \in Turns, Charges(t) PROVE Meter!Charge
    <3>1. Cardinality(InFlight') = Cardinality(InFlight) - 1
      BY <2>3, FlightShrinks
    <3> QED BY <2>3, <3>1, FlightCounts DEF Charges, Meter!Charge
  <2>4. ASSUME NEW t \in Turns, Abandons(t) PROVE Meter!Abandon
    <3>1. Cardinality(InFlight') = Cardinality(InFlight) - 1
      BY <2>4, FlightShrinks
    <3> QED BY <2>4, <3>1, FlightCounts DEF Abandons, Meter!Abandon
  <2> QED BY MeterStep, <2>1, <2>2, <2>3, <2>4 DEF Meter!Next
<1> QED BY RowAlways, <1>1, <1>2, PTL DEF Spec, MeterSpec, Meter!Spec

\* What LateMeter says is enough to bound the overrun of the plan's responses: nothing
\* but its check at admission and its charge at the end is needed.
THEOREM MeterSuffices == MeterSpec => []ResponsesBounded
<1> DEFINE c == Cardinality(InFlight)
           n == Cardinality(Turns)
           Room == used \in Nat /\ used + c <= MaxResponses + n - 1
<1>0. c \in Nat /\ c' \in Nat /\ n \in Nat \ {0} /\ MaxResponses \in Nat
  BY FlightCounts, PlanLimits
<1>1. Meter!Init => Room
  BY <1>0, PlanLimits DEF Meter!Init
<1>2. Room /\ [Meter!Next]_<<used, c>> => Room'
  <2> SUFFICES ASSUME Room, [Meter!Next]_<<used, c>> PROVE Room'
    OBVIOUS
  <2>1. n' = n
    OBVIOUS
  <2>2. \/ UNCHANGED <<used, c>>
        \/ used < MaxResponses /\ c < n /\ c' = c + 1 /\ used' = used
        \/ c' = c - 1 /\ (used' = used + 1 \/ used' = used)
    BY DEF Meter!Next, Meter!Admit, Meter!Charge, Meter!Abandon
  <2> HIDE DEF c, n
  <2> QED BY <1>0, <2>1, <2>2
<1>3. Room => ResponsesBounded
  <2> HIDE DEF c
  <2> QED BY <1>0 DEF ResponsesBounded
<1> HIDE DEF Room
<1> QED BY <1>1, <1>2, <1>3, PTL DEF MeterSpec, Meter!Spec

-----------------------------------------------------------------------------
\* Turns whose answer is committed and not yet counted.
Recording == {t \in Turns : pc[t] = "record"}

LEMMA RecordingCounts ==
  /\ IsFiniteSet(Recording) /\ Cardinality(Recording) \in Nat
  /\ IsFiniteSet(Recording') /\ Cardinality(Recording') \in Nat
<1>1. Recording \subseteq Turns /\ Recording' \subseteq Turns
  BY DEF Recording
<1>2. IsFiniteSet(Recording) /\ IsFiniteSet(Recording')
  BY <1>1, TurnsFinite, FS_Subset
<1> QED BY <1>2, FS_CardinalityType

\* A turn that neither replies nor records leaves Recording and the counts.
LEMMA Uncounted ==
  ASSUME AnswersAreCounted, Recording' = Recording, UNCHANGED <<answers, used, lost>>
  PROVE  AnswersAreCounted'
BY DEF AnswersAreCounted, Recording

LEMMA NextCounted ==
  Typed /\ AnswersAreCounted /\ [Next]_vars => AnswersAreCounted'
<1> SUFFICES ASSUME Typed, AnswersAreCounted, [Next]_vars PROVE AnswersAreCounted'
  OBVIOUS
<1> USE DEF turnVars, usageVars, textVars, ticketVars, mailVars
<1>0. /\ pc \in [Turns -> Stops]
      /\ answers \in Nat /\ used \in Nat /\ lost \in Nat
      /\ answers = used + lost + Cardinality(Recording)
  BY DEF Typed, TypeOK, AnswersAreCounted, Recording
<1>1. ASSUME NEW t \in Turns, Reply(t) PROVE AnswersAreCounted'
  <2>1. t \notin Recording /\ Recording' = Recording \cup {t}
    BY <1>0, <1>1 DEF Reply, GoTo, Recording
  <2>2. Cardinality(Recording') = Cardinality(Recording) + 1
    BY <2>1, RecordingCounts, FS_AddElement
  <2>3. answers' = answers + 1 /\ used' = used /\ lost' = lost
    BY <1>1 DEF Reply
  <2> QED BY <1>0, <2>2, <2>3, RecordingCounts DEF AnswersAreCounted, Recording
<1>2. ASSUME NEW t \in Turns, pc[t] = "record", Record(t) \/ Abort(t) PROVE AnswersAreCounted'
  <2>1. t \in Recording /\ Recording' = Recording \ {t}
    BY <1>0, <1>2 DEF Record, Abort, Finish, GoTo, Recording
  <2>2. Cardinality(Recording') = Cardinality(Recording) - 1
    BY <2>1, RecordingCounts, FS_RemoveElement
  <2>3. /\ answers' = answers
        /\ \/ used' = used + 1 /\ lost' = lost
           \/ used' = used /\ lost' = lost + 1
    BY <1>2 DEF Record, Abort
  <2>4. answers' = used' + lost' + Cardinality(Recording')
    BY <1>0, <2>2, <2>3, RecordingCounts
  <2> QED BY <2>4 DEF AnswersAreCounted, Recording
<1>3. ASSUME NEW t \in Turns, pc[t] # "record", Abort(t) PROVE AnswersAreCounted'
  <2>1. Recording' = Recording
    BY <1>0, <1>3 DEF Abort, Finish, GoTo, Recording
  <2>2. lost' = lost
    BY <1>0, <1>3 DEF Abort
  <2> QED BY <1>3, <2>1, <2>2, Uncounted DEF Abort
<1>4. ASSUME NEW t \in Turns, Begin(t) \/ Ask(t) \/ CheckQuota(t) \/ CreateUsage(t) \/ Title(t)
      PROVE  AnswersAreCounted'
  <2>1. Recording' = Recording
    BY <1>0, <1>4 DEF Begin, Ask, CheckQuota, CreateUsage, Title, Finish, GoTo, Recording
  <2> QED BY <1>4, <2>1, Uncounted DEF Begin, Ask, CheckQuota, CreateUsage, Title
<1>5. ASSUME NEW t \in Turns, Decide(t) \/ LookUpTicket(t) \/ InsertTicket(t) \/ Generate(t)
      PROVE  AnswersAreCounted'
  <2>1. Recording' = Recording
    BY <1>0, <1>5 DEF Decide, LookUpTicket, InsertTicket, Generate, Finish, GoTo, Recording
  <2> QED BY <1>5, <2>1, Uncounted DEF Decide, LookUpTicket, InsertTicket, Generate
<1>6. ASSUME NEW t \in Turns, QueueMail(t) \/ Announce(t) \/ CommitTicket(t)
      PROVE  AnswersAreCounted'
  <2>1. Recording' = Recording
    BY <1>0, <1>6 DEF QueueMail, Announce, CommitTicket, Finish, GoTo, Recording
  <2> QED BY <1>6, <2>1, Uncounted DEF QueueMail, Announce, CommitTicket
<1>7. ASSUME \/ \E k \in Tickets : SendMail(k)
             \/ \E row \in open : DeleteTicket(row)
             \/ UNCHANGED vars
      PROVE  AnswersAreCounted'
  <2>1. Recording' = Recording /\ UNCHANGED <<answers, used, lost>>
    BY <1>7 DEF SendMail, DeleteTicket, vars, Recording
  <2> QED BY <2>1, Uncounted
<1>8. \A t \in Turns : Record(t) => pc[t] = "record"
  BY DEF Record
<1> QED BY <1>1, <1>2, <1>3, <1>4, <1>5, <1>6, <1>7, <1>8 DEF Next, Step

\* Every ASSISTANT message that was committed has been charged, is about to
\* be, or belongs to a turn that stopped between the commit of the message
\* and the commit of record_ai_response: nothing is charged twice or forgiven.
THEOREM AnswersCounted == Spec => []AnswersAreCounted
<1>1. Init => AnswersAreCounted
  <2> SUFFICES ASSUME Init PROVE AnswersAreCounted
    OBVIOUS
  <2>1. {t \in Turns : pc[t] = "record"} = {} /\ answers = 0 /\ used = 0 /\ lost = 0
    BY DEF Init
  <2> QED BY <2>1, FS_EmptySet DEF AnswersAreCounted
<1> QED BY TypedAlways, <1>1, NextCounted, PTL DEF Spec

-----------------------------------------------------------------------------
\* The strengthening of the ticket properties. An open transaction that
\* inserted a ticket holds its conversation alone, with no committed ticket
\* beside it; it commits only what it announced; and a turn about to hand off
\* has a committed ticket behind it.
TicketShape ==
  /\ OneTicketPerConversation
  /\ TicketsAreAnnounced
  /\ HandoffIsBacked
  /\ open \subseteq committed
  /\ \A t \in Turns : job[t].draft # None =>
       /\ \A u \in Turns : job[u].draft # None /\ job[u].conv = job[t].conv => u = t
       /\ \A row \in open : row.conv # job[t].conv
  /\ \A t \in Turns : pc[t] = "commit" => job[t].draft \in announced
  /\ \A t \in Turns : pc[t] = "generate" => job[t].verdict = "ANSWER"
  /\ \A t \in Turns : pc[t] = "reply" /\ job[t].verdict # "ANSWER" =>
       \E row \in committed : row.conv = job[t].conv

LEMMA InitTickets == Init => TicketShape
<1> SUFFICES ASSUME Init PROVE TicketShape
  OBVIOUS
<1>1. \A t \in Turns : job[t] = NoJob /\ NoJob.draft = None /\ pc[t] = "idle"
  BY DEF Init, NoJob
<1>2. open = {} /\ committed = {} /\ told = {}
  BY DEF Init
<1> QED BY <1>1, <1>2 DEF TicketShape, OneTicketPerConversation, TicketsAreAnnounced,
           HandoffIsBacked

\* A turn that ends, or moves on without a draft, disturbs no ticket.
LEMMA TurnMoves ==
  ASSUME Typed, TicketShape, NEW t \in Turns,
         \A q \in Turns \ {t} : job'[q] = job[q] /\ pc'[q] = pc[q],
         job'[t].draft = None,
         pc'[t] \notin {"commit", "generate", "reply"},
         UNCHANGED <<told, open, committed>>, announced \subseteq announced'
  PROVE  TicketShape'
BY DEF TicketShape, OneTicketPerConversation, TicketsAreAnnounced, HandoffIsBacked

LEMMA FinishMoves ==
  ASSUME Typed, NEW t \in Turns, Finish(t)
  PROVE  /\ \A q \in Turns \ {t} : job'[q] = job[q] /\ pc'[q] = pc[q]
         /\ job'[t].draft = None /\ pc'[t] = "idle"
BY DEF Typed, TypeOK, Finish, GoTo, NoJob

LEMMA NextTickets == Typed /\ TicketShape /\ [Next]_vars => TicketShape'
<1> SUFFICES ASSUME Typed, TicketShape, [Next]_vars PROVE TicketShape'
  OBVIOUS
<1> USE DEF turnVars, usageVars, textVars, ticketVars, mailVars
<1>0. /\ pc \in [Turns -> Stops] /\ job \in [Turns -> Jobs \cup {NoJob}]
      /\ \A t \in Turns :
           /\ pc[t] \in {"mail", "announce", "commit"} => job[t].draft \in Tickets
           /\ pc[t] \notin {"mail", "announce", "commit"} => job[t].draft = None
           /\ pc[t] # "idle" => job[t] \in Jobs
  BY DEF Typed, TypeOK, TurnShape
<1>1. ASSUME NEW t \in Turns, Begin(t) PROVE TicketShape'
  <2>1. job'[t].draft = None /\ pc'[t] \in {"lookup", "ask"}
        /\ \A q \in Turns \ {t} : job'[q] = job[q] /\ pc'[q] = pc[q]
    BY <1>0, <1>1 DEF Begin, GoTo
  <2> QED BY <1>1, <2>1, TurnMoves DEF Begin
<1>2. ASSUME NEW t \in Turns, Finish(t), UNCHANGED <<told, open, committed, announced>>
      PROVE  TicketShape'
  BY <1>2, FinishMoves, TurnMoves
<1>3. ASSUME NEW t \in Turns, GoTo(t, "quota") \/ GoTo(t, "meter") \/ GoTo(t, "decide")
                 \/ GoTo(t, "insert") \/ GoTo(t, "title") \/ GoTo(t, "record"),
             pc[t] \notin {"mail", "announce", "commit"},
             UNCHANGED <<job, told, open, committed, announced>>
      PROVE  TicketShape'
  <2>1. job'[t].draft = None /\ pc'[t] \notin {"commit", "generate", "reply"}
        /\ \A q \in Turns \ {t} : job'[q] = job[q] /\ pc'[q] = pc[q]
    BY <1>0, <1>3 DEF GoTo
  <2> QED BY <1>3, <2>1, TurnMoves
<1>4. ASSUME NEW t \in Turns, Ask(t) \/ CheckQuota(t) \/ CreateUsage(t) PROVE TicketShape'
  BY <1>2, <1>3, <1>4 DEF Ask, CheckQuota, CreateUsage
<1>5. ASSUME NEW t \in Turns, Decide(t) PROVE TicketShape'
  <2>1. PICK v \in Decisions :
          /\ job' = [job EXCEPT ![t].verdict = v]
          /\ pc' = [pc EXCEPT ![t] = IF v = "ANSWER" THEN "generate" ELSE "lookup"]
    BY <1>5, VerdictsKnown DEF Decide, GoTo
  <2>2. job[t] \in Jobs /\ job[t].draft = None /\ UNCHANGED <<told, open, committed, announced>>
    BY <1>0, <1>5 DEF Decide
  <2>3. /\ job'[t].draft = None /\ pc'[t] \in {"generate", "lookup"}
        /\ pc'[t] = "generate" => job'[t].verdict = "ANSWER"
        /\ \A q \in Turns \ {t} : job'[q] = job[q] /\ pc'[q] = pc[q]
    BY <1>0, <2>1, <2>2 DEF Jobs
  <2> QED BY <2>2, <2>3 DEF TicketShape, OneTicketPerConversation, TicketsAreAnnounced,
             HandoffIsBacked
<1>6. ASSUME NEW t \in Turns, LookUpTicket(t) PROVE TicketShape'
  <2>1. CASE TicketOf(job[t].conv) # {} /\ job[t].mode # "manual"
    <3>1. GoTo(t, "reply") /\ UNCHANGED <<job, told, open, committed, announced>>
      BY <1>6, <2>1 DEF LookUpTicket
    <3>2. \E row \in committed : row.conv = job[t].conv
      BY <2>1 DEF TicketShape, TicketOf
    <3> QED BY <1>0, <3>1, <3>2 DEF GoTo, TicketShape, OneTicketPerConversation,
               TicketsAreAnnounced, HandoffIsBacked
  <2>2. CASE ~(TicketOf(job[t].conv) # {} /\ job[t].mode # "manual")
    BY <1>2, <1>3, <1>6, <2>2 DEF LookUpTicket
  <2> QED BY <2>1, <2>2
<1>7. ASSUME NEW t \in Turns, InsertTicket(t) PROVE TicketShape'
  <2>1. CASE TicketOf(job[t].conv) # {}
    BY <1>2, <1>7, <2>1 DEF InsertTicket
  <2>2. CASE TicketOf(job[t].conv) = {}
    <3>1. PICK k \in Tickets :
            /\ job' = [job EXCEPT ![t].draft = k]
            /\ pc' = [pc EXCEPT ![t] = IF job[t].verdict = "URGENT" THEN "mail" ELSE "announce"]
      BY <1>7, <2>2 DEF InsertTicket, GoTo
    <3>2. /\ job[t] \in Jobs /\ UNCHANGED <<told, open, committed, announced>>
          /\ \A q \in Turns : job[q].draft # None => job[q].conv # job[t].conv
          /\ \A row \in open : row.conv # job[t].conv
      BY <1>0, <1>7, <2>2 DEF InsertTicket, Holders, TicketOf
    <3>3. /\ job'[t].conv = job[t].conv /\ pc'[t] \in {"mail", "announce"}
          /\ \A q \in Turns \ {t} : job'[q] = job[q] /\ pc'[q] = pc[q]
      BY <1>0, <3>1, <3>2 DEF Jobs
    <3> QED BY <3>2, <3>3 DEF TicketShape, OneTicketPerConversation,
               TicketsAreAnnounced, HandoffIsBacked
  <2> QED BY <2>1, <2>2
<1>8. ASSUME NEW t \in Turns, QueueMail(t) PROVE TicketShape'
  BY <1>0, <1>8 DEF QueueMail, GoTo, TicketShape, OneTicketPerConversation,
     TicketsAreAnnounced, HandoffIsBacked
<1>9. ASSUME NEW t \in Turns, Announce(t) PROVE TicketShape'
  BY <1>0, <1>9 DEF Announce, GoTo, TicketShape, OneTicketPerConversation,
     TicketsAreAnnounced, HandoffIsBacked
<1>10. ASSUME NEW t \in Turns, CommitTicket(t) PROVE TicketShape'
  <2> DEFINE row == [id |-> job[t].draft, conv |-> job[t].conv,
                     urgent |-> job[t].verdict = "URGENT"]
  <2>1. /\ job[t] \in Jobs /\ pc[t] = "commit" /\ job[t].draft # None
        /\ open' = open \cup {row} /\ committed' = committed \cup {row}
        /\ UNCHANGED <<told, announced>>
    BY <1>0, <1>10, NoTicketIsNone DEF CommitTicket
  <2>2. row.conv = job[t].conv /\ row.id = job[t].draft
    OBVIOUS
  <2> HIDE DEF row
  <2>3. /\ job'[t].draft = None /\ pc'[t] \in {"idle", "reply"}
        /\ pc'[t] = "reply" => job'[t].conv = job[t].conv
        /\ \A q \in Turns \ {t} : job'[q] = job[q] /\ pc'[q] = pc[q]
    <3>1. CASE job[t].mode = "manual"
      BY <1>10, <3>1, FinishMoves DEF CommitTicket
    <3>2. CASE job[t].mode # "manual"
      BY <1>0, <1>10, <2>1, <3>2 DEF CommitTicket, GoTo, Jobs
    <3> QED BY <3>1, <3>2
  <2>4. OneTicketPerConversation'
    BY <2>1, <2>2 DEF TicketShape, OneTicketPerConversation
  <2>5. TicketsAreAnnounced' /\ HandoffIsBacked' /\ open' \subseteq committed'
    BY <2>1, <2>2 DEF TicketShape, TicketsAreAnnounced, HandoffIsBacked
  <2>6. \A q \in Turns : job'[q].draft # None =>
          /\ \A u \in Turns : job'[u].draft # None /\ job'[u].conv = job'[q].conv => u = q
          /\ \A r \in open' : r.conv # job'[q].conv
    BY <2>1, <2>2, <2>3 DEF TicketShape
  <2>7. \A q \in Turns : pc'[q] = "reply" /\ job'[q].verdict # "ANSWER" =>
          \E r \in committed' : r.conv = job'[q].conv
    BY <2>1, <2>2, <2>3 DEF TicketShape
  <2>8. \A q \in Turns :
          /\ pc'[q] = "commit" => job'[q].draft \in announced'
          /\ pc'[q] = "generate" => job'[q].verdict = "ANSWER"
    BY <2>1, <2>3 DEF TicketShape
  <2> QED BY <2>4, <2>5, <2>6, <2>7, <2>8 DEF TicketShape
<1>11. ASSUME NEW t \in Turns, Generate(t) PROVE TicketShape'
  <2>1. PICK n \in 0 .. MaxCost : job' = [job EXCEPT ![t].cost = n]
    BY <1>11 DEF Generate
  <2>2. /\ job[t] \in Jobs /\ job[t].draft = None /\ job[t].verdict = "ANSWER"
        /\ UNCHANGED <<told, open, committed, announced>>
    BY <1>0, <1>11 DEF Generate, TicketShape
  <2>3. /\ job'[t].draft = None /\ pc'[t] = "reply" /\ job'[t].verdict = "ANSWER"
        /\ \A q \in Turns \ {t} : job'[q] = job[q] /\ pc'[q] = pc[q]
    BY <1>0, <1>11, <2>1, <2>2 DEF Generate, GoTo, Jobs
  <2> QED BY <2>2, <2>3 DEF TicketShape, OneTicketPerConversation, TicketsAreAnnounced,
             HandoffIsBacked
<1>12. ASSUME NEW t \in Turns, Reply(t) PROVE TicketShape'
  BY <1>0, <1>12 DEF Reply, GoTo, TicketShape, OneTicketPerConversation,
     TicketsAreAnnounced, HandoffIsBacked
<1>13. ASSUME NEW t \in Turns, Record(t) \/ Title(t) \/ Abort(t) PROVE TicketShape'
  BY <1>2, <1>3, <1>13 DEF Record, Title, Abort
<1>14. ASSUME NEW k \in Tickets, SendMail(k) PROVE TicketShape'
  BY <1>14 DEF SendMail, TicketShape, OneTicketPerConversation, TicketsAreAnnounced,
     HandoffIsBacked
<1>15. ASSUME NEW row \in open, DeleteTicket(row) PROVE TicketShape'
  BY <1>15 DEF DeleteTicket, TicketShape, OneTicketPerConversation, TicketsAreAnnounced,
     HandoffIsBacked
<1>16. CASE UNCHANGED vars
  BY <1>16 DEF vars, TicketShape, OneTicketPerConversation, TicketsAreAnnounced,
     HandoffIsBacked
<1> QED
  BY <1>1, <1>4, <1>5, <1>6, <1>7, <1>8, <1>9, <1>10, <1>11, <1>12, <1>13, <1>14,
     <1>15, <1>16 DEF Next, Step

LEMMA TicketsAlways == Spec => []TicketShape
BY TypedAlways, InitTickets, NextTickets, PTL DEF Spec

\* Concurrent escalations and agents leave a conversation with one ticket: the
\* look-up of create_ticket is only a courtesy, the unique index decides.
THEOREM OneTicket == Spec => []OneTicketPerConversation
<1>1. TicketShape => OneTicketPerConversation BY DEF TicketShape
<1> QED BY TicketsAlways, <1>1, PTL

\* The handoff text is stored only where a ticket was committed, although
\* EscalationService ignores whether it created the ticket or met another's.
THEOREM HandoffBacked == Spec => []HandoffIsBacked
<1>1. TicketShape => HandoffIsBacked BY DEF TicketShape
<1> QED BY TicketsAlways, <1>1, PTL

\* Firing TICKET_CREATED before the commit loses no event of a committed ticket.
THEOREM TicketsAnnounced == Spec => []TicketsAreAnnounced
<1>1. TicketShape => TicketsAreAnnounced BY DEF TicketShape
<1> QED BY TicketsAlways, <1>1, PTL

=============================================================================
