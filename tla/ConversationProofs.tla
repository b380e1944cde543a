------------------------- MODULE ConversationProofs -------------------------
(***************************************************************************)
(* Proofs about the two ends of a conversation.  ConversationMemory: for   *)
(* every number of turns and workers, every batch and every number of      *)
(* retries.  Widget: for every number of conversations, messages and       *)
(* polls.                                                                  *)
(***************************************************************************)
EXTENDS ConversationMemory, Widget, FiniteSetTheorems, WellFoundedInduction, TLAPS

-----------------------------------------------------------------------------
(* The memory of a conversation.                                           *)

LEMMA InitTyped == Init => TypeOK
<1> SUFFICES ASSUME Init PROVE TypeOK
  OBVIOUS
<1>1. busy \in [Workers -> 0 .. Attempts]
  BY SomeAttempts DEF Init
<1>2. picked \in [Workers -> SUBSET Messages] /\ log \subseteq Messages
  BY DEF Init
<1>3. queue \in [1 .. Attempts -> Nat]
  BY DEF Init
<1> QED BY <1>1, <1>2, <1>3 DEF Init, TypeOK, TurnStops

LEMMA SayTyped ==
  ASSUME TypeOK, NEW at \in Nat, Say(at)
  PROVE  log' \subseteq Messages /\ said' \subseteq Nat
<1>1. [at |-> at, covers |-> {at}] \in Messages
  BY DEF Messages
<1> QED BY <1>1 DEF Say, TypeOK

LEMMA ReleaseTyped ==
  ASSUME TypeOK, NEW w \in Workers, Release(w)
  PROVE  /\ busy' \in [Workers -> 0 .. Attempts]
         /\ opened' \in [Workers -> Nat]
         /\ picked' \in [Workers -> SUBSET Messages]
BY SomeAttempts DEF TypeOK, Release

LEMMA FailTyped ==
  ASSUME TypeOK, NEW w \in Workers, busy[w] > 0, FailTask(w), outages' \in Nat
  PROVE  TypeOK'
<1>1. queue' \in [1 .. Attempts -> Nat]
  <2>1. CASE busy[w] > 1
    <3>1. busy[w] - 1 \in 1 .. Attempts /\ queue' = [queue EXCEPT ![busy[w] - 1] = @ + 1]
      BY <2>1, SomeAttempts DEF TypeOK, FailTask
    <3> QED BY <3>1 DEF TypeOK
  <2>2. CASE ~(busy[w] > 1)
    BY <2>2 DEF TypeOK, FailTask
  <2> QED BY <2>1, <2>2
<1> QED BY <1>1, ReleaseTyped DEF TypeOK, FailTask, turnVars

LEMMA SummaryTyped ==
  ASSUME TypeOK, NEW w \in Workers
  PROVE  [at |-> opened[w], covers |-> Covered(picked[w])] \in Messages
<1>1. \A m \in picked[w] : m.covers \subseteq Nat
  BY DEF TypeOK, Messages
<1>2. Covered(picked[w]) \subseteq Nat
  BY <1>1 DEF Covered
<1> QED BY <1>2 DEF TypeOK, Messages

LEMMA NextTyped == TypeOK /\ [Next]_vars => TypeOK'
<1> SUFFICES ASSUME TypeOK, [Next]_vars PROVE TypeOK'
  OBVIOUS
<1> USE DEF turnVars, taskVars
<1>1. ASSUME NEW t \in Turns, Open(t) PROVE TypeOK'
  BY <1>1 DEF Open, TypeOK, TurnStops
<1>2. ASSUME NEW t \in Turns, Ask(t) PROVE TypeOK'
  <2>1. log' \subseteq Messages /\ said' \subseteq Nat
    BY <1>2, SayTyped DEF Ask, TypeOK
  <2> QED BY <1>2, <2>1 DEF Ask, TypeOK, TurnStops
<1>3. ASSUME NEW t \in Turns, ReadHistory(t) PROVE TypeOK'
  BY <1>3, SomeAttempts DEF ReadHistory, TypeOK, TurnStops
<1>4. ASSUME NEW t \in Turns, Reply(t) PROVE TypeOK'
  <2>1. log' \subseteq Messages /\ said' \subseteq Nat
    BY <1>4, SayTyped DEF Reply, TypeOK
  <2> QED BY <1>4, <2>1 DEF Reply, TypeOK, TurnStops
<1>5. ASSUME NEW t \in Turns, AbortTurn(t) PROVE TypeOK'
  BY <1>5 DEF AbortTurn, TypeOK, TurnStops
<1>6. ASSUME NEW m \in log, Rate(m) PROVE TypeOK'
  BY <1>6 DEF Rate, TypeOK, Messages
<1>7. ASSUME NEW w \in Workers, Pick(w) PROVE TypeOK'
  <2>1. PICK n \in 1 .. Attempts :
          /\ queue[n] > 0
          /\ queue' = [queue EXCEPT ![n] = @ - 1]
          /\ IF Cardinality(Oldest(Batch)) < Batch
               THEN UNCHANGED <<clock, taskVars>>
               ELSE /\ clock'  = clock + 1
                    /\ opened' = [opened EXCEPT ![w] = clock']
                    /\ busy'   = [busy EXCEPT ![w] = n]
                    /\ picked' = [picked EXCEPT ![w] = Oldest(Batch)]
    BY <1>7, Zenon DEF Pick
  <2>2. queue' \in [1 .. Attempts -> Nat]
    <3>0. queue \in [1 .. Attempts -> Nat] /\ queue[n] \in Nat
      BY DEF TypeOK
    <3>1. queue[n] - 1 \in Nat
      BY <2>1, <3>0
    <3>2. queue' = [queue EXCEPT ![n] = queue[n] - 1]
      BY <2>1
    <3> QED BY <3>0, <3>1, <3>2
  <2>3. Oldest(Batch) \in SUBSET Messages
    BY DEF Oldest, TypeOK
  <2>4. clock' \in Nat /\ opened' \in [Workers -> Nat] /\ busy' \in [Workers -> 0 .. Attempts]
        /\ picked' \in [Workers -> SUBSET Messages]
    <3>1. CASE Cardinality(Oldest(Batch)) < Batch
      BY <2>1, <3>1 DEF TypeOK
    <3>2. CASE ~(Cardinality(Oldest(Batch)) < Batch)
      <4>1. clock' = clock + 1 /\ clock' \in Nat
        BY <2>1, <3>2 DEF TypeOK
      <4>2. opened' = [opened EXCEPT ![w] = clock']
        BY <2>1, <3>2
      <4>3. busy' = [busy EXCEPT ![w] = n] /\ n \in 0 .. Attempts
        BY <2>1, <3>2, SomeAttempts
      <4>4. picked' = [picked EXCEPT ![w] = Oldest(Batch)]
        BY <2>1, <3>2
      <4> QED BY <2>3, <4>1, <4>2, <4>3, <4>4 DEF TypeOK
    <3> QED BY <3>1, <3>2
  <2> QED BY <1>7, <2>2, <2>4 DEF Pick, TypeOK
<1>8. ASSUME NEW w \in Workers, Replace(w) PROVE TypeOK'
  <2>1. log' \subseteq Messages
    BY <1>8, SummaryTyped DEF Replace, TypeOK
  <2> QED BY <1>8, <2>1, ReleaseTyped DEF Replace, TypeOK
<1>9. ASSUME NEW w \in Workers, RefuseDelete(w) PROVE TypeOK'
  BY <1>9, FailTyped DEF RefuseDelete, TypeOK
<1>10. ASSUME NEW w \in Workers, Outage(w) PROVE TypeOK'
  BY <1>10, FailTyped DEF Outage, TypeOK
<1>11. ASSUME NEW t \in Turns, Renew(t) PROVE TypeOK'
  BY <1>11 DEF Renew, TypeOK
<1>12. ASSUME NEW t \in Turns, AgentReply(t) PROVE TypeOK'
  <2>1. log' \subseteq Messages /\ said' \subseteq Nat
    BY <1>12, SayTyped DEF AgentReply, TypeOK
  <2> QED BY <1>12, <2>1 DEF AgentReply, TypeOK, TurnStops
<1>13. CASE UNCHANGED vars
  BY <1>13 DEF vars, TypeOK
<1> QED
  BY <1>1, <1>2, <1>3, <1>4, <1>5, <1>6, <1>7, <1>8, <1>9, <1>10, <1>11,
     <1>12, <1>13
     DEF Next, TurnStep, TaskStep

\* Every variable stays in its domain (the turns of chat_services.py and the
\* tasks of memory.py).
THEOREM TypeCorrect == Spec => []TypeOK
BY InitTyped, NextTyped, PTL DEF Spec

-----------------------------------------------------------------------------
\* What the rows a task has read cover was said: the summary it is about to
\* insert accounts for every row it is about to delete.
Remembered ==
  /\ NothingForgotten
  /\ \A w \in Workers : Covered(picked[w]) \subseteq said

LEMMA CoveredBy ==
  ASSUME NEW S, NEW x
  PROVE  x \in Covered(S) <=> \E m \in S : x \in m.covers
BY DEF Covered

LEMMA InitRemembered == Init => Remembered
<1> SUFFICES ASSUME Init PROVE Remembered
  OBVIOUS
<1>1. Covered({}) = {}
  BY DEF Covered
<1> QED BY <1>1 DEF Init, Remembered, NothingForgotten

\* An utterance adds itself to what is stored and to what was said.
LEMMA SayRemembers ==
  ASSUME Remembered, NEW at, Say(at), UNCHANGED picked
  PROVE  Remembered'
<1> DEFINE row == [at |-> at, covers |-> {at}]
<1>1. row.covers = {at} OBVIOUS
<1> HIDE DEF row
<1>2. log' = log \cup {row} /\ said' = said \cup {at}
  BY DEF Say, row
<1>3. \A x : x \in Covered(log') <=> x \in Covered(log) \/ x = at
  BY <1>1, <1>2, CoveredBy
<1>4. Covered(log') = said'
  BY <1>2, <1>3 DEF Remembered, NothingForgotten
<1> QED BY <1>2, <1>4 DEF Remembered, NothingForgotten

LEMMA NextRemembered == TypeOK /\ Remembered /\ [Next]_vars => Remembered'
<1> SUFFICES ASSUME TypeOK, Remembered, [Next]_vars PROVE Remembered'
  OBVIOUS
<1> USE DEF turnVars, taskVars
<1>0. picked \in [Workers -> SUBSET Messages] /\ Covered({}) = {}
  BY DEF TypeOK, Covered
<1>1. ASSUME NEW t \in Turns, Ask(t) PROVE Remembered'
  BY <1>1, SayRemembers DEF Ask
<1>2. ASSUME NEW t \in Turns, Reply(t) \/ AgentReply(t) PROVE Remembered'
  BY <1>2, SayRemembers DEF Reply, AgentReply
<1>3. ASSUME UNCHANGED <<log, said, picked>> PROVE Remembered'
  BY <1>3 DEF Remembered, NothingForgotten
<1>4. ASSUME NEW w \in Workers, Pick(w) PROVE Remembered'
  <2>1. \A x \in Covered(Oldest(Batch)) : x \in said
    <3>1. Oldest(Batch) \subseteq log
      BY DEF Oldest
    <3>2. Covered(log) = said
      BY DEF Remembered, NothingForgotten
    <3> SUFFICES ASSUME NEW x \in Covered(Oldest(Batch)) PROVE x \in said
      OBVIOUS
    <3>3. \E m \in Oldest(Batch) : x \in m.covers
      BY CoveredBy
    <3>4. \E m \in log : x \in m.covers
      BY <3>1, <3>3
    <3> QED BY <3>2, <3>4, CoveredBy
  <2>2. \A v \in Workers : picked'[v] = picked[v] \/ picked'[v] = Oldest(Batch)
    BY <1>0, <1>4 DEF Pick
  <2>3. log' = log /\ said' = said
    BY <1>4 DEF Pick
  <2>4. \A v \in Workers : Covered(picked'[v]) \subseteq said
    BY <2>1, <2>2 DEF Remembered
  <2> QED BY <2>3, <2>4 DEF Remembered, NothingForgotten
<1>5. ASSUME NEW w \in Workers, Release(w), UNCHANGED said
      PROVE  \A v \in Workers : Covered(picked'[v]) \subseteq said'
  <2>1. \A v \in Workers : picked'[v] = picked[v] \/ picked'[v] = {}
    BY <1>0, <1>5 DEF Release
  <2> QED BY <1>0, <1>5, <2>1 DEF Remembered
<1>6. ASSUME NEW w \in Workers, Replace(w) PROVE Remembered'
  <2> DEFINE row == [at |-> opened[w], covers |-> Covered(picked[w])]
  <2>1. row.covers = Covered(picked[w]) OBVIOUS
  <2> HIDE DEF row
  <2>2. log' = (log \ picked[w]) \cup {row} /\ said' = said
    BY <1>6 DEF Replace, row
  <2>3. ASSUME NEW x \in said PROVE x \in Covered(log')
    <3>1. PICK m \in log : x \in m.covers
      BY CoveredBy DEF Remembered, NothingForgotten
    <3>2. CASE m \in picked[w]
      \* The row is gone and the summary covers what it covered.
      BY <2>1, <2>2, <3>1, <3>2, CoveredBy
    <3>3. CASE m \notin picked[w]
      BY <2>2, <3>1, <3>3, CoveredBy
    <3> QED BY <3>2, <3>3
  <2>4. ASSUME NEW x \in Covered(log') PROVE x \in said
    <3>1. PICK m \in log' : x \in m.covers
      BY CoveredBy
    <3>2. CASE m = row
      BY <2>1, <3>1, <3>2 DEF Remembered
    <3>3. CASE m # row
      BY <2>2, <3>1, <3>3, CoveredBy DEF Remembered, NothingForgotten
    <3> QED BY <3>2, <3>3
  <2>5. Covered(log') = said'
    BY <2>2, <2>3, <2>4
  <2>6. \A v \in Workers : Covered(picked'[v]) \subseteq said'
    BY <1>5, <1>6 DEF Replace
  <2> QED BY <2>5, <2>6 DEF Remembered, NothingForgotten
<1>7. ASSUME NEW w \in Workers, RefuseDelete(w) \/ Outage(w) PROVE Remembered'
  <2>1. Release(w) /\ UNCHANGED <<log, said>>
    BY <1>7 DEF RefuseDelete, Outage, FailTask
  <2>2. \A v \in Workers : Covered(picked'[v]) \subseteq said'
    BY <1>5, <2>1
  <2> QED BY <2>1, <2>2 DEF Remembered, NothingForgotten
<1> QED
  BY <1>1, <1>2, <1>3, <1>4, <1>6, <1>7
     DEF Next, TurnStep, TaskStep, Open, Renew, ReadHistory, AbortTurn, Rate, vars

\* A compression deletes rows it read before an LLM call, while turns commit
\* messages that sort before them and other tasks compress the same rows; all
\* the same, every utterance remains stored or summarized.
THEOREM NothingIsForgotten == Spec => []NothingForgotten
<1>1. Remembered => NothingForgotten BY DEF Remembered
<1> QED BY TypeCorrect, InitRemembered, NextRemembered, <1>1, PTL DEF Spec

-----------------------------------------------------------------------------
\* The foreign key of message_feedbacks keeps every rated message in place.
THEOREM RatedRemain == Spec => []RatedMessagesRemain
<1>1. Init => RatedMessagesRemain
  BY DEF Init, RatedMessagesRemain
<1>2. RatedMessagesRemain /\ [Next]_vars => RatedMessagesRemain'
  <2> SUFFICES ASSUME RatedMessagesRemain, [Next]_vars PROVE RatedMessagesRemain'
    OBVIOUS
  <2> USE DEF RatedMessagesRemain
  <2>1. ASSUME NEW w \in Workers, Replace(w) PROVE RatedMessagesRemain'
    <3>1. \A m \in log : m.at \in rated => m \in log'
      BY <2>1 DEF Replace
    <3> QED BY <2>1, <3>1 DEF Replace
  <2>2. ASSUME NEW m \in log, Rate(m) PROVE RatedMessagesRemain'
    BY <2>2 DEF Rate
  <2>3. ASSUME NEW t \in Turns, Ask(t) \/ Reply(t) \/ AgentReply(t)
        PROVE  RatedMessagesRemain'
    BY <2>3 DEF Ask, Reply, AgentReply, Say, turnVars
  <2>4. ASSUME UNCHANGED <<log, rated>> PROVE RatedMessagesRemain'
    BY <2>4
  <2> QED
    BY <2>1, <2>2, <2>3, <2>4
       DEF Next, TurnStep, TaskStep, Open, Renew, ReadHistory, AbortTurn, Pick, RefuseDelete,
           Outage, FailTask, vars
<1> QED BY <1>1, <1>2, PTL DEF Spec

-----------------------------------------------------------------------------
(* The chat widget.                                                        *)

\* Unless two requests crossed, there is one poll or one stream at a time, and it
\* is about the conversation at hand; whatever crossed, a poll that was answered
\* 404 asked for a conversation that is gone for good.
OneRequestAtATime ==
  /\ made \in 0..MaxConvs /\ live \subseteq 1..made /\ convId \in 0..made /\ ids \in 0..MaxIds
  /\ stream \in Stream /\ stream.conv \in 0..made
  /\ stream.st \in {"meta", "saved", "answered"} => stream.conv # 0
  /\ \A s \in syncs : s.conv \in 1..made /\ (s.st = "gone" => s.conv \notin live)
  /\ ~crossed => /\ \A s, t \in syncs : s = t
                 /\ \A s \in syncs : s.conv = convId
                 /\ Streaming => syncs = {} /\ stream.conv = convId

\* As long as nothing was compressed: ids are fresh, an answered poll brings
\* messages that are still there, and the count leaves room for those of the turn
\* under way that were saved.
CountLeavesRoom ==
  /\ known \in Nat /\ unread \in Nat /\ open \in BOOLEAN
  /\ saved \in [Convs -> SUBSET (1..ids)]
  /\ Streaming => /\ stream.q \in 1..ids /\ stream.q + 1 <= ids
                  /\ stream.st \in {"asked", "meta"} => \A c \in Convs : stream.q \notin saved[c]
                  /\ stream.st # "answered" => \A c \in Convs : stream.q + 1 \notin saved[c]
  /\ \A s \in syncs : s.st = "ok" => s.got \subseteq saved[s.conv]
  /\ open => unread = 0
  /\ ~crossed => /\ convId = 0 => known = 0
                 /\ convId # 0 => unread <= known /\ known <= Cardinality(saved[convId])
                 /\ Streaming => unread = 0
                 /\ stream.st = "saved" => known + 1 <= Cardinality(saved[convId])
                 /\ stream.st = "answered" => known + 2 <= Cardinality(saved[convId])

WidgetIInv == OneRequestAtATime /\ (shrunk \/ CountLeavesRoom)

LEMMA WidgetInitInv == WidgetInit => WidgetIInv
<1> SUFFICES ASSUME WidgetInit PROVE WidgetIInv
  OBVIOUS
<1>1. Quiet \in Stream /\ Quiet.st = "none" /\ Quiet.conv = 0
  BY WidgetAssumption DEF Quiet, Stream
<1>2. OneRequestAtATime
  BY <1>1, WidgetAssumption DEF WidgetInit, OneRequestAtATime, Streaming
<1>3. CountLeavesRoom
  <2>1. saved \in [Convs -> SUBSET (1..ids)] /\ convId = 0 /\ stream.st = "none" /\ syncs = {}
        /\ known = 0 /\ unread = 0 /\ open = FALSE
    BY <1>1 DEF WidgetInit
  <2> QED BY <2>1 DEF CountLeavesRoom, Streaming
<1> QED BY <1>2, <1>3 DEF WidgetIInv

\* The record of a stream.
LEMMA StreamFields ==
  ASSUME OneRequestAtATime
  PROVE  /\ stream.st \in {"none", "asked", "meta", "saved", "answered"} /\ stream.q \in 0..MaxIds
         /\ \A st \in {"none", "asked", "meta", "saved", "answered"} :
              /\ [stream EXCEPT !.st = st] \in Stream /\ [stream EXCEPT !.st = st].st = st
              /\ [stream EXCEPT !.st = st].conv = stream.conv /\ [stream EXCEPT !.st = st].q = stream.q
         /\ \A r \in {"none", "in", "out"} :
              /\ [stream EXCEPT !.row = r] \in Stream /\ [stream EXCEPT !.row = r].st = stream.st
              /\ [stream EXCEPT !.row = r].conv = stream.conv /\ [stream EXCEPT !.row = r].q = stream.q
BY DEF OneRequestAtATime, Stream

LEMMA QuietFields ==
  Quiet \in Stream /\ Quiet.st = "none" /\ Quiet.conv = 0 /\ Quiet.q = 0
BY WidgetAssumption DEF Quiet, Stream

-----------------------------------------------------------------------------
LEMMA RequestsStepInv == OneRequestAtATime /\ [WidgetNext]_widgetVars => OneRequestAtATime'
<1> SUFFICES ASSUME OneRequestAtATime, [WidgetNext]_widgetVars PROVE OneRequestAtATime'
  OBVIOUS
<1>0. /\ made \in Nat /\ made <= MaxConvs /\ MaxConvs \in Nat /\ MaxIds \in Nat /\ ids \in Nat
  BY WidgetAssumption DEF OneRequestAtATime
<1> USE DEF OneRequestAtATime, Streaming, backend, window
<1>1. CASE Toggle \/ UNCHANGED widgetVars
  BY <1>1 DEF Toggle, widgetVars
<1>2. CASE SendMessage
  <2>1. /\ stream' \in Stream /\ stream'.st = "asked" /\ stream'.conv = convId /\ ids' \in 0..MaxIds
    BY <1>2, <1>0 DEF SendMessage, Stream
  <2> QED BY <1>2, <2>1 DEF SendMessage
<1>3. CASE Recover
  <2>1. /\ stream' \in Stream /\ stream'.st = stream.st /\ stream'.conv = 0
    <3>1. stream' = [stream EXCEPT !.conv = 0]
      BY <1>3 DEF Recover
    <3> QED BY <3>1, <1>0 DEF Stream
  <2> QED BY <1>3, <1>0, <2>1 DEF Recover
<1>4. CASE Meta
  <2>1. stream.st = "asked" /\ UNCHANGED <<ids, syncs, crossed>>
    BY <1>4 DEF Meta
  <2>2. convId' \in 1..made' /\ made' \in 0..MaxConvs /\ made <= made' /\ live' \subseteq 1..made'
        /\ \A s \in syncs : s.st = "gone" => s.conv \notin live'
    <3>1. CASE stream.conv \in live /\ UNCHANGED <<made, live>> /\ convId' = stream.conv
      BY <3>1, <1>0
    <3>2. CASE /\ stream.conv = 0 /\ made < MaxConvs
               /\ made' = made + 1 /\ live' = live \cup {made + 1} /\ convId' = made + 1
      <4>1. \A s \in syncs : s.conv # made + 1
        BY <1>0
      <4> QED BY <3>2, <4>1, <1>0
    <3> QED BY <1>4, <3>1, <3>2 DEF Meta
  <2>3. convId' \in 0..MaxConvs
    BY <2>2, <1>0
  <2>4. stream' \in Stream /\ stream'.st = "meta" /\ stream'.conv = convId'
    <3>1. stream' = [stream EXCEPT !.st = "meta", !.conv = convId']
      BY <1>4 DEF Meta
    <3> QED BY <3>1, <2>3 DEF Stream
  <2>5. \A s \in syncs' : s.conv \in 1..made'
    BY <2>1, <2>2, <1>0
  <2>6. ~crossed' => syncs' = {}
    BY <2>1
  <2> QED BY <2>1, <2>2, <2>4, <2>5, <2>6, <1>0
<1>5. CASE SaveQuestion \/ SaveAnswer
  <2>1. PICK st \in {"saved", "answered"} : stream' = [stream EXCEPT !.st = st] /\ stream.st \in {"meta", "saved"}
    BY <1>5 DEF SaveQuestion, SaveAnswer, Save
  <2>2. stream' \in Stream /\ stream'.st = st /\ stream'.conv = stream.conv
    BY <2>1, StreamFields
  <2>3. UNCHANGED <<made, live, ids, convId, syncs, crossed>>
    BY <1>5 DEF SaveQuestion, SaveAnswer, Save
  <2> QED BY <2>1, <2>2, <2>3
<1>6. CASE Token
  <2>1. stream' \in Stream /\ stream'.st = stream.st /\ stream'.conv = stream.conv
    BY <1>6, StreamFields DEF Token
  <2> QED BY <1>6, <2>1 DEF Token
<1>7. CASE Done \/ Break
  <2>1. stream' = Quiet /\ UNCHANGED <<made, live, ids, convId, syncs, crossed>>
    BY <1>7 DEF Done, Break
  <2> QED BY <2>1, QuietFields, <1>0
<1>8. CASE Poll
  <2> DEFINE new == [conv |-> convId, st |-> "asked", got |-> {}]
  <2>1. /\ convId # 0 /\ ~Streaming /\ syncs' = syncs \cup {new} /\ crossed' = (crossed \/ syncs # {})
        /\ UNCHANGED <<made, live, ids, convId, stream>>
    BY <1>8 DEF Poll
  <2>2. new.conv = convId /\ new.st = "asked"
    OBVIOUS
  <2> HIDE DEF new
  <2>3. ~crossed' => syncs' = {new}
    BY <2>1
  <2> QED BY <2>1, <2>2, <2>3, <1>0
<1>9. CASE Reload
  <2>1. /\ stream' = Quiet /\ syncs' = {} /\ UNCHANGED <<made, live, ids, convId>>
    BY <1>9 DEF Reload
  <2> QED BY <2>1, QuietFields, <1>0
<1>10. ASSUME NEW s \in syncs, ServeSync(s) PROVE OneRequestAtATime'
  <2> DEFINE t == IF s.conv \in live THEN [s EXCEPT !.st = "ok", !.got = saved[s.conv]]
                                     ELSE [s EXCEPT !.st = "gone"]
  <2>1. /\ syncs' = (syncs \ {s}) \cup {t} /\ UNCHANGED <<made, live, ids, convId, stream, crossed>> /\ s.st = "asked"
    BY <1>10 DEF ServeSync
  <2>2. t.conv = s.conv /\ (t.st = "gone" => s.conv \notin live)
    BY <2>1
  <2> HIDE DEF t
  <2>3. ~crossed => syncs' = {t}
    BY <2>1
  <2> QED BY <2>1, <2>2, <2>3
<1>11. ASSUME NEW s \in syncs, LoseSync(s) PROVE OneRequestAtATime'
  BY <1>11 DEF LoseSync
<1>12. ASSUME NEW s \in syncs, ArriveSync(s) PROVE OneRequestAtATime'
  <2>1. stream' \in Stream /\ stream'.st = stream.st /\ stream'.conv = stream.conv
    <3>1. CASE stream' = stream
      BY <3>1
    <3>2. CASE stream' # stream
      <4>1. PICK r \in {"none", "in", "out"} : stream' = [stream EXCEPT !.row = r]
        BY <1>12, <3>2 DEF ArriveSync, OneRequestAtATime, Stream
      <4> QED BY <4>1, StreamFields
    <3> QED BY <3>1, <3>2
  <2> QED BY <1>12, <2>1 DEF ArriveSync
<1>13. ASSUME NEW s \in syncs, Forget(s) PROVE OneRequestAtATime'
  <2>1. /\ syncs' = syncs \ {s} /\ convId' = 0 /\ UNCHANGED <<made, live, ids, stream, crossed>>
    BY <1>13 DEF Forget
  <2>2. ~crossed => syncs' = {} /\ ~Streaming
    BY <2>1
  <2> QED BY <2>1, <2>2, <1>0
<1>14. ASSUME NEW c \in Convs, AgentReplies(c) \/ Compress(c) \/ Delete(c) PROVE OneRequestAtATime'
  <2>1. ids' \in 0..MaxIds
    BY <1>14, <1>0 DEF AgentReplies, Compress, Delete
  <2> QED BY <1>14, <2>1, <1>0 DEF AgentReplies, Compress, Delete
<1> QED BY <1>1, <1>2, <1>3, <1>4, <1>5, <1>6, <1>7, <1>8, <1>9, <1>10, <1>11, <1>12, <1>13, <1>14
        DEF WidgetNext

\* The messages of a conversation can be counted, and a new one counts one more.
LEMMA SavedIsCounted ==
  ASSUME NEW n \in Nat, NEW S \in SUBSET (1..n)
  PROVE  /\ Cardinality(S) \in Nat
         /\ \A T \in SUBSET S : Cardinality(T) \in Nat /\ Cardinality(T) <= Cardinality(S)
         /\ \A i : i \notin S => Cardinality(S \cup {i}) = Cardinality(S) + 1
         /\ \A i : Cardinality(S \cup {i}) \in Nat /\ Cardinality(S) <= Cardinality(S \cup {i})
<1>1. IsFiniteSet(S)
  <2>1. IsFiniteSet(1..n)
    BY FS_Interval
  <2> QED BY <2>1, FS_Subset
<1>2. \A T \in SUBSET S : IsFiniteSet(T) /\ Cardinality(T) <= Cardinality(S)
  BY <1>1, FS_Subset
<1>3. \A T \in SUBSET S : Cardinality(T) \in Nat
  BY <1>2, FS_CardinalityType
<1>4. Cardinality(S) \in Nat
  BY <1>3
<1>5. \A i : Cardinality(S \cup {i}) = IF i \in S THEN Cardinality(S) ELSE Cardinality(S) + 1
  BY <1>1, FS_AddElement
<1> QED BY <1>2, <1>3, <1>4, <1>5

\* A message is saved in a conversation: every other conversation is as it was.
LEMMA SaveCounts ==
  ASSUME NEW c \in Convs, NEW i \in 1..ids', saved' = [saved EXCEPT ![c] = @ \cup {i}],
         saved \in [Convs -> SUBSET (1..ids)], ids \in Nat, ids' \in Nat, ids <= ids'
  PROVE  /\ saved' \in [Convs -> SUBSET (1..ids')]
         /\ \A d \in Convs : saved[d] \subseteq saved'[d] /\ Cardinality(saved[d]) <= Cardinality(saved'[d])
                             /\ Cardinality(saved[d]) \in Nat /\ Cardinality(saved'[d]) \in Nat
         /\ \A d \in Convs : \A j : j # i => (j \in saved'[d] <=> j \in saved[d])
         /\ i \notin saved[c] => Cardinality(saved'[c]) = Cardinality(saved[c]) + 1
<1>1. \A d \in Convs : saved[d] \in SUBSET (1..ids) /\ saved[d] \in SUBSET (1..ids')
  <2>1. 1..ids \subseteq 1..ids'
    OBVIOUS
  <2> QED BY <2>1
<1>2. saved'[c] = saved[c] \cup {i} /\ \A d \in Convs : d # c => saved'[d] = saved[d]
  OBVIOUS
<1>3. saved' \in [Convs -> SUBSET (1..ids')]
  BY <1>1
<1>4. /\ Cardinality(saved[c]) \in Nat /\ Cardinality(saved'[c]) \in Nat
      /\ Cardinality(saved[c]) <= Cardinality(saved'[c])
      /\ i \notin saved[c] => Cardinality(saved'[c]) = Cardinality(saved[c]) + 1
  BY <1>1, <1>2, SavedIsCounted
<1>5. \A d \in Convs : Cardinality(saved[d]) \in Nat /\ Cardinality(saved[d]) <= Cardinality(saved[d])
  BY <1>1, SavedIsCounted
<1>6. ASSUME NEW d \in Convs
      PROVE  /\ saved[d] \subseteq saved'[d] /\ Cardinality(saved[d]) <= Cardinality(saved'[d])
             /\ Cardinality(saved[d]) \in Nat /\ Cardinality(saved'[d]) \in Nat
             /\ \A j : j # i => (j \in saved'[d] <=> j \in saved[d])
  <2>1. CASE d = c
    BY <2>1, <1>2, <1>4
  <2>2. CASE d # c
    BY <2>2, <1>2, <1>5
  <2> QED BY <2>1, <2>2
<1> QED BY <1>3, <1>4, <1>6

\* What the poll leaves of the badge.
LEMMA BadgeIsNat ==
  ASSUME NEW n \in Nat, NEW k \in Nat, NEW b \in Nat, n > k
  PROVE  b + n - k \in Nat /\ (b <= k => b + n - k <= n)
OBVIOUS

LEMMA CountStepInv ==
  ASSUME OneRequestAtATime, OneRequestAtATime', CountLeavesRoom, [WidgetNext]_widgetVars, ~shrunk'
  PROVE  CountLeavesRoom'
<1>0. /\ made \in Nat /\ made <= MaxConvs /\ MaxConvs \in Nat /\ MaxIds \in Nat /\ ids \in Nat
      /\ 1..made \subseteq Convs /\ \A c \in 1..made : c \in Convs
  BY WidgetAssumption DEF OneRequestAtATime, Convs
<1>c. \A c \in Convs : saved[c] \in SUBSET (1..ids) /\ Cardinality(saved[c]) \in Nat
  BY <1>0, SavedIsCounted DEF CountLeavesRoom
<1>d. convId # 0 => convId \in Convs
  BY <1>0 DEF OneRequestAtATime
<1> USE DEF CountLeavesRoom, Streaming, backend, window
<1>1. CASE Toggle \/ UNCHANGED widgetVars
  <2>1. /\ UNCHANGED <<saved, ids, convId, known, stream, syncs, crossed>>
        /\ open' \in BOOLEAN /\ unread' \in Nat /\ (open' => unread' = 0) /\ unread' <= unread
    <3>1. CASE Toggle
      <4>1. /\ open' = ~open /\ unread' = IF open THEN unread ELSE 0
            /\ UNCHANGED <<saved, ids, convId, known, stream, syncs, crossed>>
        BY <3>1 DEF Toggle
      <4>2. CASE open
        BY <4>1, <4>2
      <4>3. CASE ~open
        BY <4>1, <4>3
      <4> QED BY <4>2, <4>3
    <3>2. CASE UNCHANGED widgetVars
      BY <3>2 DEF widgetVars
    <3> QED BY <1>1, <3>1, <3>2
  <2>2. convId # 0 /\ ~crossed => unread' <= known
    BY <2>1
  <2>3. ~crossed /\ Streaming => unread' = 0
    BY <2>1
  <2> QED BY <2>1, <2>2, <2>3
<1>2. CASE SendMessage
  <2>1. /\ stream'.st = "asked" /\ stream'.q = ids + 1 /\ ids' = ids + 2
        /\ open' = TRUE /\ unread' = 0
        /\ UNCHANGED <<saved, convId, known, syncs>> /\ (crossed => crossed')
    BY <1>2 DEF SendMessage
  <2>2. saved' \in [Convs -> SUBSET (1..ids')] /\ \A c \in Convs : ids + 1 \notin saved[c] /\ ids + 2 \notin saved[c]
    <3>1. 1..ids \subseteq 1..ids' /\ ids + 1 \notin 1..ids /\ ids + 2 \notin 1..ids
      BY <2>1, <1>0
    <3> QED BY <3>1, <2>1, <1>c
  <2>3. ~crossed' => /\ convId' = 0 => known' = 0
                     /\ convId' # 0 => unread' <= known' /\ known' <= Cardinality(saved'[convId'])
    BY <2>1
  <2>4. stream'.q \in 1..ids' /\ stream'.q + 1 <= ids' /\ stream'.q + 1 = ids + 2
    BY <2>1, <1>0
  <2> QED BY <2>1, <2>2, <2>3, <2>4, <1>0
<1>3. CASE Recover
  <2>1. stream'.st = stream.st /\ stream'.q = stream.q /\ stream.st = "asked" /\ convId' = 0 /\ known' = 0
    BY <1>3, StreamFields DEF Recover, OneRequestAtATime, Stream
  <2>2. UNCHANGED <<saved, ids, syncs, crossed, open, unread>>
    BY <1>3 DEF Recover
  <2> QED BY <2>1, <2>2
<1>4. CASE Meta
  <2>1. /\ stream'.st = "meta" /\ stream'.q = stream.q /\ stream.st = "asked"
        /\ UNCHANGED <<saved, ids, known, syncs, crossed, open, unread>>
    BY <1>4 DEF Meta, OneRequestAtATime, Stream
  <2>2. convId' \in Convs
    BY <1>4, <1>0 DEF Meta, OneRequestAtATime, Convs
  <2>3. ~crossed => unread = 0 /\ known <= Cardinality(saved[convId']) /\ convId' # 0
    <3>1. CASE stream.conv \in live /\ convId' = stream.conv
      <4>1. stream.conv # 0
        BY <3>1, <1>0 DEF OneRequestAtATime
      <4> QED BY <2>1, <3>1, <4>1 DEF OneRequestAtATime
    <3>2. CASE stream.conv = 0 /\ convId' = made + 1
      <4>1. ~crossed => known = 0 /\ unread = 0
        BY <2>1, <3>2 DEF OneRequestAtATime
      <4> QED BY <3>2, <4>1, <2>2, <1>0, <1>c
    <3> QED BY <1>4, <3>1, <3>2 DEF Meta
  <2> QED BY <2>1, <2>3
<1>5. ASSUME NEW st \in {"saved", "answered"}, NEW i \in {stream.q, Answer}, Save(st, i),
             \/ st = "saved" /\ i = stream.q /\ stream.st = "meta"
             \/ st = "answered" /\ i = Answer /\ stream.st = "saved"
      PROVE  CountLeavesRoom'
  <2>1. /\ stream.conv \in live /\ saved' = [saved EXCEPT ![stream.conv] = @ \cup {i}]
        /\ stream' = [stream EXCEPT !.st = st]
        /\ UNCHANGED <<ids, convId, known, syncs, crossed, open, unread>>
    BY <1>5 DEF Save
  <2>2. stream'.st = st /\ stream'.q = stream.q
    BY <2>1, StreamFields
  <2>3. stream.q \in 1..ids /\ stream.q + 1 \in 1..ids /\ i \in 1..ids /\ stream.q # stream.q + 1
    BY <1>5, <1>0 DEF Answer
  <2>4. stream.conv \in Convs
    BY <2>1, <1>0 DEF OneRequestAtATime
  <2>5. /\ saved' \in [Convs -> SUBSET (1..ids)]
        /\ \A d \in Convs : saved[d] \subseteq saved'[d] /\ Cardinality(saved[d]) <= Cardinality(saved'[d])
                            /\ Cardinality(saved[d]) \in Nat /\ Cardinality(saved'[d]) \in Nat
        /\ \A d \in Convs : \A j : j # i => (j \in saved'[d] <=> j \in saved[d])
        /\ i \notin saved[stream.conv] => Cardinality(saved'[stream.conv]) = Cardinality(saved[stream.conv]) + 1
    <3>1. ids' = ids /\ ids <= ids' /\ i \in 1..ids'
      BY <1>0, <2>1, <2>3
    <3>2. saved \in [Convs -> SUBSET (1..ids)] /\ saved' = [saved EXCEPT ![stream.conv] = @ \cup {i}]
      BY <2>1
    <3> HIDE DEF CountLeavesRoom
    <3>3. /\ saved' \in [Convs -> SUBSET (1..ids')]
          /\ \A d \in Convs : saved[d] \subseteq saved'[d] /\ Cardinality(saved[d]) <= Cardinality(saved'[d])
                              /\ Cardinality(saved[d]) \in Nat /\ Cardinality(saved'[d]) \in Nat
          /\ \A d \in Convs : \A j : j # i => (j \in saved'[d] <=> j \in saved[d])
          /\ i \notin saved[stream.conv] => Cardinality(saved'[stream.conv]) = Cardinality(saved[stream.conv]) + 1
      BY <1>0, <2>4, <3>1, <3>2, SaveCounts
    <3> QED BY <3>1, <3>3
  <2>6. i \notin saved[stream.conv]
    BY <1>5, <2>4 DEF Answer
  <2>7. \A s \in syncs' : s.st = "ok" => s.got \subseteq saved'[s.conv]
    <3>1. \A s \in syncs : s.conv \in Convs
      BY <1>0 DEF OneRequestAtATime
    <3> QED BY <2>1, <2>5, <3>1
  <2>8. ~crossed' => /\ unread' = 0 /\ convId' # 0 /\ unread' <= known' /\ known' <= Cardinality(saved'[convId'])
                     /\ st = "saved" => known' + 1 <= Cardinality(saved'[convId'])
                     /\ st = "answered" => known' + 2 <= Cardinality(saved'[convId'])
    <3> SUFFICES ASSUME ~crossed
                 PROVE  /\ unread = 0 /\ convId # 0 /\ unread <= known /\ known <= Cardinality(saved'[convId])
                        /\ st = "saved" => known + 1 <= Cardinality(saved'[convId])
                        /\ st = "answered" => known + 2 <= Cardinality(saved'[convId])
      BY <2>1
    <3>1. stream.conv = convId /\ convId # 0 /\ unread = 0
      BY <1>5, <2>4 DEF OneRequestAtATime, Convs
    <3>2. /\ known <= Cardinality(saved[convId])
          /\ stream.st = "saved" => known + 1 <= Cardinality(saved[convId])
      BY <3>1
    <3>3. Cardinality(saved'[convId]) = Cardinality(saved[convId]) + 1 /\ Cardinality(saved[convId]) \in Nat
      BY <2>4, <2>5, <2>6, <3>1
    <3> QED BY <1>5, <3>1, <3>2, <3>3
  <2>9. /\ st # "answered" => \A c \in Convs : stream.q + 1 \notin saved'[c]
    <3>1. CASE st = "saved"
      BY <1>5, <2>3, <2>5, <3>1
    <3> QED BY <3>1
  <2> QED BY <1>5, <2>1, <2>2, <2>3, <2>5, <2>7, <2>8, <2>9
<1>6. CASE Token
  <2>1. stream'.st = stream.st /\ stream'.q = stream.q
    BY <1>6, StreamFields DEF Token
  <2> QED BY <1>6, <2>1 DEF Token
<1>7. CASE Done
  <2>1. /\ stream.st = "answered" /\ known' = known + 2 /\ stream' = Quiet
        /\ UNCHANGED <<saved, ids, convId, syncs, crossed, open, unread>>
    BY <1>7 DEF Done
  <2>2. ~crossed => convId # 0
    BY <2>1 DEF OneRequestAtATime
  <2> QED BY <2>1, <2>2, QuietFields
<1>8. CASE Break
  <2>1. stream' = Quiet /\ UNCHANGED <<saved, ids, convId, known, syncs, crossed, open, unread>>
    BY <1>8 DEF Break
  <2> QED BY <2>1, QuietFields
<1>9. CASE Poll
  <2> DEFINE new == [conv |-> convId, st |-> "asked", got |-> {}]
  <2>1. /\ syncs' = syncs \cup {new} /\ (crossed => crossed')
        /\ UNCHANGED <<saved, ids, convId, known, stream, open, unread>>
    BY <1>9 DEF Poll
  <2>2. new.st = "asked"
    OBVIOUS
  <2> HIDE DEF new
  <2> QED BY <2>1, <2>2
<1>10. CASE Reload
  <2>1. /\ stream' = Quiet /\ syncs' = {} /\ known' = 0 /\ unread' = 0 /\ open' = FALSE
        /\ UNCHANGED <<saved, ids, convId>>
    BY <1>10 DEF Reload
  <2>2. convId' # 0 => known' <= Cardinality(saved'[convId'])
    BY <2>1, <1>c, <1>d
  <2>3. ~Streaming'
    BY <2>1, QuietFields
  <2>4. stream'.st = "none" /\ saved' \in [Convs -> SUBSET (1..ids')]
    BY <2>1, QuietFields
  <2>5. open' \in BOOLEAN /\ ~open'
    <3>1. open' = FALSE
      BY <2>1, Zenon
    <3> HIDE DEF CountLeavesRoom, Streaming
    <3> QED BY <3>1, Zenon
  <2>7. known' \in Nat /\ unread' \in Nat /\ unread' <= known'
    BY <2>1
  <2>6. /\ convId' = 0 => known' = 0
        /\ convId' # 0 => unread' <= known' /\ known' <= Cardinality(saved'[convId'])
        /\ stream'.st # "saved" /\ stream'.st # "answered"
    BY <2>1, <2>2, <2>4, <2>7
  <2> QED BY <2>1, <2>3, <2>4, <2>5, <2>6, <2>7
<1>11. ASSUME NEW s \in syncs, ServeSync(s) PROVE CountLeavesRoom'
  <2> DEFINE t == IF s.conv \in live THEN [s EXCEPT !.st = "ok", !.got = saved[s.conv]]
                                     ELSE [s EXCEPT !.st = "gone"]
  <2>1. /\ syncs' = (syncs \ {s}) \cup {t}
        /\ UNCHANGED <<saved, ids, convId, known, stream, crossed, open, unread>>
    BY <1>11 DEF ServeSync
  <2>2. t.conv = s.conv /\ (t.st = "ok" => t.got \subseteq saved[s.conv])
    BY DEF OneRequestAtATime
  <2> HIDE DEF t
  <2> QED BY <2>1, <2>2
<1>12. ASSUME NEW s \in syncs, LoseSync(s) PROVE CountLeavesRoom'
  BY <1>12 DEF LoseSync
<1>13. ASSUME NEW s \in syncs, ArriveSync(s) PROVE CountLeavesRoom'
  <2> DEFINE n == Cardinality(s.got)
  <2>1. s.st = "ok" /\ syncs' = syncs \ {s} /\ UNCHANGED <<saved, ids, convId, open, crossed>>
    BY <1>13 DEF ArriveSync
  <2>2. s.conv \in Convs /\ s.got \subseteq saved[s.conv]
    BY <2>1, <1>0 DEF OneRequestAtATime
  <2>3. n \in Nat /\ n <= Cardinality(saved[s.conv])
    BY <2>2, <1>0, <1>c, SavedIsCounted
  <2>4. stream'.st = stream.st /\ stream'.q = stream.q
    <3>1. CASE stream' = stream
      BY <3>1
    <3>2. CASE stream' # stream
      <4>1. PICK r \in {"none", "in", "out"} : stream' = [stream EXCEPT !.row = r]
        BY <1>13, <3>2 DEF ArriveSync, OneRequestAtATime, Stream
      <4> QED BY <4>1, StreamFields
    <3> QED BY <3>1, <3>2
  <2>5. \/ known' = known /\ unread' = unread
        \/ n > known /\ known' = n /\ unread' = IF open THEN unread ELSE unread + n - known
    BY <1>13 DEF ArriveSync
  <2> HIDE DEF n
  <2>6. ~crossed => ~Streaming /\ s.conv = convId /\ convId # 0
    BY <2>2 DEF OneRequestAtATime, Convs
  <2>7. known' \in Nat /\ unread' \in Nat /\ (open => unread' = 0)
    <3>1. CASE known' = known /\ unread' = unread
      BY <3>1
    <3>2. CASE n > known /\ known' = n /\ unread' = IF open THEN unread ELSE unread + n - known
      BY <3>2, <2>3, BadgeIsNat
    <3> QED BY <2>5, <3>1, <3>2
  <2>8. ~crossed => unread' <= known' /\ known' <= Cardinality(saved[convId])
    <3> SUFFICES ASSUME ~crossed PROVE unread' <= known' /\ known' <= Cardinality(saved[convId])
      OBVIOUS
    <3>1. CASE known' = known /\ unread' = unread
      BY <3>1, <2>6
    <3>2. CASE n > known /\ known' = n /\ unread' = IF open THEN unread ELSE unread + n - known
      <4>1. unread <= known
        BY <2>6
      <4> QED BY <3>2, <4>1, <2>3, <2>6, BadgeIsNat
    <3> QED BY <2>5, <3>1, <3>2
  <2> QED BY <2>1, <2>4, <2>6, <2>7, <2>8
<1>14. ASSUME NEW s \in syncs, Forget(s) PROVE CountLeavesRoom'
  <2>1. /\ syncs' = syncs \ {s} /\ convId' = 0 /\ known' = 0
        /\ UNCHANGED <<saved, ids, stream, crossed, open, unread>>
    BY <1>14 DEF Forget
  <2>2. ~crossed => ~Streaming
    BY DEF OneRequestAtATime
  <2> QED BY <2>1, <2>2
<1>15. ASSUME NEW c \in Convs, AgentReplies(c) PROVE CountLeavesRoom'
  <2>1. /\ ids' = ids + 1 /\ saved' = [saved EXCEPT ![c] = @ \cup {ids + 1}]
        /\ UNCHANGED <<convId, known, stream, syncs, crossed, open, unread>>
    BY <1>15 DEF AgentReplies
  <2>2. /\ saved' \in [Convs -> SUBSET (1..ids')]
        /\ \A d \in Convs : saved[d] \subseteq saved'[d] /\ Cardinality(saved[d]) <= Cardinality(saved'[d])
                            /\ Cardinality(saved[d]) \in Nat /\ Cardinality(saved'[d]) \in Nat
        /\ \A d \in Convs : \A j : j # ids + 1 => (j \in saved'[d] <=> j \in saved[d])
    <3>1. ids' \in Nat /\ ids <= ids' /\ ids + 1 \in 1..ids'
      BY <1>0, <2>1
    <3>2. saved \in [Convs -> SUBSET (1..ids)] /\ saved' = [saved EXCEPT ![c] = @ \cup {ids + 1}]
      BY <2>1
    <3> HIDE DEF CountLeavesRoom
    <3>3. /\ saved' \in [Convs -> SUBSET (1..ids')]
          /\ \A d \in Convs : saved[d] \subseteq saved'[d] /\ Cardinality(saved[d]) <= Cardinality(saved'[d])
                              /\ Cardinality(saved[d]) \in Nat /\ Cardinality(saved'[d]) \in Nat
          /\ \A d \in Convs : \A j : j # ids + 1 => (j \in saved'[d] <=> j \in saved[d])
          /\ ids + 1 \notin saved[c] => Cardinality(saved'[c]) = Cardinality(saved[c]) + 1
      BY <1>0, <3>1, <3>2, SaveCounts
    <3> QED BY <3>1, <3>3
  <2>3. \A s \in syncs' : s.st = "ok" => s.got \subseteq saved'[s.conv]
    <3>1. \A s \in syncs : s.conv \in Convs
      BY <1>0 DEF OneRequestAtATime
    <3> QED BY <2>1, <2>2, <3>1
  <2>4. Streaming => /\ stream.q \in 1..ids' /\ stream.q + 1 <= ids'
                     /\ stream.q # ids + 1 /\ stream.q + 1 # ids + 1
    BY <2>1, <1>0
  <2>5. convId # 0 /\ ~crossed =>
          /\ known <= Cardinality(saved'[convId])
          /\ stream.st = "saved" => known + 1 <= Cardinality(saved'[convId])
          /\ stream.st = "answered" => known + 2 <= Cardinality(saved'[convId])
    BY <2>2, <1>d
  <2>6. ~crossed /\ stream.st \in {"saved", "answered"} => convId # 0
    BY DEF OneRequestAtATime
  <2> QED BY <2>1, <2>2, <2>3, <2>4, <2>5, <2>6
<1>16. ASSUME NEW c \in Convs, Delete(c) PROVE CountLeavesRoom'
  BY <1>16 DEF Delete
<1>17. ASSUME NEW c \in Convs PROVE ~Compress(c)
  BY DEF Compress
<1> QED BY <1>1, <1>2, <1>3, <1>4, <1>5, <1>6, <1>7, <1>8, <1>9, <1>10, <1>11, <1>12, <1>13, <1>14,
           <1>15, <1>16, <1>17 DEF WidgetNext, SaveQuestion, SaveAnswer

LEMMA ShrunkStays == [WidgetNext]_widgetVars /\ shrunk => shrunk'
BY DEF WidgetNext, widgetVars, window, backend, Toggle, SendMessage, Recover, Meta, SaveQuestion, SaveAnswer,
       Save, Token, Done, Break, Poll, Reload, ServeSync, LoseSync, ArriveSync, Forget, AgentReplies,
       Compress, Delete

LEMMA WidgetStepInv == WidgetIInv /\ [WidgetNext]_widgetVars => WidgetIInv'
<1> SUFFICES ASSUME WidgetIInv, [WidgetNext]_widgetVars PROVE WidgetIInv'
  OBVIOUS
<1>1. OneRequestAtATime'
  BY RequestsStepInv DEF WidgetIInv
<1>2. ~shrunk' => CountLeavesRoom'
  BY <1>1, CountStepInv, ShrunkStays DEF WidgetIInv
<1> QED BY <1>1, <1>2 DEF WidgetIInv

\* For any number of conversations, messages and polls: as long as no two requests
\* crossed and nothing was compressed, the widget has counted no message that is
\* not there, wherever its streams broke.
THEOREM CountsAreBacked == WidgetSpec => []NeverOvercounts
<1>1. WidgetIInv => NeverOvercounts
  BY DEF WidgetIInv, CountLeavesRoom, NeverOvercounts
<1> QED BY WidgetInitInv, WidgetStepInv, <1>1, PTL DEF WidgetSpec

\* It forgets a conversation only when that one is gone: a 404 answers for the
\* conversation at hand, unless two requests crossed.
THEOREM OnlyTheGone == WidgetSpec => ForgetsOnlyTheGone
<1>1. WidgetIInv /\ [WidgetNext]_widgetVars
        => [convId # 0 /\ convId' = 0 => crossed \/ convId \notin live]_widgetVars
  <2> SUFFICES ASSUME OneRequestAtATime, [WidgetNext]_widgetVars, convId # 0, convId' = 0, ~crossed
               PROVE  convId \notin live
    BY DEF WidgetIInv
  <2>1. CASE Recover
    BY <2>1 DEF Recover, OneRequestAtATime, Streaming
  <2>2. ASSUME NEW s \in syncs, Forget(s) PROVE convId \notin live
    BY <2>2 DEF Forget, OneRequestAtATime
  <2>3. ~Meta
    <3>1. Meta => convId' = made + 1 \/ convId' \in live
      BY DEF Meta
    <3>2. made + 1 # 0 /\ 0 \notin live
      BY DEF OneRequestAtATime
    <3> QED BY <3>1, <3>2
  <2>4. CASE UNCHANGED convId
    BY <2>4
  <2> QED BY <2>1, <2>2, <2>3, <2>4
          DEF WidgetNext, widgetVars, window, backend, Toggle, SendMessage, SaveQuestion, SaveAnswer,
              Save, Token, Done, Break, Poll, Reload, ServeSync, LoseSync, ArriveSync, AgentReplies,
              Compress, Delete
<1> QED BY WidgetInitInv, WidgetStepInv, <1>1, PTL DEF WidgetSpec, ForgetsOnlyTheGone
-----------------------------------------------------------------------------
(* The types of the widget.                                                *)

\* The greatest is the one that has nothing over it in the set.
LEMMA GreatestExists ==
  ASSUME NEW S \in SUBSET Nat, IsFiniteSet(S), S # {}
  PROVE  \E m \in S : \A n \in S : n <= m
<1> DEFINE Over(k) == {n \in S : n > k}
           T == {Over(k) : k \in S}
<1>1. T \in SUBSET FiniteSubsetsOf(Nat) /\ T # {}
  <2>1. ASSUME NEW k \in S PROVE Over(k) \in SUBSET Nat /\ IsFiniteSet(Over(k))
    <3>1. Over(k) \subseteq S
      OBVIOUS
    <3> QED BY <3>1, FS_Subset
  <2> QED BY <2>1 DEF FiniteSubsetsOf
<1>2. PICK x \in T : \A y \in T : ~(<<y, x>> \in StrictSubsetOrdering(Nat))
  <2> HIDE DEF T
  <2> QED BY <1>1, FS_StrictSubsetOrderingWellFounded, WFMin
<1>3. PICK m \in S : x = Over(m)
  OBVIOUS
<1>4. ASSUME NEW n \in S, ~(n <= m) PROVE FALSE
  <2>1. n > m /\ n \in Nat /\ m \in Nat
    BY <1>4
  <2>2. Over(n) \subseteq Over(m) /\ n \in Over(m) /\ n \notin Over(n)
    <3>1. ~(n > n) /\ \A k \in Nat : k > n => k > m
      BY <2>1
    <3> QED BY <2>1, <3>1
  <2>3. Over(n) \in T /\ Over(n) \in SUBSET Nat /\ Over(m) \in SUBSET Nat
    OBVIOUS
  <2>4. <<Over(n), Over(m)>> \in StrictSubsetOrdering(Nat)
    <3> HIDE DEF Over
    <3> QED BY <2>2, <2>3 DEF StrictSubsetOrdering
  <2> QED BY <1>2, <1>3, <2>3, <2>4
<1> QED BY <1>4

\* A question and its answer have ids of their own.
WidgetTyped == WidgetTypeOK /\ (Streaming => stream.q \in Ids /\ Answer \in Ids)

LEMMA WidgetInitTyped == WidgetInit => WidgetTyped
<1> SUFFICES ASSUME WidgetInit PROVE WidgetTyped
  OBVIOUS
<1>1. saved \in [Convs -> SUBSET Ids] /\ syncs \subseteq Sync /\ screen \subseteq Ids /\ live \subseteq 1..made
  BY DEF WidgetInit
<1>2. stream \in Stream /\ ~Streaming
  BY QuietFields DEF WidgetInit, Streaming
<1>3. made \in 0..MaxConvs /\ ids \in 0..MaxIds /\ convId \in 0..MaxConvs /\ known \in Nat /\ unread \in Nat
  BY WidgetAssumption DEF WidgetInit
<1>4. open \in BOOLEAN /\ crossed \in BOOLEAN /\ shrunk \in BOOLEAN
  BY DEF WidgetInit
<1> QED BY <1>1, <1>2, <1>3, <1>4 DEF WidgetTyped, WidgetTypeOK

LEMMA WidgetNextTyped == WidgetTyped /\ [WidgetNext]_widgetVars => WidgetTyped'
<1> SUFFICES ASSUME WidgetTyped, [WidgetNext]_widgetVars PROVE WidgetTyped'
  OBVIOUS
<1>0. /\ MaxConvs \in Nat /\ MaxIds \in Nat /\ made \in Nat /\ ids \in Nat /\ known \in Nat /\ unread \in Nat
      /\ 1..made \subseteq Convs /\ Quiet \in Stream /\ Quiet.st = "none"
  BY WidgetAssumption, QuietFields DEF WidgetTyped, WidgetTypeOK, Convs
<1>s. /\ stream.st \in {"none", "asked", "meta", "saved", "answered"} /\ stream.conv \in 0..MaxConvs
      /\ stream.q \in 0..MaxIds /\ stream.row \in {"none", "in", "out"}
  BY DEF WidgetTyped, WidgetTypeOK, Stream
\* The stream goes on: same question, same answer.
<1>t. ASSUME NEW st \in {"asked", "meta", "saved", "answered"}, NEW c \in 0..MaxConvs,
             NEW row \in {"none", "in", "out"}, Streaming,
             stream' = [stream EXCEPT !.st = st, !.conv = c, !.row = row]
      PROVE  stream' \in Stream /\ stream'.q \in Ids /\ Answer' \in Ids
  <2>1. stream' = [st |-> st, conv |-> c, q |-> stream.q, row |-> row]
    BY <1>t DEF WidgetTyped, WidgetTypeOK, Stream
  <2> QED BY <1>t, <1>s, <2>1 DEF Stream, WidgetTyped, Answer
<1>k. ASSUME UNCHANGED <<stream, ids>> PROVE stream' \in Stream /\ (Streaming' => stream'.q \in Ids /\ Answer' \in Ids)
  BY <1>k DEF WidgetTyped, WidgetTypeOK, Streaming, Answer
<1>e. ASSUME stream' = Quiet PROVE stream' \in Stream /\ ~Streaming'
  BY <1>e, <1>0 DEF Streaming
<1> USE DEF WidgetTypeOK
<1>1. CASE Toggle \/ UNCHANGED widgetVars
  <2>1. open' \in BOOLEAN /\ unread' \in Nat
    <3>1. CASE Toggle
      <4>1. open' = ~open /\ unread' = IF open THEN unread ELSE 0
        BY <3>1 DEF Toggle
      <4>2. unread' \in Nat
        BY <1>0, <4>1
      <4> QED BY <4>1, <4>2
    <3>2. CASE UNCHANGED widgetVars
      BY <1>0, <3>2 DEF widgetVars, WidgetTyped
    <3> QED BY <1>1, <3>1, <3>2
  <2>2. UNCHANGED <<made, live, saved, ids, convId, known, screen, stream, syncs, crossed, shrunk>>
    BY <1>1 DEF Toggle, widgetVars, backend
  <2> QED BY <1>k, <2>1, <2>2 DEF WidgetTyped
<1>2. CASE SendMessage
  <2>1. /\ UNCHANGED <<made, live, saved, convId, known, syncs, shrunk>> /\ open' = TRUE
        /\ ids' = ids + 2 /\ ids + 2 <= MaxIds /\ screen' = screen \cup {ids + 1}
        /\ stream' = [st |-> "asked", conv |-> convId, q |-> ids + 1, row |-> "none"]
    BY <1>2 DEF SendMessage, backend
  <2>2. unread' \in Nat /\ crossed' \in BOOLEAN
    BY <1>2, <1>0 DEF SendMessage, WidgetTyped
  <2>3. ids + 1 \in Ids /\ ids + 2 \in Ids /\ ids + 1 \in 0..MaxIds /\ ids' \in 0..MaxIds
    BY <1>0, <2>1 DEF Ids
  <2>4. stream' \in Stream /\ stream'.q = ids + 1 /\ Answer' = ids + 2
    BY <1>0, <2>1, <2>3 DEF Stream, WidgetTyped, Answer
  <2> QED BY <2>1, <2>2, <2>3, <2>4 DEF WidgetTyped
<1>3. CASE Recover
  <2>1. /\ stream.st = "asked" /\ stream' = [stream EXCEPT !.conv = 0] /\ convId' = 0 /\ known' = 0
        /\ UNCHANGED <<made, live, saved, ids, screen, syncs, crossed, open, unread, shrunk>>
    BY <1>3 DEF Recover, backend, window
  <2>2. stream' = [stream EXCEPT !.st = "asked", !.conv = 0, !.row = stream.row]
    BY <2>1 DEF WidgetTyped, Stream
  <2>3. Streaming /\ 0 \in 0..MaxConvs
    BY <1>0, <2>1 DEF Streaming
  <2>4. stream' \in Stream /\ stream'.q \in Ids /\ Answer' \in Ids
    BY <1>s, <1>t, <2>2, <2>3
  <2> QED BY <1>0, <2>1, <2>3, <2>4 DEF WidgetTyped
<1>4. CASE Meta
  <2>1. /\ stream.st = "asked" /\ stream' = [stream EXCEPT !.st = "meta", !.conv = convId']
        /\ UNCHANGED <<saved, ids, known, screen, syncs, crossed, open, unread, shrunk>>
    BY <1>4 DEF Meta, window
  <2>2. made' \in 0..MaxConvs /\ live' \subseteq 1..made' /\ convId' \in 0..MaxConvs
    <3>1. CASE stream.conv \in live /\ UNCHANGED <<made, live>> /\ convId' = stream.conv
      BY <3>1, <1>s DEF WidgetTyped
    <3>2. CASE made < MaxConvs /\ made' = made + 1 /\ live' = live \cup {made + 1} /\ convId' = made + 1
      <4>1. 1..made \subseteq 1..made + 1
        BY <1>0
      <4> QED BY <3>2, <4>1, <1>0 DEF WidgetTyped
    <3> QED BY <1>4, <3>1, <3>2 DEF Meta
  <2>3. stream' = [stream EXCEPT !.st = "meta", !.conv = convId', !.row = stream.row]
    BY <2>1 DEF WidgetTyped, Stream
  <2>4. stream' \in Stream /\ stream'.q \in Ids /\ Answer' \in Ids
    BY <1>s, <1>t, <2>1, <2>2, <2>3 DEF Streaming
  <2> QED BY <2>1, <2>2, <2>4 DEF WidgetTyped
<1>5. ASSUME NEW st \in {"saved", "answered"}, NEW i \in {stream.q, Answer}, Save(st, i), Streaming PROVE WidgetTyped'
  <2>1. /\ stream.conv \in live /\ saved' = [saved EXCEPT ![stream.conv] = @ \cup {i}]
        /\ stream' = [stream EXCEPT !.st = st]
        /\ UNCHANGED <<made, live, ids, convId, known, screen, syncs, crossed, open, unread, shrunk>>
    BY <1>5 DEF Save, window
  <2>2. saved' \in [Convs -> SUBSET Ids]
    BY <1>0, <1>5, <2>1 DEF WidgetTyped
  <2>3. stream' = [stream EXCEPT !.st = st, !.conv = stream.conv, !.row = stream.row]
    BY <2>1 DEF WidgetTyped, Stream
  <2>4. stream' \in Stream /\ stream'.q \in Ids /\ Answer' \in Ids
    BY <1>5, <1>s, <1>t, <2>3
  <2> QED BY <2>1, <2>2, <2>4 DEF WidgetTyped
<1>6. CASE Token
  <2>1. /\ stream.st = "saved" /\ stream' = [stream EXCEPT !.row = "in"] /\ screen' = screen \cup {Answer}
        /\ UNCHANGED <<made, live, saved, ids, convId, known, syncs, crossed, open, unread, shrunk>>
    BY <1>6 DEF Token, backend, window
  <2>2. stream' = [stream EXCEPT !.st = "saved", !.conv = stream.conv, !.row = "in"]
    BY <2>1 DEF WidgetTyped, Stream
  <2>3. stream' \in Stream /\ stream'.q \in Ids /\ Answer' \in Ids /\ Answer \in Ids
    BY <1>s, <1>t, <2>1, <2>2 DEF Streaming, WidgetTyped
  <2> QED BY <2>1, <2>3 DEF WidgetTyped
<1>7. CASE Done \/ Break
  <2>1. /\ stream' = Quiet /\ known' \in Nat
        /\ UNCHANGED <<made, live, saved, ids, convId, screen, syncs, crossed, open, unread, shrunk>>
    BY <1>7, <1>0 DEF Done, Break, backend, window
  <2> QED BY <1>e, <2>1 DEF WidgetTyped
<1>8. CASE Poll
  <2>1. /\ convId # 0 /\ syncs' = syncs \cup {[conv |-> convId, st |-> "asked", got |-> {}]}
        /\ UNCHANGED <<made, live, saved, ids, convId, known, screen, stream, open, unread, shrunk>>
    BY <1>8 DEF Poll, backend, window
  <2>2. convId \in Convs /\ crossed' \in BOOLEAN
    BY <1>0, <1>8, <2>1 DEF Poll, WidgetTyped, Convs
  <2>3. syncs' \subseteq Sync
    BY <2>1, <2>2 DEF WidgetTyped, Sync
  <2> QED BY <1>k, <2>1, <2>2, <2>3 DEF WidgetTyped
<1>9. CASE Reload
  <2>1. /\ known' = 0 /\ screen' = {} /\ open' = FALSE /\ unread' = 0 /\ stream' = Quiet /\ syncs' = {}
        /\ crossed' = FALSE /\ UNCHANGED <<made, live, saved, ids, convId, shrunk>>
    BY <1>9 DEF Reload, backend
  <2> QED BY <1>0, <1>e, <2>1 DEF WidgetTyped
<1>10. ASSUME NEW s \in syncs, ServeSync(s) PROVE WidgetTyped'
  <2> DEFINE t == IF s.conv \in live THEN [s EXCEPT !.st = "ok", !.got = saved[s.conv]]
                                     ELSE [s EXCEPT !.st = "gone"]
  <2>1. /\ syncs' = (syncs \ {s}) \cup {t}
        /\ UNCHANGED <<made, live, saved, ids, convId, known, screen, stream, crossed, open, unread, shrunk>>
    BY <1>10 DEF ServeSync, backend, window
  <2>2. t \in Sync
    <3>1. s \in Sync /\ \A c \in live : saved[c] \in SUBSET Ids
      BY <1>0 DEF WidgetTyped
    <3> QED BY <3>1 DEF Sync
  <2> HIDE DEF t
  <2> QED BY <1>k, <2>1, <2>2 DEF WidgetTyped
<1>11. ASSUME NEW s \in syncs, LoseSync(s) PROVE WidgetTyped'
  BY <1>11, <1>k DEF LoseSync, backend, window, WidgetTyped
<1>12. ASSUME NEW s \in syncs, ArriveSync(s) PROVE WidgetTyped'
  <2> DEFINE n == Cardinality(s.got)
  <2>1. syncs' = syncs \ {s} /\ UNCHANGED <<made, live, saved, ids, convId, open, crossed, shrunk>>
    BY <1>12 DEF ArriveSync, backend
  <2>2. s.got \in SUBSET Ids /\ n \in Nat
    <3>1. s.got \in SUBSET Ids
      BY DEF WidgetTyped, Sync
    <3>2. IsFiniteSet(Ids)
      BY <1>0, FS_Interval DEF Ids
    <3> QED BY <3>1, <3>2, FS_Subset, FS_CardinalityType
  <2>3. \/ UNCHANGED <<screen, known, unread, stream>>
        \/ /\ n > known /\ screen' = s.got /\ known' = n
           /\ unread' = IF open THEN unread ELSE unread + n - known
           /\ stream' = [stream EXCEPT !.row = IF @ = "in" THEN "out" ELSE @]
    BY <1>12 DEF ArriveSync
  <2> HIDE DEF n
  <2>4. screen' \subseteq Ids /\ known' \in Nat /\ unread' \in Nat
    <3>1. CASE UNCHANGED <<screen, known, unread, stream>>
      BY <3>1, <1>0 DEF WidgetTyped
    <3>2. CASE n > known /\ screen' = s.got /\ known' = n /\ unread' = IF open THEN unread ELSE unread + n - known
      BY <3>2, <1>0, <2>2, BadgeIsNat
    <3> QED BY <2>3, <3>1, <3>2
  <2>5. stream' \in Stream /\ (Streaming' => stream'.q \in Ids /\ Answer' \in Ids)
    <3>1. CASE stream' = stream
      BY <1>k, <2>1, <3>1
    <3>2. CASE stream' = [stream EXCEPT !.row = IF @ = "in" THEN "out" ELSE @]
      <4>1. PICK row \in {"none", "in", "out"} : stream' = [stream EXCEPT !.row = row]
        BY <1>s, <3>2
      <4>2. stream' = [st |-> stream.st, conv |-> stream.conv, q |-> stream.q, row |-> row]
        BY <4>1 DEF WidgetTyped, Stream
      <4> QED BY <1>s, <4>2 DEF Stream, WidgetTyped, Streaming, Answer
    <3> QED BY <2>3, <3>1, <3>2
  <2> QED BY <2>1, <2>4, <2>5 DEF WidgetTyped
<1>13. ASSUME NEW s \in syncs, Forget(s) PROVE WidgetTyped'
  <2>1. /\ syncs' = syncs \ {s} /\ convId' = 0 /\ known' = 0
        /\ UNCHANGED <<made, live, saved, ids, screen, stream, crossed, open, unread, shrunk>>
    BY <1>13 DEF Forget, backend, window
  <2> QED BY <1>0, <1>k, <2>1 DEF WidgetTyped
<1>14. ASSUME NEW c \in Convs, NEW S \in SUBSET Ids, ids < MaxIds, ids' = ids + 1, saved' = [saved EXCEPT ![c] = S],
              UNCHANGED <<made, live, convId, known, screen, stream, syncs, crossed, open, unread>>, shrunk' \in BOOLEAN
       PROVE  WidgetTyped'
  <2>1. ids' \in 0..MaxIds /\ saved' \in [Convs -> SUBSET Ids]
    BY <1>0, <1>14 DEF WidgetTyped
  <2>2. stream' \in Stream /\ (Streaming' => stream'.q \in Ids /\ Answer' \in Ids)
    BY <1>14 DEF WidgetTyped, Streaming, Answer
  <2> QED BY <1>14, <2>1, <2>2 DEF WidgetTyped
<1>15. ASSUME NEW c \in Convs, AgentReplies(c) PROVE WidgetTyped'
  <2> DEFINE S == saved[c] \cup {ids + 1}
  <2>1. /\ ids < MaxIds /\ ids' = ids + 1 /\ saved' = [saved EXCEPT ![c] = S] /\ shrunk' = shrunk
        /\ UNCHANGED <<made, live, convId, known, screen, stream, syncs, crossed, open, unread>>
    BY <1>15 DEF AgentReplies, window
  <2>2. S \in SUBSET Ids /\ shrunk' \in BOOLEAN
    BY <1>0, <2>1 DEF WidgetTyped, Ids
  <2> HIDE DEF S
  <2> QED BY <1>14, <2>1, <2>2
<1>16. ASSUME NEW c \in Convs, Compress(c) PROVE WidgetTyped'
  <2> DEFINE last == CHOOSE i \in saved[c] : \A j \in saved[c] : j <= i
             S == {ids + 1, last}
  <2>1. /\ ids < MaxIds /\ ids' = ids + 1 /\ saved' = [saved EXCEPT ![c] = S] /\ shrunk' = TRUE
        /\ Cardinality(saved[c]) > 2
        /\ UNCHANGED <<made, live, convId, known, screen, stream, syncs, crossed, open, unread>>
    BY <1>16 DEF Compress, window
  <2>2. saved[c] \in SUBSET Ids /\ saved[c] \in SUBSET Nat /\ IsFiniteSet(saved[c]) /\ saved[c] # {}
    <3>1. saved[c] \in SUBSET Ids
      BY DEF WidgetTyped
    <3>2. IsFiniteSet(Ids) /\ Ids \subseteq Nat
      BY <1>0, FS_Interval DEF Ids
    <3>3. saved[c] # {}
      BY <2>1, FS_EmptySet
    <3> QED BY <3>1, <3>2, <3>3, FS_Subset
  <2>3. last \in saved[c]
    BY <2>2, GreatestExists
  <2> HIDE DEF last
  <2>4. S \in SUBSET Ids
    BY <1>0, <2>1, <2>2, <2>3 DEF Ids
  <2> HIDE DEF S
  <2> QED BY <1>14, <2>1, <2>4
<1>17. ASSUME NEW c \in Convs, Delete(c) PROVE WidgetTyped'
  <2>1. /\ live' = live \ {c}
        /\ UNCHANGED <<made, saved, ids, convId, known, screen, stream, syncs, crossed, open, unread, shrunk>>
    BY <1>17 DEF Delete, window
  <2> QED BY <1>k, <2>1 DEF WidgetTyped
<1>18. SaveQuestion \/ SaveAnswer => WidgetTyped'
  BY <1>5 DEF SaveQuestion, SaveAnswer, Streaming
<1> QED BY <1>1, <1>2, <1>3, <1>4, <1>6, <1>7, <1>8, <1>9, <1>10, <1>11, <1>12, <1>13,
           <1>15, <1>16, <1>17, <1>18 DEF WidgetNext

\* For any conversations, messages and polls: every message is one that was written,
\* the badge never goes below zero, and what compression keeps is a message of the
\* conversation.
THEOREM WidgetTypes == WidgetSpec => []WidgetTypeOK
<1>1. WidgetTyped => WidgetTypeOK
  BY DEF WidgetTyped
<1> QED BY WidgetInitTyped, WidgetNextTyped, <1>1, PTL DEF WidgetSpec
=============================================================================
