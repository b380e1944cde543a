--------------------------- MODULE SessionProofs ---------------------------
(***************************************************************************)
(* Proofs about Session, for any number of tabs and calls.                 *)
(*                                                                         *)
(* The argument: a pair of tokens that an exchange has obtained and its    *)
(* tab has not stored yet is known to nobody else (Private), because every *)
(* pair is issued once (Issued).  So no exchange of another tab or of a    *)
(* page that was left can spend it, only time can, and no call carries it. *)
(* A row goes by three steps (an exchange, one whose page was left, age),  *)
(* and each leaves what DeadTokensAreAccounted asks for.                   *)
(***************************************************************************)
EXTENDS Session, TLAPS

\* Whatever is stored, held or carried has been issued.
Issued ==
  /\ live \subseteq 1..issued /\ left \subseteq 0..issued
  /\ expired <= issued /\ aged <= issued
  /\ store.access <= issued /\ store.refresh <= issued
  /\ \A t \in Tabs : tab[t].lead <= issued /\ tab[t].reply <= issued
  /\ \A t \in Tabs, c \in Request : call[t][c].tok <= issued

\* The outcome of an exchange is held by its tab alone, and is live unless it
\* has waited beyond its date.
Private ==
  \A t \in Tabs :
    IF tab[t].phase = "renewed"
    THEN /\ tab[t].reply # 0 /\ tab[t].reply \notin left
         /\ tab[t].reply \in live \/ tab[t].reply <= aged
         /\ store.access # tab[t].reply /\ store.refresh # tab[t].reply
         /\ \A u \in Tabs : tab[u].lead # tab[t].reply
         /\ \A u \in Tabs \ {t} : tab[u].reply # tab[t].reply
         /\ \A u \in Tabs, c \in Request : call[u][c].tok # tab[t].reply
    ELSE tab[t].reply = 0

TokensInv == TypeOK /\ Issued /\ Private

LEMMA InitInv == Init => TokensInv /\ WaitersHaveALeader /\ DeadTokensAreAccounted
  BY SessionAssumption DEF Init, TokensInv, TypeOK, Issued, Private, WaitersHaveALeader, Waiting,
     DeadTokensAreAccounted, Profiles,
     Store, Tab, Call, CallState, Token, Maybe, Request, Cleared, Idle, Fresh

\* The type of a page load, and of an exchange that is over.
LEMMA Shapes ==
  /\ Cleared \in Store /\ Idle \in Call
  /\ \A k \in Maybe : Sent(k) \in Call
  /\ \A page \in {"login", "app"} : Fresh(page) \in Tab
  BY SessionAssumption DEF Cleared, Idle, Sent, Fresh, Store, Call, Tab, CallState, Maybe

\* One record of a tab, or of a call, replaced by another of its type.
LEMMA PutTab ==
  ASSUME TypeOK, NEW t \in Tabs, NEW r \in Tab
  PROVE  [tab EXCEPT ![t] = r] \in [Tabs -> Tab]
  BY DEF TypeOK

LEMMA PutCalls ==
  ASSUME TypeOK, NEW t \in Tabs, NEW f \in [Request -> Call]
  PROVE  [call EXCEPT ![t] = f] \in [Tabs -> [Request -> Call]]
  BY DEF TypeOK

LEMMA PutCall ==
  ASSUME TypeOK, NEW t \in Tabs, NEW c \in Request, NEW r \in Call
  PROVE  [call EXCEPT ![t][c] = r] \in [Tabs -> [Request -> Call]]
<1>1. [call[t] EXCEPT ![c] = r] \in [Request -> Call]
  BY DEF TypeOK
<1> QED BY <1>1, PutCalls

\* The records a step writes.
LEMMA PutState ==
  ASSUME TypeOK, NEW t \in Tabs, NEW c \in Request, NEW s \in CallState, NEW b \in BOOLEAN
  PROVE  /\ [call EXCEPT ![t][c].st = s] \in [Tabs -> [Request -> Call]]
         /\ [call EXCEPT ![t][c].st = s, ![t][c].retried = b] \in [Tabs -> [Request -> Call]]
<1>1. call[t][c] \in Call
  BY DEF TypeOK
<1>2. [call[t][c] EXCEPT !.st = s] \in Call /\ [call[t][c] EXCEPT !.st = s, !.retried = b] \in Call
  BY <1>1 DEF Call
<1>3. [call EXCEPT ![t][c] = [call[t][c] EXCEPT !.st = s]] \in [Tabs -> [Request -> Call]]
  BY <1>2, PutCall
<1>4. [call EXCEPT ![t][c] = [call[t][c] EXCEPT !.st = s, !.retried = b]]
        \in [Tabs -> [Request -> Call]]
  BY <1>2, PutCall
<1>5. [call EXCEPT ![t][c].st = s, ![t][c].retried = b]
        = [call EXCEPT ![t][c] = [call[t][c] EXCEPT !.st = s, !.retried = b]]
  BY <1>1 DEF TypeOK
<1> QED BY <1>3, <1>4, <1>5

Phase == {"none", "posted", "found", "renewed", "refused"}

LEMMA PutPhase ==
  ASSUME TypeOK, NEW t \in Tabs, NEW p \in Phase, NEW k \in Maybe, NEW r \in Maybe
  PROVE  /\ [tab EXCEPT ![t].phase = p, ![t].lead = k] \in [Tabs -> Tab]
         /\ [tab EXCEPT ![t].phase = p, ![t].reply = k] \in [Tabs -> Tab]
         /\ [tab EXCEPT ![t].phase = p, ![t].lead = k, ![t].reply = r] \in [Tabs -> Tab]
<1>1. tab[t] \in Tab
  BY DEF TypeOK
<1>2. /\ [tab[t] EXCEPT !.phase = p, !.lead = k] \in Tab
      /\ [tab[t] EXCEPT !.phase = p, !.reply = k] \in Tab
      /\ [tab[t] EXCEPT !.phase = p, !.lead = k, !.reply = r] \in Tab
  BY <1>1 DEF Tab, Phase
<1>3. [tab EXCEPT ![t].phase = p, ![t].lead = k]
        = [tab EXCEPT ![t] = [tab[t] EXCEPT !.phase = p, !.lead = k]]
  BY <1>1 DEF TypeOK
<1>4. [tab EXCEPT ![t].phase = p, ![t].reply = k]
        = [tab EXCEPT ![t] = [tab[t] EXCEPT !.phase = p, !.reply = k]]
  BY <1>1 DEF TypeOK
<1>5. [tab EXCEPT ![t].phase = p, ![t].lead = k, ![t].reply = r]
        = [tab EXCEPT ![t] = [tab[t] EXCEPT !.phase = p, !.lead = k, !.reply = r]]
  BY <1>1 DEF TypeOK
<1> QED BY <1>2, <1>3, <1>4, <1>5, PutTab

\* The page, the profile and the bootstrap flag of a tab.
LEMMA PutView ==
  ASSUME NEW f \in [Tabs -> Tab], NEW t \in Tabs, NEW p \in {"login", "app"},
         NEW u \in BOOLEAN, NEW b \in BOOLEAN
  PROVE  /\ [f EXCEPT ![t].boot = b, ![t].user = u] \in [Tabs -> Tab]
         /\ [f EXCEPT ![t].user = u, ![t].boot = b] \in [Tabs -> Tab]
         /\ [f EXCEPT ![t].user = u, ![t].page = p] \in [Tabs -> Tab]
<1>1. f[t] \in Tab
  OBVIOUS
<1>2. /\ [f[t] EXCEPT !.boot = b, !.user = u] \in Tab
      /\ [f[t] EXCEPT !.user = u, !.boot = b] \in Tab
      /\ [f[t] EXCEPT !.user = u, !.page = p] \in Tab
  BY <1>1 DEF Tab
<1>3. [f EXCEPT ![t].boot = b, ![t].user = u]
        = [f EXCEPT ![t] = [f[t] EXCEPT !.boot = b, !.user = u]]
  BY <1>1
<1>4. [f EXCEPT ![t].user = u, ![t].boot = b]
        = [f EXCEPT ![t] = [f[t] EXCEPT !.user = u, !.boot = b]]
  BY <1>1
<1>5. [f EXCEPT ![t].user = u, ![t].page = p]
        = [f EXCEPT ![t] = [f[t] EXCEPT !.user = u, !.page = p]]
  BY <1>1
<1> QED BY <1>2, <1>3, <1>4, <1>5

\* A tab that changes its page is a tab.
LEMMA PutPage ==
  ASSUME NEW f \in [Tabs -> Tab], NEW t \in Tabs
  PROVE  [f EXCEPT ![t].page = "login"] \in [Tabs -> Tab]
<1>1. f[t] \in Tab
  OBVIOUS
<1>2. [f[t] EXCEPT !.page = "login"] \in Tab
  BY <1>1 DEF Tab
<1> QED BY <1>2

LEMMA TypeStep == TypeOK /\ [Next]_vars => TypeOK'
<1> SUFFICES ASSUME TypeOK, [Next]_vars PROVE TypeOK'
  OBVIOUS
<1> USE SessionAssumption, Shapes DEF TypeOK
<1>l. ASSUME NEW t \in Tabs, Leave(t) PROVE left' \subseteq Maybe
  <2>1. tab[t].lead \in Maybe
    BY DEF Tab
  <2> QED BY <1>l, <2>1 DEF Leave
<1>1. ASSUME NEW t \in Tabs, NEW page \in Landings, Load(t, page) PROVE TypeOK'
  <2>1. [Fresh(page) EXCEPT !.boot = (store.access # 0),
                            !.user = (store.access # 0 /\ store.profile)] \in Tab
    BY DEF Fresh, Tab, Maybe, Store
  <2>2. [c \in Request |-> IF c = Bootstrap /\ store.access # 0 THEN Sent(store.access) ELSE Idle]
          \in [Request -> Call]
    BY DEF Store
  <2> QED BY <1>1, <1>l, <2>1, <2>2 DEF Load
<1>2. ASSUME NEW t \in Tabs, Guard(t) PROVE TypeOK'
  <2>1. [tab EXCEPT ![t].page = "login"] \in [Tabs -> Tab]
    BY PutPage
  <2> QED BY <1>2, <2>1 DEF Guard
<1>3. ASSUME NEW t \in Tabs, SignIn(t) PROVE TypeOK'
  <2>1. issued + 1 \in Token /\ issued + 1 \in Maybe
    BY <1>3 DEF SignIn, Token, Maybe
  <2>2. SetTokens(issued + 1) \in Store
    BY <2>1 DEF SetTokens, Store
  <2>3. [call EXCEPT ![t][Adopt] = Sent(issued + 1)] \in [Tabs -> [Request -> Call]]
    BY <2>1, PutCall DEF Request, Profiles
  <2> QED BY <1>3, <2>1, <2>2, <2>3 DEF SignIn
<1>4. ASSUME NEW t \in Tabs, WrongPassword(t) PROVE TypeOK'
  BY <1>4 DEF WrongPassword
<1>5. ASSUME NEW t \in Tabs, Logout(t) PROVE TypeOK'
  <2>1. [c \in Request |-> Idle] \in [Request -> Call]
    OBVIOUS
  <2> QED BY <1>5, <1>l, <2>1 DEF Logout
<1>6. ASSUME NEW t \in Tabs, NEW c \in Calls, Start(t, c) PROVE TypeOK'
  <2>1. c \in Request /\ store.access \in Maybe
    BY DEF Request, Store
  <2>2. [call EXCEPT ![t][c] = Sent(store.access)] \in [Tabs -> [Request -> Call]]
    BY <2>1, PutCall
  <2> QED BY <1>6, <2>2 DEF Start
<1>7. ASSUME NEW t \in Tabs, NEW c \in Request, Reject(t, c, TRUE) \/ Reject(t, c, FALSE) PROVE TypeOK'
  <2>1. [tab[t] EXCEPT !.user = FALSE, !.boot = FALSE] \in Tab
    BY DEF Tab
  <2>2. [tab EXCEPT ![t].user = FALSE, ![t].boot = FALSE] \in [Tabs -> Tab]
    BY <2>1
  <2>3. [call EXCEPT ![t][c] = Idle] \in [Tabs -> [Request -> Call]]
    BY PutCall
  <2> QED BY <1>7, <2>2, <2>3 DEF Reject
<1>8. ASSUME NEW t \in Tabs, NEW c \in Request, Settle(t, c) PROVE TypeOK'
  <2>1. CASE Serve(t, c)
    <3>1. [call EXCEPT ![t][c].st = "ok"] \in [Tabs -> [Request -> Call]]
      BY PutState DEF CallState
    <3>2. [call EXCEPT ![t][c].st = "denied"] \in [Tabs -> [Request -> Call]]
      BY PutState DEF CallState
    <3>3. [call EXCEPT ![t][c] = Idle] \in [Tabs -> [Request -> Call]]
      BY PutCall
    <3> QED BY <2>1, <3>1, <3>2, <3>3 DEF Serve
  <2>3. CASE Profile(t, c)
    <3>2. [call EXCEPT ![t][c] = Idle] \in [Tabs -> [Request -> Call]]
      BY PutCall
    <3>3. [store EXCEPT !.profile = TRUE] \in Store
      BY DEF Store
    <3>4. tab' \in [Tabs -> Tab]
      BY <2>3, PutView DEF Profile
    <3> QED BY <2>3, <3>2, <3>3, <3>4 DEF Profile
  <2>4. CASE Denied(t, c)
    <3>1. CASE Reject(t, c, TRUE) \/ Reject(t, c, FALSE)
      BY <3>1, <1>7
    <3>2. [call EXCEPT ![t][c].st = "queued"] \in [Tabs -> [Request -> Call]]
      BY PutState DEF CallState
    <3>3. [call EXCEPT ![t][c].st = "leading", ![t][c].retried = TRUE]
            \in [Tabs -> [Request -> Call]]
      BY PutState DEF CallState
    <3>4. [tab EXCEPT ![t].phase = "posted", ![t].lead = store.refresh] \in [Tabs -> Tab]
      BY PutPhase DEF Store, Phase
    <3> QED BY <2>4, <3>1, <3>2, <3>3, <3>4 DEF Denied
  <2> QED BY <1>8, <2>1, <2>3, <2>4 DEF Settle
<1>9. ASSUME NEW t \in Tabs, Lookup(t) \/ Exchange(t) PROVE TypeOK'
  <2>1. issued < MaxTokens => issued + 1 \in Token /\ issued + 1 \in Maybe
    BY DEF Token, Maybe
  <2>2. [tab EXCEPT ![t].phase = "refused"] \in [Tabs -> Tab]
    BY DEF Tab
  <2>3. issued < MaxTokens =>
          [tab EXCEPT ![t].phase = "renewed", ![t].reply = issued + 1] \in [Tabs -> Tab]
    BY <2>1 DEF Tab
  <2>4. [tab EXCEPT ![t].phase = "found"] \in [Tabs -> Tab]
    BY DEF Tab
  <2>5. CASE Lookup(t)
    BY <2>5, <2>2, <2>4 DEF Lookup
  <2>6. CASE Exchange(t)
    BY <2>6, <2>1, <2>2, <2>3 DEF Exchange
  <2> QED BY <1>9, <2>5, <2>6
<1>10. ASSUME NEW t \in Tabs, Renewed(t) PROVE TypeOK'
  <2>1. SetTokens(tab[t].reply) \in Store
    BY DEF SetTokens, Store, Tab
  <2>2. Ended(t) \in [Tabs -> Tab]
    <3>1. 0 \in Maybe /\ "none" \in Phase
      BY DEF Maybe, Phase
    <3> QED BY <3>1, PutPhase DEF Ended
  <2>3. [c \in Request |-> IF Waiting(t, c)
                           THEN [call[t][c] EXCEPT !.st = "sent", !.tok = store'.access]
                           ELSE call[t][c]] \in [Request -> Call]
    <3>1. store'.access \in Maybe
      BY <1>10, <2>1 DEF Renewed, Store
    <3>2. ASSUME NEW c \in Request
          PROVE  [call[t][c] EXCEPT !.st = "sent", !.tok = store'.access] \in Call
      <4>1. call[t][c] \in Call
        OBVIOUS
      <4> HIDE DEF TypeOK
      <4> QED BY <3>1, <4>1 DEF Call, CallState
    <3> QED BY <3>2
  <2> QED BY <1>10, <2>1, <2>2, <2>3 DEF Renewed
<1>11. ASSUME NEW t \in Tabs, Refused(t) PROVE TypeOK'
  <2>1. Ended(t) \in [Tabs -> Tab]
    <3>1. 0 \in Maybe /\ "none" \in Phase
      BY DEF Maybe, Phase
    <3> QED BY <3>1, PutPhase DEF Ended
  <2>2. [c \in Request |-> IF tab[t].page = "app" \/ Waiting(t, c) THEN Idle ELSE call[t][c]]
          \in [Request -> Call]
    OBVIOUS
  <2>3. [Ended(t) EXCEPT ![t].boot = FALSE, ![t].user = FALSE] \in [Tabs -> Tab]
    BY <2>1, PutView
  <2>4. tab' \in [Tabs -> Tab]
    BY <1>11, <2>1, <2>3 DEF Refused
  <2>5. call' \in [Tabs -> [Request -> Call]]
    BY <1>11, <2>2 DEF Refused
  <2> QED BY <1>11, <2>4, <2>5 DEF Refused
<1>12. CASE Expire \/ Age \/ Cleanup \/ \E k \in left : Orphan(k)
  <2>1. \A k \in Maybe : k < issued => k + 1 \in Maybe
    BY DEF Maybe
  <2>2. CASE Expire
    BY <2>1, <2>2 DEF Expire
  <2>3. CASE Age
    BY <2>1, <2>3 DEF Age
  <2>4. CASE Cleanup \/ \E k \in left : Orphan(k)
    BY <2>4 DEF Cleanup, Orphan
  <2> QED BY <1>12, <2>2, <2>3, <2>4
<1>13. CASE UNCHANGED vars
  BY <1>13 DEF vars
<1> QED BY <1>1, <1>2, <1>3, <1>4, <1>5, <1>6, <1>7, <1>8, <1>9, <1>10, <1>11, <1>12, <1>13
        DEF Next, Renew, Fail

\* Every variable of the session stays within its type, however many tabs race.
THEOREM TypesHold == Spec => []TypeOK
<1>1. Init => TypeOK
  BY InitInv DEF TokensInv
<1> QED BY <1>1, TypeStep, PTL DEF Spec

-----------------------------------------------------------------------------
(* Tokens.                                                                 *)

\* A step that issues nothing and hands no token on that was not stored or held;
\* rows go by age, or by an exchange.
LEMMA QuietStep ==
  ASSUME TokensInv, issued' = issued, expired' \in 0..issued, aged' \in aged..issued,
         live' \subseteq live,
         \A k \in live \ live' : k <= aged \/ k \in left \/ \E u \in Tabs : tab[u].lead = k,
         \A k \in left' : k \in left \/ \E u \in Tabs : tab[u].lead = k,
         store'.access \in {store.access, 0}, store'.refresh \in {store.refresh, 0},
         \A u \in Tabs : /\ tab'[u].lead \in {tab[u].lead, store.refresh, 0}
                         /\ \/ tab'[u].phase = tab[u].phase /\ tab'[u].reply = tab[u].reply
                            \/ tab'[u].phase # "renewed" /\ tab'[u].reply = 0,
         \A u \in Tabs, d \in Request : call'[u][d].tok \in {call[u][d].tok, store.access, 0}
  PROVE  Issued' /\ Private'
<1> USE SessionAssumption DEF TokensInv, TypeOK
<1>2. 0 <= issued /\ aged \in Nat /\ issued \in Nat
  BY DEF Maybe
<1>l. \A u \in Tabs : tab[u].lead \in 0..issued
  <2>1. \A u \in Tabs : tab[u].lead \in Nat
    BY DEF Tab, Maybe
  <2> QED BY <1>2, <2>1 DEF Issued
<1>3. Issued'
  <2>1. live' \subseteq 1..issued' /\ expired' <= issued' /\ aged' <= issued'
    BY <1>2 DEF Issued
  <2>2. left' \subseteq 0..issued'
    <3>1. left \subseteq 0..issued
      BY DEF Issued
    <3>2. ASSUME NEW k \in left' PROVE k \in 0..issued
      <4>1. k \in left \/ \E u \in Tabs : tab[u].lead = k
        OBVIOUS
      <4> QED BY <1>l, <3>1, <4>1
    <3>3. 0..issued' = 0..issued
      OBVIOUS
    <3> QED BY <3>2, <3>3
  <2>3. store'.access <= issued' /\ store'.refresh <= issued'
    BY <1>2 DEF Issued
  <2>4. ASSUME NEW t \in Tabs PROVE tab'[t].lead <= issued' /\ tab'[t].reply <= issued'
    BY <1>2 DEF Issued
  <2>5. \A t \in Tabs, c \in Request : call'[t][c].tok <= issued'
    BY <1>2 DEF Issued
  <2> QED BY <2>1, <2>2, <2>3, <2>4, <2>5 DEF Issued
<1>4. ASSUME NEW u \in Tabs, tab'[u].phase = "renewed"
      PROVE  /\ tab[u].phase = "renewed" /\ tab'[u].reply = tab[u].reply /\ tab[u].reply # 0
  BY <1>4 DEF Private
<1>5. ASSUME NEW u \in Tabs, NEW v \in Tabs \ {u}, tab'[u].phase = "renewed"
      PROVE  tab'[v].reply # tab'[u].reply
  BY <1>4, <1>5 DEF Private
<1>6. ASSUME NEW u \in Tabs, tab'[u].phase = "renewed"
      PROVE  /\ tab'[u].reply # 0 /\ tab'[u].reply \notin left'
             /\ tab'[u].reply \in live' \/ tab'[u].reply <= aged'
             /\ store'.access # tab'[u].reply /\ store'.refresh # tab'[u].reply
             /\ \A v \in Tabs : tab'[v].lead # tab'[u].reply
             /\ \A v \in Tabs, c \in Request : call'[v][c].tok # tab'[u].reply
  <2>1. /\ tab[u].reply \notin left
        /\ tab[u].reply \in live \/ tab[u].reply <= aged
        /\ store.access # tab[u].reply /\ store.refresh # tab[u].reply
        /\ \A v \in Tabs : tab[v].lead # tab[u].reply
        /\ \A v \in Tabs, c \in Request : call[v][c].tok # tab[u].reply
    BY <1>4, <1>6 DEF Private
  <2>2. tab'[u].reply = tab[u].reply /\ tab[u].reply # 0
    BY <1>4, <1>6
  <2>3. tab[u].reply \in live' \/ tab[u].reply <= aged
    BY <2>1
  <2>4. tab[u].reply \in Nat /\ aged \in Nat /\ aged' \in Nat /\ aged <= aged'
    BY <1>2 DEF Tab, Maybe
  <2>5. tab[u].reply \in live' \/ tab[u].reply <= aged'
    BY <2>3, <2>4
  <2>6. tab[u].reply \notin left'
    BY <2>1
  <2>7. store'.access # tab[u].reply /\ store'.refresh # tab[u].reply
    BY <2>1, <2>2
  <2>8. \A v \in Tabs : tab'[v].lead # tab[u].reply
    BY <2>1, <2>2
  <2>9. \A v \in Tabs, c \in Request : call'[v][c].tok # tab[u].reply
    BY <2>1, <2>2
  <2> QED BY <2>2, <2>5, <2>6, <2>7, <2>8, <2>9
<1>7. ASSUME NEW u \in Tabs, tab'[u].phase # "renewed"
      PROVE  tab'[u].reply = 0
  BY <1>7 DEF Private
<1>8. Private'
  BY <1>5, <1>6, <1>7 DEF Private
<1> QED BY <1>3, <1>8

LEMMA RejectQuiet ==
  ASSUME TokensInv, NEW t \in Tabs, NEW c \in Request, NEW gone \in BOOLEAN, Reject(t, c, gone)
  PROVE  Issued' /\ Private'
<1>1. store'.access \in {store.access, 0} /\ store'.refresh \in {store.refresh, 0}
  BY DEF Reject, Cleared
<1>2. \A u \in Tabs : /\ tab'[u].lead = tab[u].lead
                      /\ tab'[u].phase = tab[u].phase /\ tab'[u].reply = tab[u].reply
  BY DEF Reject, Tab, TokensInv, TypeOK
<1>3. \A u \in Tabs, d \in Request : call'[u][d].tok \in {call[u][d].tok, 0}
  BY DEF Reject, Idle, Call, TokensInv, TypeOK
<1>4. /\ live' = live /\ left' = left /\ issued' = issued
      /\ expired' \in 0..issued /\ aged' \in aged..issued
  BY SessionAssumption DEF Reject, TokensInv, TypeOK, Issued, Maybe
<1> QED BY <1>1, <1>2, <1>3, <1>4, QuietStep

LEMMA TokensStep == TokensInv /\ [Next]_vars => Issued' /\ Private'
<1> SUFFICES ASSUME TokensInv, [Next]_vars PROVE Issued' /\ Private'
  OBVIOUS
<1>e. expired \in 0..issued /\ issued \in Nat /\ aged \in 0..issued /\ aged \in aged..issued
  BY SessionAssumption DEF TokensInv, TypeOK, Issued, Maybe
<1>t. tab \in [Tabs -> Tab] /\ call \in [Tabs -> [Request -> Call]] /\ store \in Store
  BY DEF TokensInv, TypeOK
<1>1. ASSUME NEW t \in Tabs, NEW page \in Landings, Load(t, page) PROVE Issued' /\ Private'
  <2>1. \A u \in Tabs : \/ tab'[u] = tab[u]
                        \/ tab'[u].lead = 0 /\ tab'[u].reply = 0 /\ tab'[u].phase = "none"
    BY <1>1, <1>t DEF Load, Fresh
  <2>2. \A u \in Tabs, d \in Request : call'[u][d].tok \in {call[u][d].tok, store.access, 0}
    BY <1>1, <1>t DEF Load, Sent, Idle
  <2> QED BY <1>1, <1>e, <2>1, <2>2, QuietStep DEF Load, Leave
<1>2. ASSUME NEW t \in Tabs, Guard(t) PROVE Issued' /\ Private'
  <2>1. \A u \in Tabs : /\ tab'[u].lead = tab[u].lead
                        /\ tab'[u].phase = tab[u].phase /\ tab'[u].reply = tab[u].reply
    BY <1>2, <1>t DEF Guard, Tab
  <2> QED BY <1>2, <1>e, <2>1, QuietStep DEF Guard
<1>3. ASSUME NEW t \in Tabs, SignIn(t) PROVE Issued' /\ Private'
  <2>1. store'.access = issued + 1 /\ store'.refresh = issued + 1
    BY <1>3, <1>t DEF SignIn, SetTokens, Store
  <2>2. \A u \in Tabs, d \in Request : call'[u][d].tok \in {call[u][d].tok, issued + 1}
    BY <1>3, <1>t DEF SignIn, Sent
  <2>3. \A u \in Tabs : tab[u].reply <= issued /\ tab[u].reply \in Nat /\ tab[u].lead \in Nat
    BY <1>t, SessionAssumption DEF TokensInv, Issued, Tab, Maybe
  <2>4. \A u \in Tabs, d \in Request : call[u][d].tok \in Nat
    BY <1>t, SessionAssumption DEF Call, Maybe
  <2>5. Issued'
    BY <1>3, <1>e, <1>t, <2>1, <2>2, <2>3, <2>4 DEF SignIn, TokensInv, Issued
  <2>6. Private'
    BY <1>3, <1>e, <2>1, <2>2, <2>3 DEF SignIn, TokensInv, Private
  <2> QED BY <2>5, <2>6
<1>4. ASSUME NEW t \in Tabs, WrongPassword(t) PROVE Issued' /\ Private'
  BY <1>4, <1>e, QuietStep DEF WrongPassword, Cleared, TokensInv, Private
<1>5. ASSUME NEW t \in Tabs, Logout(t) PROVE Issued' /\ Private'
  <2>1. \A u \in Tabs : \/ tab'[u] = tab[u]
                        \/ tab'[u].lead = 0 /\ tab'[u].reply = 0 /\ tab'[u].phase = "none"
    BY <1>5, <1>t DEF Logout, Fresh
  <2>2. \A u \in Tabs, d \in Request : call'[u][d].tok \in {call[u][d].tok, 0}
    BY <1>5, <1>t DEF Logout, Idle
  <2> QED BY <1>5, <1>e, <2>1, <2>2, QuietStep DEF Logout, Leave, Cleared
<1>6. ASSUME NEW t \in Tabs, NEW c \in Calls, Start(t, c) PROVE Issued' /\ Private'
  <2>1. \A u \in Tabs, d \in Request : call'[u][d].tok \in {call[u][d].tok, store.access}
    BY <1>6, <1>t DEF Start, Sent
  <2> QED BY <1>6, <1>e, <2>1, QuietStep DEF Start
<1>7. ASSUME NEW t \in Tabs, NEW c \in Request, Fail(t, c) PROVE Issued' /\ Private'
  BY <1>7, RejectQuiet DEF Fail
<1>8. ASSUME NEW t \in Tabs, NEW c \in Request, Settle(t, c) PROVE Issued' /\ Private'
  <2>1. CASE Serve(t, c)
    <3>1. \A u \in Tabs, d \in Request : call'[u][d].tok \in {call[u][d].tok, 0}
      <4>1. \A s \in CallState : call' = [call EXCEPT ![t][c].st = s] =>
              \A u \in Tabs, d \in Request : call'[u][d].tok = call[u][d].tok
        BY <1>t DEF Call
      <4>2. call' = [call EXCEPT ![t][c] = Idle] =>
              \A u \in Tabs, d \in Request : call'[u][d].tok \in {call[u][d].tok, 0}
        BY <1>t DEF Idle
      <4> QED BY <2>1, <4>1, <4>2 DEF Serve, CallState
    <3> QED BY <2>1, <1>e, <3>1, QuietStep DEF Serve
  <2>3. CASE Profile(t, c)
    <3>1. \A u \in Tabs, d \in Request : call'[u][d].tok \in {call[u][d].tok, 0}
      BY <2>3, <1>t DEF Profile, Idle
    <3>2. \A u \in Tabs : /\ tab'[u].lead = tab[u].lead
                          /\ tab'[u].phase = tab[u].phase /\ tab'[u].reply = tab[u].reply
      BY <2>3, <1>t DEF Profile, Tab
    <3>3. store'.access = store.access /\ store'.refresh = store.refresh
      BY <2>3, <1>t DEF Profile, Store
    <3> QED BY <2>3, <1>e, <3>1, <3>2, <3>3, QuietStep DEF Profile
  <2>4. CASE Denied(t, c)
    <3>1. CASE Reject(t, c, FALSE) \/ Reject(t, c, TRUE)
      BY <3>1, RejectQuiet
    <3>2. CASE /\ call' = [call EXCEPT ![t][c].st = "queued"]
               /\ UNCHANGED <<store, live, expired, aged, left, issued, tab>>
      <4>1. \A u \in Tabs, d \in Request : call'[u][d].tok = call[u][d].tok
        BY <3>2, <1>t DEF Call
      <4> QED BY <3>2, <1>e, <4>1, QuietStep
    <3>3. CASE /\ call' = [call EXCEPT ![t][c].st = "leading", ![t][c].retried = TRUE]
               /\ tab' = [tab EXCEPT ![t].phase = "posted", ![t].lead = store.refresh]
               /\ tab[t].phase = "none"
               /\ UNCHANGED <<store, live, expired, aged, left, issued>>
      <4>1. \A u \in Tabs, d \in Request : call'[u][d].tok = call[u][d].tok
        BY <3>3, <1>t DEF Call
      <4>2. tab[t].reply = 0
        BY <3>3 DEF TokensInv, Private
      <4>3. \A u \in Tabs : /\ tab'[u].lead \in {tab[u].lead, store.refresh}
                            /\ tab'[u].reply = tab[u].reply
                            /\ tab'[u].phase = IF u = t THEN "posted" ELSE tab[u].phase
        BY <3>3, <1>t DEF Tab
      <4>4. \A u \in Tabs : \/ tab'[u].phase = tab[u].phase /\ tab'[u].reply = tab[u].reply
                            \/ tab'[u].phase # "renewed" /\ tab'[u].reply = 0
        BY <4>2, <4>3
      <4> QED BY <3>3, <1>e, <4>1, <4>3, <4>4, QuietStep
    <3> QED BY <2>4, <3>1, <3>2, <3>3 DEF Denied
  <2> QED BY <1>8, <2>1, <2>3, <2>4 DEF Settle
<1>l. ASSUME NEW t \in Tabs, Lookup(t) PROVE Issued' /\ Private'
  <2>0. tab[t].reply = 0 /\ tab[t].phase = "posted"
    BY <1>l DEF Lookup, TokensInv, Private
  <2>1. \A u \in Tabs : /\ tab'[u].lead = tab[u].lead /\ tab'[u].reply = tab[u].reply
                        /\ tab'[u].phase = tab[u].phase \/ (u = t /\ tab'[u].phase # "renewed")
    BY <1>l, <1>t DEF Lookup, Tab
  <2>2. live' \subseteq live /\ \A k \in live \ live' : tab[t].lead = k
    BY <1>l DEF Lookup
  <2>3. UNCHANGED <<store, expired, aged, left, issued, call>>
    BY <1>l DEF Lookup
  <2> QED BY <1>e, <2>0, <2>1, <2>2, <2>3, QuietStep
<1>9. ASSUME NEW t \in Tabs, Exchange(t) PROVE Issued' /\ Private'
  <2>0. tab[t].reply = 0
    BY <1>9 DEF Exchange, TokensInv, Private
  <2>1. CASE /\ tab' = [tab EXCEPT ![t].phase = "refused"] /\ issued' = issued
             /\ live' \in {live, live \ {tab[t].lead}}
    <3>1. \A u \in Tabs : /\ tab'[u].lead = tab[u].lead /\ tab'[u].reply = tab[u].reply
                          /\ tab'[u].phase = IF u = t THEN "refused" ELSE tab[u].phase
      BY <2>1, <1>t DEF Tab
    <3> QED BY <1>9, <2>0, <2>1, <1>e, <3>1, QuietStep DEF Exchange
  <2>2. CASE /\ issued' = issued + 1 /\ live' = (live \ {tab[t].lead}) \cup {issued + 1}
             /\ tab' = [tab EXCEPT ![t].phase = "renewed", ![t].reply = issued + 1]
    <3>1. \A u \in Tabs : tab'[u].lead = tab[u].lead
      BY <2>2, <1>t DEF Tab
    <3>2. \A u \in Tabs \ {t} : tab'[u].phase = tab[u].phase /\ tab'[u].reply = tab[u].reply
      BY <2>2, <1>t DEF Tab
    <3>3. tab'[t].phase = "renewed" /\ tab'[t].reply = issued + 1
      BY <2>2, <1>t DEF Tab
    <3>4. \A u \in Tabs : tab[u].reply \in 0..issued /\ tab[u].lead \in 0..issued
      BY <1>t, SessionAssumption DEF TokensInv, Issued, Tab, Maybe
    <3>5. \A u \in Tabs, d \in Request : call[u][d].tok \in 0..issued
      BY <1>t, SessionAssumption DEF TokensInv, Issued, Call, Maybe
    <3>6. store.access \in 0..issued /\ store.refresh \in 0..issued
      BY <1>t, SessionAssumption DEF TokensInv, Issued, Store, Maybe
    <3>7. UNCHANGED <<store, expired, aged, left, call>>
      BY <1>9 DEF Exchange
    <3>f. left \subseteq 0..issued
      BY DEF TokensInv, Issued
    <3>8. Issued'
      <4>1. live' \subseteq 1..issued' /\ left' \subseteq 0..issued'
        BY <1>e, <2>2, <3>7, <3>f DEF Issued, TokensInv
      <4>2. \A k \in 0..issued : k <= issued'
        BY <1>e, <2>2
      <4>3. issued + 1 <= issued'
        BY <1>e, <2>2
      <4>4. \A u \in Tabs : tab'[u].lead <= issued' /\ tab'[u].reply <= issued'
        BY <3>1, <3>2, <3>3, <3>4, <4>2, <4>3
      <4>5. /\ expired' <= issued' /\ aged' <= issued'
            /\ store'.access <= issued' /\ store'.refresh <= issued'
        BY <1>e, <3>6, <3>7, <4>2
      <4>6. \A u \in Tabs, d \in Request : call'[u][d].tok <= issued'
        BY <3>5, <3>7, <4>2
      <4> QED BY <4>1, <4>4, <4>5, <4>6 DEF Issued
    <3>9. ASSUME NEW u \in Tabs, tab'[u].phase = "renewed"
          PROVE  /\ tab'[u].reply # 0 /\ tab'[u].reply \notin left'
                 /\ tab'[u].reply \in live' \/ tab'[u].reply <= aged'
                 /\ store'.access # tab'[u].reply /\ store'.refresh # tab'[u].reply
                 /\ \A v \in Tabs : tab'[v].lead # tab'[u].reply
                 /\ \A v \in Tabs, c \in Request : call'[v][c].tok # tab'[u].reply
      <4>1. CASE u = t
        <5>1. issued + 1 # 0 /\ issued + 1 \notin 0..issued
          BY <1>e
        <5>2. tab'[u].reply = issued + 1 /\ issued + 1 \in live'
          BY <4>1, <2>2, <3>3
        <5>3. \A v \in Tabs : tab'[v].lead \in 0..issued
          BY <3>1, <3>4
        <5>4. \A v \in Tabs, c \in Request : call'[v][c].tok \in 0..issued
          BY <3>5, <3>7
        <5>5. store'.access \in 0..issued /\ store'.refresh \in 0..issued /\ left' \subseteq 0..issued
          BY <3>6, <3>7, <3>f
        <5> HIDE DEF TokensInv
        <5> QED BY <5>1, <5>2, <5>3, <5>4, <5>5
      <4>2. CASE u # t
        <5>1. tab[u].phase = "renewed" /\ tab'[u].reply = tab[u].reply
          BY <4>2, <3>9, <3>2
        <5>2. /\ tab[u].reply # 0 /\ tab[u].reply \notin left
              /\ tab[u].reply \in live \/ tab[u].reply <= aged
              /\ store.access # tab[u].reply /\ store.refresh # tab[u].reply
              /\ \A v \in Tabs : tab[v].lead # tab[u].reply
              /\ \A v \in Tabs, c \in Request : call[v][c].tok # tab[u].reply
          BY <5>1 DEF TokensInv, Private
        <5>3. tab[u].reply \in live' \/ tab[u].reply <= aged
          BY <5>2, <2>2
        <5> QED BY <5>1, <5>2, <5>3, <3>1, <3>7
      <4> QED BY <4>1, <4>2
    <3>10. ASSUME NEW u \in Tabs, NEW v \in Tabs \ {u}, tab'[u].phase = "renewed"
           PROVE  tab'[v].reply # tab'[u].reply
      <4>1. CASE u = t
        BY <4>1, <3>10, <1>e, <3>2, <3>3, <3>4
      <4>2. CASE u # t
        <5>1. /\ tab[u].phase = "renewed" /\ tab'[u].reply = tab[u].reply
              /\ tab[u].reply \in 0..issued
          BY <4>2, <3>10, <3>2, <3>4
        <5>3. tab'[t].reply # tab[u].reply
          BY <3>3, <5>1, <1>e
        <5>4. v # t => tab'[v].reply = tab[v].reply /\ tab[v].reply # tab[u].reply
          BY <3>2, <3>10, <5>1 DEF TokensInv, Private
        <5> QED BY <5>1, <5>3, <5>4
      <4> QED BY <4>1, <4>2
    <3>11. ASSUME NEW u \in Tabs, tab'[u].phase # "renewed" PROVE tab'[u].reply = 0
      BY <3>11, <3>2, <3>3 DEF TokensInv, Private
    <3>12. Private'
      BY <3>9, <3>10, <3>11 DEF Private
    <3> QED BY <3>8, <3>12
  <2> QED BY <1>9, <2>1, <2>2 DEF Exchange
<1>10. ASSUME NEW t \in Tabs, Renewed(t) PROVE Issued' /\ Private'
  <2>1. store'.access = tab[t].reply /\ store'.refresh = tab[t].reply
    BY <1>10, <1>t DEF Renewed, SetTokens, Store
  <2>2. \A u \in Tabs, d \in Request : call'[u][d].tok \in {call[u][d].tok, tab[t].reply}
    <3>1. ASSUME NEW d \in Request
          PROVE  [call[t][d] EXCEPT !.st = "sent", !.tok = store'.access].tok = tab[t].reply
      <4>1. call[t][d] \in Call
        BY <1>t
      <4> QED BY <2>1, <4>1 DEF Call
    <3>2. \A d \in Request : call'[t][d].tok \in {call[t][d].tok, tab[t].reply}
      <4>1. \A d \in Request :
              call'[t][d] = IF Waiting(t, d)
                            THEN [call[t][d] EXCEPT !.st = "sent", !.tok = store'.access]
                            ELSE call[t][d]
        BY <1>10, <1>t DEF Renewed
      <4> QED BY <3>1, <4>1
    <3>3. \A u \in Tabs \ {t} : call'[u] = call[u]
      BY <1>10, <1>t DEF Renewed
    <3> QED BY <3>2, <3>3
  <2>3. \A u \in Tabs \ {t} : tab'[u] = tab[u]
    BY <1>10, <1>t DEF Renewed, Ended
  <2>4. tab'[t].phase = "none" /\ tab'[t].lead = 0 /\ tab'[t].reply = 0
    BY <1>10, <1>t DEF Renewed, Ended, Tab
  <2>5. UNCHANGED <<live, issued, expired, aged, left>>
    BY <1>10 DEF Renewed
  <2>6. Issued'
    BY <1>e, <2>1, <2>2, <2>3, <2>4, <2>5 DEF Issued, TokensInv
  <2>7. \A u \in Tabs : tab[u].phase = "renewed" => tab[u].reply # 0
    BY DEF TokensInv, Private
  <2>8. Private'
    BY <2>1, <2>2, <2>3, <2>4, <2>5, <2>7 DEF Private, TokensInv
  <2> QED BY <2>6, <2>8
<1>11. ASSUME NEW t \in Tabs, Refused(t) PROVE Issued' /\ Private'
  <2>1. \A u \in Tabs \ {t} : tab'[u] = tab[u]
    BY <1>11, <1>t DEF Refused, Ended
  <2>2. tab'[t].phase = "none" /\ tab'[t].lead = 0 /\ tab'[t].reply = 0
    BY <1>11, <1>t DEF Refused, Ended, Fresh, Tab
  <2>3. \A u \in Tabs, d \in Request : call'[u][d].tok \in {call[u][d].tok, 0}
    BY <1>11, <1>t DEF Refused, Idle
  <2> QED BY <1>11, <1>e, <2>1, <2>2, <2>3, QuietStep DEF Refused, Cleared
<1>12. CASE Expire \/ Age
  BY <1>12, <1>e, QuietStep DEF Expire, Age, TokensInv, Private
<1>13. CASE UNCHANGED vars
  BY <1>13, <1>e, QuietStep DEF vars, TokensInv, Private
<1>14. CASE Cleanup \/ \E k \in left : Orphan(k)
  BY <1>14, <1>e, QuietStep DEF Cleanup, Orphan, TokensInv, Private
<1> QED BY <1>1, <1>2, <1>3, <1>4, <1>5, <1>6, <1>7, <1>8, <1>l, <1>9, <1>14, <1>10, <1>11, <1>12, <1>13
        DEF Next, Renew

LEMMA TokensHold == Spec => []TokensInv
<1>1. Init => TokensInv
  BY InitInv
<1>2. TokensInv /\ [Next]_vars => TokensInv'
  BY TypeStep, TokensStep DEF TokensInv
<1> QED BY <1>1, <1>2, PTL DEF Spec

-----------------------------------------------------------------------------
(* What the interceptor owes to the calls that wait for new tokens.        *)

\* Only Denied makes a call wait; every other step leaves the calls of a tab
\* waiting as they were, or ends the exchange together with all of them.
LEMMA WaitersStep == TypeOK /\ WaitersHaveALeader /\ [Next]_vars => WaitersHaveALeader'
<1> SUFFICES ASSUME TypeOK, WaitersHaveALeader, [Next]_vars PROVE WaitersHaveALeader'
  OBVIOUS
<1>t. tab \in [Tabs -> Tab] /\ call \in [Tabs -> [Request -> Call]]
  BY DEF TypeOK
<1> DEFINE Lead(c)   == c = "leading"
           Waits(s)  == s \in {"leading", "queued"}
           Fine(t)   == /\ \A c \in Request : Waits(call'[t][c].st) => tab'[t].phase # "none"
                        /\ tab'[t].phase # "none" => \E c \in Request : Lead(call'[t][c].st)
                        /\ \A c, d \in Request :
                             Lead(call'[t][c].st) /\ Lead(call'[t][d].st) => c = d
<1>q. SUFFICES ASSUME NEW t \in Tabs PROVE Fine(t)
  BY DEF WaitersHaveALeader, Waiting
<1>h. /\ \A c \in Request : Waits(call[t][c].st) => tab[t].phase # "none"
      /\ tab[t].phase # "none" => \E c \in Request : Lead(call[t][c].st)
      /\ \A c, d \in Request : Lead(call[t][c].st) /\ Lead(call[t][d].st) => c = d
  BY DEF WaitersHaveALeader, Waiting
<1>k. ASSUME \/ tab'[t].phase = tab[t].phase
             \/ tab'[t].phase # "none" /\ tab[t].phase # "none",
             \A c \in Request : \/ call'[t][c].st = call[t][c].st
                                \/ ~Waits(call[t][c].st) /\ ~Waits(call'[t][c].st)
      PROVE  Fine(t)
  BY <1>h, <1>k
<1>z. ASSUME tab'[t].phase = "none", \A c \in Request : ~Waits(call'[t][c].st)
      PROVE  Fine(t)
  BY <1>z
<1>s. ASSUME UNCHANGED <<tab, call>> PROVE Fine(t)
  BY <1>s, <1>h
<1> HIDE DEF Fine
<1>1. ASSUME NEW u \in Tabs, NEW page \in Landings, Load(u, page) PROVE Fine(t)
  <2>1. CASE u = t
    BY <2>1, <1>1, <1>t, <1>z DEF Load, Fresh, Sent, Idle
  <2>2. CASE u # t
    BY <2>2, <1>1, <1>t, <1>k DEF Load
  <2> QED BY <2>1, <2>2
<1>2. ASSUME NEW u \in Tabs, Guard(u) PROVE Fine(t)
  BY <1>2, <1>t, <1>k DEF Guard, Tab
<1>3. ASSUME NEW u \in Tabs, SignIn(u) PROVE Fine(t)
  BY <1>3, <1>t, <1>k DEF SignIn, Sent
<1>4. ASSUME NEW u \in Tabs, WrongPassword(u) PROVE Fine(t)
  BY <1>4, <1>s DEF WrongPassword
<1>5. ASSUME NEW u \in Tabs, Logout(u) PROVE Fine(t)
  <2>1. CASE u = t
    BY <2>1, <1>5, <1>t, <1>z DEF Logout, Fresh, Idle
  <2>2. CASE u # t
    BY <2>2, <1>5, <1>t, <1>k DEF Logout
  <2> QED BY <2>1, <2>2
<1>6. ASSUME NEW u \in Tabs, NEW c \in Calls, Start(u, c) PROVE Fine(t)
  BY <1>6, <1>t, <1>k DEF Start, Sent
<1>r. ASSUME NEW u \in Tabs, NEW c \in Request, NEW gone \in BOOLEAN, Reject(u, c, gone),
             call[u][c].st \in {"sent", "denied"}
      PROVE  Fine(t)
  <2>1. tab'[t].phase = tab[t].phase
    BY <1>r, <1>t DEF Reject, Tab
  <2>2. \A d \in Request : \/ call'[t][d].st = call[t][d].st
                           \/ ~Waits(call[t][d].st) /\ ~Waits(call'[t][d].st)
    BY <1>r, <1>t DEF Reject, Idle
  <2> QED BY <2>1, <2>2, <1>k
<1>7. ASSUME NEW u \in Tabs, NEW c \in Request, Fail(u, c) PROVE Fine(t)
  BY <1>7, <1>r DEF Fail
<1>8. ASSUME NEW u \in Tabs, NEW c \in Request, Settle(u, c) PROVE Fine(t)
  <2>1. CASE Serve(u, c)
    BY <2>1, <1>t, <1>k DEF Serve, Call, Idle
  <2>3. CASE Profile(u, c)
    <3>1. tab'[t].phase = tab[t].phase
      BY <2>3, <1>t DEF Profile, Tab
    <3>2. \A d \in Request : \/ call'[t][d].st = call[t][d].st
                             \/ ~Waits(call[t][d].st) /\ ~Waits(call'[t][d].st)
      BY <2>3, <1>t DEF Profile, Idle
    <3> QED BY <3>1, <3>2, <1>k
  <2>4. CASE Denied(u, c)
    <3>1. CASE Reject(u, c, FALSE) \/ Reject(u, c, TRUE)
      BY <2>4, <3>1, <1>r DEF Denied
    <3>2. CASE /\ call' = [call EXCEPT ![u][c].st = "queued"]
               /\ tab[u].phase # "none" /\ tab' = tab
      <4>1. \A d \in Request : call'[t][d].st = IF u = t /\ c = d THEN "queued" ELSE call[t][d].st
        BY <3>2, <1>t DEF Call
      <4>2. ~Lead(call[u][c].st)
        BY <2>4 DEF Denied
      <4> QED BY <3>2, <4>1, <4>2, <1>h DEF Fine
    <3>3. CASE /\ call' = [call EXCEPT ![u][c].st = "leading", ![u][c].retried = TRUE]
               /\ tab[u].phase = "none"
               /\ tab' = [tab EXCEPT ![u].phase = "posted", ![u].lead = store.refresh]
      <4>1. \A d \in Request : call'[t][d].st = IF u = t /\ c = d THEN "leading" ELSE call[t][d].st
        <5>1. call'[u][c].st = "leading"
          BY <3>3, <1>t DEF Call
        <5>2. \A d \in Request : u # t \/ c # d => call'[t][d] = call[t][d]
          BY <3>3, <1>t
        <5> QED BY <5>1, <5>2
      <4>2. tab'[t].phase = IF u = t THEN "posted" ELSE tab[t].phase
        BY <3>3, <1>t DEF Tab
      <4>3. CASE u = t
        <5>1. \A d \in Request : ~Lead(call[t][d].st)
          BY <4>3, <3>3, <1>h
        <5>2. Lead(call'[t][c].st) /\ \A d \in Request : Lead(call'[t][d].st) => c = d
          BY <4>1, <4>3, <5>1
        <5>3. tab'[t].phase # "none"
          BY <4>2, <4>3
        <5> QED BY <5>2, <5>3 DEF Fine
      <4>4. CASE u # t
        <5>1. \A d \in Request : call'[t][d].st = call[t][d].st
          BY <4>1, <4>4
        <5>2. tab'[t].phase = tab[t].phase
          BY <4>2, <4>4
        <5> QED BY <5>1, <5>2, <1>k
      <4> QED BY <4>3, <4>4
    <3> QED BY <2>4, <3>1, <3>2, <3>3 DEF Denied
  <2> QED BY <1>8, <2>1, <2>3, <2>4 DEF Settle
<1>9. ASSUME NEW u \in Tabs, Lookup(u) \/ Exchange(u) PROVE Fine(t)
  <2>1. tab'[t].phase = tab[t].phase \/ (tab'[t].phase # "none" /\ tab[t].phase # "none")
    BY <1>9, <1>t DEF Lookup, Exchange, Tab
  <2>2. call' = call
    BY <1>9 DEF Lookup, Exchange
  <2> QED BY <2>1, <2>2, <1>k
<1>10. ASSUME NEW u \in Tabs, Renewed(u) PROVE Fine(t)
  <2>1. CASE u = t
    <3>1. ASSUME NEW c \in Request, Waiting(t, c)
          PROVE  [call[t][c] EXCEPT !.st = "sent", !.tok = store'.access].st = "sent"
      <4>1. call[t][c] \in Call
        BY <1>t
      <4> QED BY <4>1 DEF Call
    <3>2. \A c \in Request :
            call'[t][c] = IF Waiting(t, c)
                          THEN [call[t][c] EXCEPT !.st = "sent", !.tok = store'.access]
                          ELSE call[t][c]
      BY <2>1, <1>10, <1>t DEF Renewed
    <3>3. tab'[t].phase = "none"
      BY <2>1, <1>10, <1>t DEF Renewed, Ended, Tab
    <3> QED BY <3>1, <3>2, <3>3, <1>z DEF Waiting
  <2>2. CASE u # t
    BY <2>2, <1>10, <1>t, <1>k DEF Renewed, Ended
  <2> QED BY <2>1, <2>2
<1>11. ASSUME NEW u \in Tabs, Refused(u) PROVE Fine(t)
  <2>1. CASE u = t
    <3>1. tab'[t].phase = "none"
      BY <2>1, <1>11, <1>t DEF Refused, Ended, Fresh, Tab
    <3>2. \A c \in Request : ~Waits(call'[t][c].st)
      BY <2>1, <1>11, <1>t DEF Refused, Idle, Waiting
    <3> QED BY <3>1, <3>2, <1>z
  <2>2. CASE u # t
    BY <2>2, <1>11, <1>t, <1>k DEF Refused, Ended
  <2> QED BY <2>1, <2>2
<1>12. CASE Expire \/ Age \/ Cleanup \/ \E k \in left : Orphan(k)
  BY <1>12, <1>s DEF Expire, Age, Cleanup, Orphan
<1>13. CASE UNCHANGED vars
  BY <1>13, <1>s DEF vars
<1> QED BY <1>1, <1>2, <1>3, <1>4, <1>5, <1>6, <1>7, <1>8, <1>9, <1>10, <1>11, <1>12, <1>13
        DEF Next, Renew

\* One exchange per tab, run by one call, and nobody left in the queue without it.
THEOREM WaitersAreLed == Spec => []WaitersHaveALeader
<1>1. Init => WaitersHaveALeader
  BY InitInv
<1> QED BY <1>1, WaitersStep, TypesHold, PTL DEF Spec

\* What waited goes out again under the token just obtained, which nobody carried.
THEOREM RetriesChange == Spec => RetriesChangeTheToken
<1>1. TokensInv /\ [Next]_vars =>
        [\A t \in Tabs : \A c \in Request :
           Renewed(t) /\ Waiting(t, c) =>
             call'[t][c].st = "sent" /\ call'[t][c].tok # call[t][c].tok]_vars
  <2> SUFFICES ASSUME TokensInv, NEW t \in Tabs, NEW c \in Request, Renewed(t), Waiting(t, c)
               PROVE  call'[t][c].st = "sent" /\ call'[t][c].tok # call[t][c].tok
    OBVIOUS
  <2>1. call[t][c] \in Call /\ tab[t].phase = "renewed"
    BY DEF TokensInv, TypeOK, Renewed
  <2>2. store'.access = tab[t].reply
    BY DEF TokensInv, TypeOK, Renewed, SetTokens, Store
  <2>3. call'[t][c] = [call[t][c] EXCEPT !.st = "sent", !.tok = store'.access]
    BY DEF TokensInv, TypeOK, Renewed
  <2>4. call'[t][c].st = "sent" /\ call'[t][c].tok = store'.access
    BY <2>1, <2>3 DEF Call
  <2>5. call[t][c].tok # tab[t].reply
    BY <2>1 DEF TokensInv, Private
  <2> QED BY <2>2, <2>4, <2>5
<1> QED BY <1>1, TokensHold, PTL DEF Spec, RetriesChangeTheToken

-----------------------------------------------------------------------------
(* What becomes of dead tokens.                                            *)

\* The stored token stays what it was, or goes; every row that went has its
\* reason, and no reason there was goes away.
LEMMA AccountKept ==
  ASSUME TokensInv, DeadTokensAreAccounted, store'.refresh \in {store.refresh, 0},
         aged' \in Nat, aged <= aged', left \subseteq left',
         \A k \in live \ live' :
           \/ k <= aged' \/ k \in left'
           \/ \E u \in Tabs : tab'[u].lead = k /\ tab'[u].phase \in {"renewed", "refused"},
         \A u \in Tabs : tab[u].phase \in {"renewed", "refused"} =>
           \/ tab[u].lead \in left'
           \/ tab'[u].lead = tab[u].lead /\ tab'[u].phase \in {"renewed", "refused"}
  PROVE  DeadTokensAreAccounted'
<1> SUFFICES ASSUME store'.refresh # 0, store'.refresh \notin live'
             PROVE  \/ store'.refresh <= aged'
                    \/ store'.refresh \in left'
                    \/ \E t \in Tabs : /\ tab'[t].lead = store'.refresh
                                       /\ tab'[t].phase \in {"renewed", "refused"}
  BY DEF DeadTokensAreAccounted
<1>1. store'.refresh = store.refresh /\ store.refresh # 0
  OBVIOUS
<1>2. CASE store.refresh \in live
  BY <1>1, <1>2
<1>3. CASE store.refresh \notin live
  <2>1. CASE store.refresh <= aged
    <3>1. store.refresh \in Nat /\ aged \in Nat
      BY SessionAssumption DEF TokensInv, TypeOK, Store, Maybe
    <3>2. store.refresh <= aged'
      BY <2>1, <3>1
    <3> QED BY <1>1, <3>2
  <2>2. CASE store.refresh \in left
    BY <1>1, <2>2
  <2>3. CASE \E t \in Tabs : tab[t].lead = store.refresh /\ tab[t].phase \in {"renewed", "refused"}
    BY <1>1, <2>3
  <2> QED BY <1>1, <1>3, <2>1, <2>2, <2>3 DEF DeadTokensAreAccounted
<1> QED BY <1>2, <1>3

LEMMA AccountStep ==
  TokensInv /\ DeadTokensAreAccounted /\ [Next]_vars => DeadTokensAreAccounted'
<1> SUFFICES ASSUME TokensInv, DeadTokensAreAccounted, [Next]_vars
             PROVE  DeadTokensAreAccounted'
  OBVIOUS
<1>t. tab \in [Tabs -> Tab] /\ call \in [Tabs -> [Request -> Call]] /\ store \in Store
  BY DEF TokensInv, TypeOK
<1>e. aged \in Nat /\ aged <= aged
  BY SessionAssumption DEF TokensInv, TypeOK, Maybe
<1>c. ASSUME store'.refresh = 0 PROVE DeadTokensAreAccounted'
  BY <1>c DEF DeadTokensAreAccounted
<1>k. ASSUME store'.refresh = store.refresh, UNCHANGED <<live, aged>>, left \subseteq left',
             \A u \in Tabs : \/ tab'[u].lead = tab[u].lead /\ tab'[u].phase = tab[u].phase
                            \/ tab[u].phase = "none"
                            \/ tab[u].lead \in left'
      PROVE  DeadTokensAreAccounted'
  <2>1. \A u \in Tabs : tab[u].phase \in {"renewed", "refused"} =>
           \/ tab[u].lead \in left'
           \/ tab'[u].lead = tab[u].lead /\ tab'[u].phase \in {"renewed", "refused"}
    BY <1>k
  <2> QED BY <1>k, <1>e, <2>1, AccountKept
<1>r. ASSUME NEW t \in Tabs, NEW c \in Request, NEW gone \in BOOLEAN, Reject(t, c, gone)
      PROVE  DeadTokensAreAccounted'
  <2>1. \A u \in Tabs : tab'[u].lead = tab[u].lead /\ tab'[u].phase = tab[u].phase
    BY <1>r, <1>t DEF Reject, Tab
  <2>2. store' = store \/ store'.refresh = 0
    BY <1>r DEF Reject, Cleared
  <2> QED BY <1>r, <2>1, <2>2, <1>c, <1>k DEF Reject
<1>1. ASSUME NEW t \in Tabs, NEW page \in Landings, Load(t, page) PROVE DeadTokensAreAccounted'
  <2>1. \A u \in Tabs : tab'[u] = tab[u] \/ tab[u].phase = "none" \/ tab[u].lead \in left'
    BY <1>1, <1>t DEF Load, Leave
  <2> QED BY <1>1, <2>1, <1>k DEF Load, Leave
<1>2. ASSUME NEW t \in Tabs, Guard(t) PROVE DeadTokensAreAccounted'
  BY <1>2, <1>t, <1>k DEF Guard, Tab
<1>3. ASSUME NEW t \in Tabs, SignIn(t) PROVE DeadTokensAreAccounted'
  BY <1>3, <1>t DEF SignIn, SetTokens, Store, DeadTokensAreAccounted
<1>4. ASSUME NEW t \in Tabs, WrongPassword(t) \/ Logout(t) PROVE DeadTokensAreAccounted'
  BY <1>4, <1>c DEF WrongPassword, Logout, Cleared
<1>5. ASSUME NEW t \in Tabs, NEW c \in Calls, Start(t, c) PROVE DeadTokensAreAccounted'
  BY <1>5, <1>k DEF Start
<1>6. ASSUME NEW t \in Tabs, NEW c \in Request, Fail(t, c) PROVE DeadTokensAreAccounted'
  BY <1>6, <1>r DEF Fail
<1>7. ASSUME NEW t \in Tabs, NEW c \in Request, Settle(t, c) PROVE DeadTokensAreAccounted'
  <2>1. CASE Serve(t, c)
    BY <2>1, <1>k DEF Serve
  <2>2. CASE Profile(t, c)
    <3>1. \A u \in Tabs : tab'[u].lead = tab[u].lead /\ tab'[u].phase = tab[u].phase
      BY <2>2, <1>t DEF Profile, Tab
    <3>2. store'.refresh = store.refresh
      BY <2>2, <1>t DEF Profile, Store
    <3> QED BY <2>2, <3>1, <3>2, <1>k DEF Profile
  <2>3. CASE Denied(t, c)
    <3>1. CASE Reject(t, c, FALSE) \/ Reject(t, c, TRUE)
      BY <3>1, <1>r
    <3>2. CASE /\ tab[t].phase = "none"
               /\ tab' = [tab EXCEPT ![t].phase = "posted", ![t].lead = store.refresh]
               /\ UNCHANGED <<store, live, expired, aged, left, issued>>
      <4>1. \A u \in Tabs \ {t} : tab'[u] = tab[u]
        BY <3>2, <1>t
      <4> QED BY <3>2, <4>1, <1>k
    <3>3. CASE UNCHANGED <<store, live, expired, aged, left, issued, tab>>
      BY <3>3, <1>k
    <3> QED BY <2>3, <3>1, <3>2, <3>3 DEF Denied
  <2> QED BY <1>7, <2>1, <2>2, <2>3 DEF Settle
<1>8. ASSUME NEW t \in Tabs, Lookup(t) PROVE DeadTokensAreAccounted'
  <2>1. \A u \in Tabs \ {t} : tab'[u] = tab[u]
    BY <1>8, <1>t DEF Lookup
  <2>2. tab[t].phase = "posted"
    BY <1>8 DEF Lookup
  <2>3. live' \subseteq live /\ \A k \in live \ live' : k <= aged
    BY <1>8 DEF Lookup
  <2>4. UNCHANGED <<store, aged, left>>
    BY <1>8 DEF Lookup
  <2> QED BY <1>e, <2>1, <2>2, <2>3, <2>4, AccountKept
<1>9. ASSUME NEW t \in Tabs, Exchange(t) PROVE DeadTokensAreAccounted'
  <2>1. \A u \in Tabs \ {t} : tab'[u] = tab[u]
    BY <1>9, <1>t DEF Exchange
  <2>2. /\ tab[t].phase = "found" /\ tab'[t].phase \in {"renewed", "refused"}
        /\ tab'[t].lead = tab[t].lead
    BY <1>9, <1>t DEF Exchange, Tab
  <2>3. \A k \in live \ live' : tab[t].lead = k
    BY <1>9 DEF Exchange
  <2>4. UNCHANGED <<store, aged, left>>
    BY <1>9 DEF Exchange
  <2> QED BY <1>e, <2>1, <2>2, <2>3, <2>4, AccountKept
<1>10. ASSUME NEW t \in Tabs, Renewed(t) PROVE DeadTokensAreAccounted'
  <2>1. store'.refresh = tab[t].reply
    BY <1>10, <1>t DEF Renewed, SetTokens, Store
  <2>2. tab[t].reply \in live' \/ tab[t].reply <= aged'
    BY <1>10 DEF Renewed, TokensInv, Private
  <2> QED BY <2>1, <2>2 DEF DeadTokensAreAccounted
<1>11. ASSUME NEW t \in Tabs, Refused(t) PROVE DeadTokensAreAccounted'
  BY <1>11, <1>c DEF Refused, Cleared
<1>12. CASE Expire \/ UNCHANGED vars
  BY <1>12, <1>k DEF Expire, vars
<1>13. CASE Age
  <2>1. aged' \in Nat /\ aged <= aged'
    BY <1>13, <1>e DEF Age
  <2> QED BY <1>13, <2>1, AccountKept DEF Age
<1>14. CASE Cleanup \/ \E k \in left : Orphan(k)
  BY <1>14, <1>e, AccountKept DEF Cleanup, Orphan
<1> QED BY <1>1, <1>2, <1>3, <1>4, <1>5, <1>6, <1>7, <1>8, <1>9, <1>10, <1>11, <1>12, <1>13, <1>14
        DEF Next, Renew

\* However many tabs race with one refresh token, whatever answers are lost and
\* pages left half way, a dead token that is stored has one of its three reasons.
THEOREM DeadTokensAccounted == Spec => []DeadTokensAreAccounted
<1>1. Init => DeadTokensAreAccounted
  BY InitInv
<1> QED BY <1>1, AccountStep, TokensHold, PTL DEF Spec
=============================================================================
