--------------------------- MODULE ScreensProofs ---------------------------
(***************************************************************************)
(* Proofs about the dashboard's working screens: for any tickets, pages,   *)
(* organizations, tabs, conversations and endpoints, what a screen shows   *)
(* is its own.  Each screen has an inductive invariant of its own, shown   *)
(* to hold first and to be kept by the steps of that screen; the last part *)
(* shows that a step of Screens is a step of one screen, which the others  *)
(* do not notice, and draws the theorems from it.                          *)
(***************************************************************************)
EXTENDS Screens, FiniteSetTheorems, SequenceTheorems, WellFoundedInduction, TLAPS

-----------------------------------------------------------------------------
(* The least and the greatest number of a set.                             *)

UpTo(k) == 0..k

\* A set of numbers has a least one: an initial segment of one of them that has no
\* other within it.
LEMMA LeastExists ==
  ASSUME NEW S \in SUBSET Nat, S # {}
  PROVE  \E m \in S : \A n \in S : m <= n
<1> DEFINE T == {UpTo(k) : k \in S}
<1>1. T \in SUBSET FiniteSubsetsOf(Nat)
  <2>1. ASSUME NEW k \in Nat PROVE UpTo(k) \in SUBSET Nat /\ IsFiniteSet(UpTo(k))
    BY FS_Interval DEF UpTo
  <2> QED BY <2>1 DEF FiniteSubsetsOf
<1>2. T # {}
  OBVIOUS
<1>3. IsWellFoundedOn(StrictSubsetOrdering(Nat), FiniteSubsetsOf(Nat))
  BY FS_StrictSubsetOrderingWellFounded
<1>4. PICK x \in T : \A y \in T : ~(<<y, x>> \in StrictSubsetOrdering(Nat))
  <2> HIDE DEF T
  <2> QED BY <1>1, <1>2, <1>3, WFMin
<1>5. PICK m \in S : x = UpTo(m)
  OBVIOUS
<1>6. ASSUME NEW n \in S PROVE m <= n
  <2>1. SUFFICES ASSUME n < m PROVE FALSE
    OBVIOUS
  <2>2. UpTo(n) \subseteq UpTo(m) /\ UpTo(n) # UpTo(m)
    <3>1. m \in UpTo(m) /\ m \notin UpTo(n)
      BY <2>1 DEF UpTo
    <3>2. UpTo(n) \subseteq UpTo(m)
      BY <2>1 DEF UpTo
    <3> QED BY <3>1, <3>2
  <2>3. UpTo(n) \in SUBSET Nat /\ UpTo(m) \in SUBSET Nat
    BY DEF UpTo
  <2>4. <<UpTo(n), UpTo(m)>> \in StrictSubsetOrdering(Nat)
    BY <2>2, <2>3 DEF StrictSubsetOrdering
  <2> QED BY <1>4, <1>5, <2>4
<1> QED BY <1>6

LEMMA MinIsLeast ==
  ASSUME NEW S \in SUBSET Nat, S # {}
  PROVE  Min(S) \in S /\ \A n \in S : Min(S) <= n
BY LeastExists DEF Min

LEMMA MinIsUnique ==
  ASSUME NEW S \in SUBSET Nat, NEW m \in S, \A n \in S : m <= n
  PROVE  Min(S) = m
<1>1. Min(S) \in S /\ \A n \in S : Min(S) <= n
  BY MinIsLeast
<1>2. Min(S) <= m /\ m <= Min(S) /\ m \in Nat /\ Min(S) \in Nat
  BY <1>1
<1> QED BY <1>2

LEMMA GreatestExists ==
  ASSUME NEW S \in SUBSET Nat, S # {}, NEW b \in Nat, \A n \in S : n <= b
  PROVE  \E m \in S : \A n \in S : n <= m
<1> DEFINE T == {b - n : n \in S}
<1>1. T \in SUBSET Nat /\ T # {}
  <2>1. ASSUME NEW n \in S PROVE b - n \in Nat
    BY n <= b
  <2> QED BY <2>1
<1>2. PICK k \in T : \A n \in T : k <= n
  <2> HIDE DEF T
  <2> QED BY <1>1, LeastExists
<1>3. PICK m \in S : k = b - m
  OBVIOUS
<1>4. ASSUME NEW n \in S PROVE n <= m
  <2>1. b - n \in T
    OBVIOUS
  <2>2. b - m <= b - n
    BY <1>2, <1>3, <2>1
  <2>3. n \in Nat /\ m \in Nat /\ b \in Nat
    OBVIOUS
  <2> HIDE DEF T
  <2> QED BY <2>2, <2>3
<1> QED BY <1>4

LEMMA MaxOfTwo ==
  ASSUME NEW a \in Nat, NEW b \in Nat, a <= b
  PROVE  Max({a, b}) = b
<1>1. \A x \in {a, b} : (\A y \in {a, b} : x >= y) => x = b
  OBVIOUS
<1>2. b \in {a, b} /\ \A y \in {a, b} : b >= y
  OBVIOUS
<1> QED BY <1>1, <1>2 DEF Max

-----------------------------------------------------------------------------
(* What the backend lists.                                                 *)

Above(q, t) == {u \in 1 .. opened : Matches(q, u) /\ u > t}

\* So many tickets of the query are newer that no first page holds this one.
Deep(q, t) == Cardinality(Above(q, t)) >= PageSize

LEMMA AboveIsFinite ==
  ASSUME opened \in 0 .. NTickets, TicketListAssumption, NEW q, NEW t
  PROVE  IsFiniteSet(Above(q, t)) /\ Cardinality(Above(q, t)) \in Nat
<1>1. IsFiniteSet(1 .. opened) /\ Above(q, t) \in SUBSET (1 .. opened)
  BY FS_Interval DEF Above, TicketListAssumption
<1> QED BY <1>1, FS_Subset, FS_CardinalityType

LEMMA DeepBelow ==
  ASSUME opened \in 0 .. NTickets, TicketListAssumption, NEW q, NEW t \in Int, NEW S,
         S \subseteq Above(q, t), Cardinality(S) >= PageSize
  PROVE  Deep(q, t)
<1>1. IsFiniteSet(Above(q, t)) /\ Cardinality(Above(q, t)) \in Nat
  BY AboveIsFinite
<1>2. IsFiniteSet(S) /\ Cardinality(S) <= Cardinality(Above(q, t))
  BY <1>1, FS_Subset
<1>3. Cardinality(S) \in Nat /\ PageSize \in Nat
  BY <1>2, FS_CardinalityType DEF TicketListAssumption
<1> QED BY <1>1, <1>2, <1>3 DEF Deep

\* A page: its rows pass the filter and are older than what it was asked before;
\* its cursor is not above any of them.
LEMMA ListIsAPage ==
  ASSUME opened \in 0 .. NTickets, TicketListAssumption, NEW q,
         NEW before \in 0 .. NTickets + 1
  PROVE  /\ List(q, before).rows \in SUBSET Tickets
         /\ List(q, before).cursor \in 0 .. NTickets
         /\ List(q, before).cursor = 0 \/ List(q, before).cursor < before
         /\ \A t \in List(q, before).rows :
              Matches(q, t) /\ t < before /\ t >= List(q, before).cursor
<1> DEFINE all  == {t \in 1 .. opened : Matches(q, t) /\ t < before}
           top == {t \in all : Cardinality({u \in all : u > t}) < PageSize}
           cur  == IF top = all THEN 0 ELSE Min(top)
<1>1. List(q, before) = [rows |-> top, cursor |-> cur]
  BY DEF List
<1>2. /\ all \subseteq Tickets /\ all \in SUBSET Nat /\ top \subseteq all
      /\ \A t \in all : Matches(q, t) /\ t < before /\ t <= NTickets
  BY DEF Tickets, TicketListAssumption
<1>3. top # all => top # {}
  <2> SUFFICES ASSUME top # all PROVE top # {}
    OBVIOUS
  <2>1. all # {} /\ NTickets \in Nat
    BY <1>2 DEF TicketListAssumption
  <2>2. PICK m \in all : \A n \in all : n <= m
    <3> HIDE DEF all, top
    <3> QED BY <1>2, <2>1, GreatestExists
  <2>3. {u \in all : u > m} = {}
    BY <1>2, <2>2
  <2>4. m \in top
    BY <2>2, <2>3, FS_EmptySet DEF TicketListAssumption
  <2> QED BY <2>4
<1> HIDE DEF all, top
<1>4. top # all => Min(top) \in top /\ \A t \in top : Min(top) <= t
  BY <1>2, <1>3, MinIsLeast
<1>5. cur \in 0 .. NTickets /\ (cur = 0 \/ cur < before) /\ \A t \in top : t >= cur
  <2>1. CASE top = all
    <3>1. cur = 0 /\ \A t \in top : t >= 0
      BY <1>2, <2>1
    <3> QED BY <3>1 DEF TicketListAssumption
  <2>2. CASE top # all
    <3>1. cur \in top /\ \A t \in top : cur <= t
      BY <1>4, <2>2
    <3>2. cur \in Nat /\ cur < before /\ cur <= NTickets
      BY <1>2, <3>1
    <3>3. \A t \in top : t \in Nat
      BY <1>2
    <3> QED BY <3>1, <3>2, <3>3 DEF TicketListAssumption
  <2> QED BY <2>1, <2>2
<1> HIDE DEF cur
<1>6. List(q, before).rows = top /\ List(q, before).cursor = cur
  BY <1>1
<1>7. \A t \in top : Matches(q, t) /\ t < before /\ t >= cur
  BY <1>2, <1>5
<1> QED BY <1>2, <1>5, <1>6, <1>7

\* The first page holds no ticket that is deep, and what is below its cursor is.
LEMMA FirstPageIsShallow ==
  ASSUME opened \in 0 .. NTickets, TicketListAssumption, NEW q
  PROVE  /\ \A t \in List(q, NTickets + 1).rows : ~Deep(q, t)
         /\ \A t \in Tickets : t < List(q, NTickets + 1).cursor => Deep(q, t)
<1> DEFINE all  == {t \in 1 .. opened : Matches(q, t) /\ t < NTickets + 1}
           top == {t \in all : Cardinality({u \in all : u > t}) < PageSize}
           cur  == IF top = all THEN 0 ELSE Min(top)
<1>1. List(q, NTickets + 1) = [rows |-> top, cursor |-> cur]
  BY DEF List
<1>2. ASSUME NEW t PROVE Above(q, t) = {u \in all : u > t}
  BY DEF Above, TicketListAssumption
<1>3. /\ all \in SUBSET Nat /\ top \subseteq all /\ \A t \in all : t <= NTickets
      /\ NTickets \in Nat /\ PageSize \in Nat \ {0}
  BY DEF TicketListAssumption
<1>4. \A t \in all : t \in top <=> ~Deep(q, t)
  <2> SUFFICES ASSUME NEW t \in all PROVE t \in top <=> ~Deep(q, t)
    OBVIOUS
  <2>1. Cardinality(Above(q, t)) \in Nat /\ Above(q, t) = {u \in all : u > t}
    BY <1>2, AboveIsFinite
  <2>2. t \in top <=> Cardinality(Above(q, t)) < PageSize
    BY <2>1
  <2> HIDE DEF all, top
  <2> QED BY <1>3, <2>1, <2>2 DEF Deep
<1> HIDE DEF top
<1>5. ASSUME NEW t \in Tickets, t < cur PROVE Deep(q, t)
  <2>1. top # all
    BY <1>5 DEF Tickets
  <2>2. all \ top # {} /\ all \ top \in SUBSET Nat /\ \A n \in all \ top : n <= NTickets
    BY <1>3, <2>1
  <2>3. PICK deepest \in all \ top : \A n \in all \ top : n <= deepest
    <3> HIDE DEF all
    <3> QED BY <1>3, <2>2, GreatestExists
  <2>4. Deep(q, deepest)
    BY <1>4, <2>3
  <2>5. Above(q, deepest) \subseteq top
    BY <1>2, <1>3, <2>3
  <2>6. top # {} /\ top \in SUBSET Nat
    <3>1. Cardinality(Above(q, deepest)) >= PageSize
      BY <2>4 DEF Deep
    <3>2. Above(q, deepest) # {}
      BY <1>3, <3>1, FS_EmptySet
    <3> QED BY <1>3, <2>5, <3>2
  <2>7. cur = Min(top) /\ \A n \in top : Min(top) <= n /\ Min(top) \in Nat
    BY <2>1, <2>6, MinIsLeast
  <2>8. Above(q, deepest) \subseteq Above(q, t)
    <3> SUFFICES ASSUME NEW u \in Above(q, deepest) PROVE u \in Above(q, t)
      OBVIOUS
    <3>1. u \in top /\ u \in Nat /\ t \in Nat /\ t < u
      <4>1. u \in top /\ u \in Nat /\ t \in Nat /\ cur <= u /\ cur \in Nat
        <5>1. u \in top
          BY <2>5
        <5>2. u \in Nat /\ t \in Nat
          BY <1>3, <5>1 DEF Tickets
        <5> HIDE DEF cur
        <5> QED BY <2>7, <5>1, <5>2
      <4> HIDE DEF cur
      <4> QED BY <1>5, <4>1
    <3> QED BY <3>1 DEF Above
  <2>9. t \in Int
    BY DEF Tickets
  <2> QED BY <2>4, <2>8, <2>9, DeepBelow DEF Deep
<1> HIDE DEF cur, all
<1>6. List(q, NTickets + 1).rows = top /\ List(q, NTickets + 1).cursor = cur
  BY <1>1
<1> QED BY <1>3, <1>4, <1>5, <1>6

-----------------------------------------------------------------------------
(* The inductive invariant of the list.                                    *)

ListTypes ==
  /\ opened \in 0 .. NTickets /\ prio \in [Tickets -> Prio] /\ gone \subseteq Tickets
  /\ query \in Query /\ stray \in BOOLEAN /\ moves \in 0 .. MaxMoves /\ slid \in BOOLEAN
  /\ first \in [st: {"null", "data", "error"}, q: Query, is: Answer]
  /\ ask \in [st: {"none", "asked", "ok", "failed"}, is: Answer]
  /\ acc \in [q: Query, pages: Seq(Page), cursor: 0 .. NTickets, on: BOOLEAN]
  /\ more \in [st: {"none", "asked", "ok", "failed"}, q: Query, from: 0 .. NTickets, is: Answer]

\* What a row is shown with: the priority asked for or the one above it.
OfPrio(p, pg) == \A t \in DOMAIN pg : p \in {0, pg[t], pg[t] - 1}
OfQuery(q, pg) == OfPrio(q.prio, pg) /\ OfOrg(q.org, pg)

\* Every page, on the screen or on its way, has the rows of its own query; those
\* accumulated may be of several organizations.
PagesMatch ==
  /\ OfQuery(first.q, first.is.rows)
  /\ OfQuery(query, ask.is.rows)
  /\ OfQuery(more.q, more.is.rows)
  /\ \A i \in DOMAIN acc.pages : OfPrio(acc.q.prio, acc.pages[i])

\* Before anything is accumulated or asked for there is nothing to repeat.
EmptyAtFirst ==
  /\ ~acc.on => acc.pages = <<>> /\ acc.cursor = 0
  /\ more.st = "none" => more = NoMore

\* The first page under way, once it arrives.
AskIsSound ==
  /\ ask.st # "ok" => ask.is = Nil
  /\ \A t \in DOMAIN ask.is.rows : t >= ask.is.cursor
  /\ moves = 0 => \A t \in Tickets : t < ask.is.cursor => Deep(query, t)

\* The accumulated pages go down, of one organization, to the cursor, and the page
\* under way comes after them.
PagesGoDown ==
  /\ \A i \in DOMAIN acc.pages : \A t \in DOMAIN acc.pages[i] :
       OrgOf[t] = acc.q.org /\ t >= acc.cursor
  /\ \A i, j \in DOMAIN acc.pages :
       i # j => DOMAIN acc.pages[i] \cap DOMAIN acc.pages[j] = {}
  /\ more.st # "none" /\ acc.on /\ acc.q.prio = more.q.prio
       => acc.q = more.q /\ acc.cursor = more.from
  /\ more.is.cursor = 0 \/ more.is.cursor < more.from
  /\ \A t \in DOMAIN more.is.rows : t < more.from /\ t >= more.is.cursor

\* The first page there is does not hold the ticket; while none has left a list,
\* neither does the one under way or a later one.
Fresh(q, t) ==
  /\ moves = 0 => Deep(q, t) /\ (query = q => t \notin DOMAIN ask.is.rows)
  /\ first.q = q => t \notin DOMAIN first.is.rows

\* What a page after the cursor lists is on no first page.
CursorIsSound(q, cursor) == \A t \in Tickets : t < cursor => Fresh(q, t)

CursorsAreSound ==
  /\ CursorIsSound(first.q, first.is.cursor)
  /\ CursorIsSound(acc.q, acc.cursor)
  /\ CursorIsSound(more.q, more.from)

PagesAreFresh ==
  \A i \in DOMAIN acc.pages : \A t \in DOMAIN acc.pages[i] : Fresh(acc.q, t)

ListIInv ==
  /\ ListTypes /\ PagesMatch /\ EmptyAtFirst /\ AskIsSound
  /\ ~stray => PagesGoDown
  /\ ~stray /\ ~slid => CursorsAreSound /\ PagesAreFresh

LEMMA NothingIsSound ==
  ASSUME TicketListAssumption
  PROVE  /\ Nil \in Answer /\ DOMAIN Nil.rows = {} /\ Nil.cursor = 0
         /\ \A q : OfQuery(q, Nil.rows)
<1>1. Empty \in [{} -> Prio] /\ DOMAIN Empty = {}
  BY DEF Empty
<1>2. Empty \in Page
  BY <1>1 DEF Page
<1>3. Nil.rows = Empty /\ Nil.cursor = 0 /\ Nil \in Answer
  BY <1>2 DEF Nil, Answer, TicketListAssumption
<1> QED BY <1>1, <1>3 DEF OfQuery, OfPrio, OfOrg

LEMMA NoMoreIsSound ==
  ASSUME TicketListAssumption, NEW q \in Query
  PROVE  /\ NoMore \in [st: {"none", "asked", "ok", "failed"}, q: Query, from: 0 .. NTickets, is: Answer]
         /\ NoMore.st = "none" /\ NoMore.from = 0 /\ NoMore.is = Nil
<1>1. q.org \in Orgs
  BY DEF Query
<1>2. (CHOOSE org \in Orgs : TRUE) \in Orgs
  BY <1>1
<1>3. 0 \in 0 .. Top /\ 0 \in 0 .. NTickets
  BY DEF TicketListAssumption
<1>4. [org |-> CHOOSE org \in Orgs : TRUE, prio |-> 0] \in Query
  BY <1>2, <1>3 DEF Query
<1> QED BY <1>3, <1>4, NothingIsSound DEF NoMore

LEMMA ListInitInv ==
  ASSUME TicketListAssumption, ListInit
  PROVE  ListIInv
<1>1. /\ query \in Query /\ 0 \in 0 .. NTickets /\ 0 \in 0 .. MaxMoves /\ Nil \in Answer
      /\ DOMAIN Nil.rows = {} /\ Nil.cursor = 0 /\ \A q : OfQuery(q, Nil.rows)
  BY NothingIsSound DEF TicketListAssumption, ListInit, Query
<1>2. ListTypes
  <2>1. acc \in [q: Query, pages: Seq(Page), cursor: 0 .. NTickets, on: BOOLEAN]
    BY <1>1 DEF ListInit
  <2>2. first \in [st: {"null", "data", "error"}, q: Query, is: Answer]
    BY <1>1 DEF ListInit
  <2>3. more \in [st: {"none", "asked", "ok", "failed"}, q: Query, from: 0 .. NTickets, is: Answer]
    BY <1>1, NoMoreIsSound DEF ListInit
  <2>4. ask \in [st: {"none", "asked", "ok", "failed"}, is: Answer]
    BY <1>1 DEF ListInit, Asked
  <2> QED BY <1>1, <2>1, <2>2, <2>3, <2>4 DEF ListInit, ListTypes
<1>3. /\ first.is = Nil /\ ask.is = Nil /\ more.is = Nil /\ acc.pages = <<>>
      /\ acc.cursor = 0 /\ more.from = 0 /\ more.st = "none" /\ more = NoMore
  BY <1>1, NoMoreIsSound DEF ListInit, Asked
<1>4. PagesMatch /\ EmptyAtFirst
  BY <1>1, <1>3 DEF PagesMatch, EmptyAtFirst
<1>5. PagesGoDown /\ PagesAreFresh
  BY <1>1, <1>3 DEF PagesGoDown, PagesAreFresh
<1>6. CursorsAreSound /\ AskIsSound
  BY <1>1, <1>3 DEF CursorsAreSound, AskIsSound, CursorIsSound, Tickets
<1> QED BY <1>2, <1>4, <1>5, <1>6 DEF ListIInv

\* The SLA check moves the tickets it raises, and nothing else.
LEMMA CheckRaises ==
  ASSUME TicketListAssumption, ListTypes, NEW rs \in SUBSET Tickets, Check(rs)
  PROVE  /\ prio' \in [Tickets -> Prio] /\ moves' \in 0 .. MaxMoves
         /\ \A t \in Tickets : prio'[t] \in {prio[t], prio[t] + 1}
         /\ opened' = opened /\ gone' = gone
         /\ moves' = 0 => moves = 0 /\ prio' = prio
<1>1. PICK overdue \in SUBSET {t \in rs : prio[t] < Top} :
        /\ moves + Cardinality(overdue) <= MaxMoves
        /\ moves' = moves + Cardinality(overdue)
        /\ prio' = [t \in Tickets |-> IF t \in overdue THEN prio[t] + 1 ELSE prio[t]]
        /\ UNCHANGED <<opened, gone>>
  BY DEF Check
<1>2. IsFiniteSet(overdue) /\ Cardinality(overdue) \in Nat
  <2>1. IsFiniteSet(Tickets)
    BY FS_Interval DEF Tickets, TicketListAssumption
  <2> QED BY <2>1, FS_Subset, FS_CardinalityType
<1>3. moves \in Nat /\ MaxMoves \in Nat /\ Top \in Nat
  BY DEF ListTypes, TicketListAssumption
<1>4. moves' \in 0 .. MaxMoves /\ (moves' = 0 => moves = 0 /\ Cardinality(overdue) = 0)
  BY <1>1, <1>2, <1>3
<1>5. \A t \in Tickets : prio[t] \in Prio /\ (t \in overdue => prio[t] + 1 \in Prio)
  BY <1>1, <1>3 DEF ListTypes, Prio
<1>6. prio' \in [Tickets -> Prio] /\ \A t \in Tickets : prio'[t] \in {prio[t], prio[t] + 1}
  BY <1>1, <1>5
<1>7. ASSUME moves' = 0 PROVE prio' = prio
  <2>1. overdue = {}
    BY <1>2, <1>4, <1>7, FS_EmptySet
  <2>2. \A t \in Tickets : prio'[t] = prio[t]
    BY <1>1, <2>1
  <2> QED BY <1>6, <2>2 DEF ListTypes
<1> QED BY <1>1, <1>4, <1>6, <1>7

\* What the backend answers with.
LEMMA ReadIsSound ==
  ASSUME TicketListAssumption, ListTypes, NEW q \in Query, NEW before \in 0 .. NTickets + 1,
         Check(List(q, before).rows)
  PROVE  /\ AsChecked(List(q, before)) \in Answer /\ OfQuery(q, AsChecked(List(q, before)).rows)
         /\ DOMAIN AsChecked(List(q, before)).rows = List(q, before).rows
         /\ AsChecked(List(q, before)).cursor = List(q, before).cursor
<1> DEFINE l == List(q, before)
           shows == [t \in l.rows |-> prio'[t]]
<1>1. l.rows \in SUBSET Tickets /\ l.cursor \in 0 .. NTickets /\ \A t \in l.rows : Matches(q, t)
  BY ListIsAPage DEF ListTypes
<1>2. prio' \in [Tickets -> Prio] /\ \A t \in Tickets : prio'[t] \in {prio[t], prio[t] + 1}
  BY <1>1, CheckRaises
<1> HIDE DEF l
<1>3. shows \in [l.rows -> Prio]
  BY <1>1, <1>2
<1>4. shows \in Page
  BY <1>1, <1>3 DEF Page
<1>5. AsChecked(l) \in Answer /\ AsChecked(l).rows = shows /\ AsChecked(l).cursor = l.cursor
  BY <1>1, <1>4 DEF AsChecked, Answer
<1>6. ASSUME NEW t \in l.rows PROVE OrgOf[t] = q.org /\ q.prio \in {0, shows[t], shows[t] - 1}
  <2>1. OrgOf[t] = q.org /\ q.prio \in {0, prio[t]}
    BY <1>1 DEF Matches
  <2>2. prio[t] \in Nat /\ shows[t] \in {prio[t], prio[t] + 1}
    BY <1>1, <1>2 DEF ListTypes, Prio
  <2> QED BY <2>1, <2>2
<1>7. OfQuery(q, shows)
  BY <1>6 DEF OfQuery, OfPrio, OfOrg
<1> QED BY <1>5, <1>7 DEF l

\* While none has left a list, the lists only grow, so what is deep stays so.
LEMMA DeepStaysSo ==
  ASSUME TicketListAssumption, ListTypes, ListTypes', moves' = 0,
         opened <= opened', gone' = gone, \A t \in 1 .. opened : prio'[t] = prio[t]
  PROVE  \A q, t : Deep(q, t) => Deep(q, t)'
<1> SUFFICES ASSUME NEW q, NEW t, Deep(q, t) PROVE Deep(q, t)'
  OBVIOUS
<1>1. Above(q, t) \in SUBSET Above(q, t)'
  <2>1. opened \in Nat /\ opened' \in Nat
    BY DEF ListTypes, TicketListAssumption
  <2> SUFFICES ASSUME NEW u \in Above(q, t) PROVE u \in Above(q, t)'
    OBVIOUS
  <2>2. u \in 1 .. opened /\ u \in 1 .. opened' /\ Matches(q, u) /\ u > t
    BY <2>1 DEF Above
  <2>3. Matches(q, u)'
    BY <2>2 DEF Matches
  <2> QED BY <2>2, <2>3 DEF Above
<1>2. IsFiniteSet(Above(q, t)')
  <2>1. IsFiniteSet(1 .. opened') /\ Above(q, t)' \in SUBSET (1 .. opened')
    BY FS_Interval DEF Above, ListTypes, TicketListAssumption
  <2> QED BY <2>1, FS_Subset
<1>3. /\ Cardinality(Above(q, t)) <= Cardinality(Above(q, t)')
      /\ Cardinality(Above(q, t)) \in Nat /\ Cardinality(Above(q, t)') \in Nat
  BY <1>1, <1>2, FS_Subset, FS_CardinalityType
<1> QED BY <1>3 DEF Deep, TicketListAssumption

\* A step that keeps what the cursors say of the tickets below them keeps the
\* cursors, and the pages, sound.
LEMMA FreshSuffices ==
  ASSUME \A q, t : Fresh(q, t) => Fresh(q, t)', UNCHANGED <<acc, more>>
  PROVE  /\ CursorIsSound(acc.q, acc.cursor) => CursorIsSound(acc.q, acc.cursor)'
         /\ CursorIsSound(more.q, more.from) => CursorIsSound(more.q, more.from)'
         /\ PagesAreFresh => PagesAreFresh'
         /\ PagesGoDown => PagesGoDown'
         /\ EmptyAtFirst => EmptyAtFirst'
<1>1. /\ CursorIsSound(acc.q, acc.cursor) => CursorIsSound(acc.q, acc.cursor)'
      /\ CursorIsSound(more.q, more.from) => CursorIsSound(more.q, more.from)'
  BY DEF CursorIsSound
<1>2. PagesAreFresh => PagesAreFresh'
  BY DEF PagesAreFresh
<1>3. (PagesGoDown => PagesGoDown') /\ (EmptyAtFirst => EmptyAtFirst')
  BY DEF PagesGoDown, EmptyAtFirst
<1> QED BY <1>1, <1>2, <1>3

\* What happens to the tickets changes no page, and says nothing new of one.
LEMMA BackendStepInv ==
  ASSUME TicketListAssumption, ListIInv, ListTypes',
         UNCHANGED <<query, first, ask, acc, more, stray, slid>>,
         moves' = 0 => /\ moves = 0 /\ opened <= opened' /\ gone' = gone
                       /\ \A t \in 1 .. opened : prio'[t] = prio[t]
  PROVE  ListIInv'
<1> USE DEF ListIInv
<1>1. moves' = 0 => moves = 0 /\ \A q, t : Deep(q, t) => Deep(q, t)'
  BY DeepStaysSo
<1>2. \A q, t : Fresh(q, t) => Fresh(q, t)'
  BY <1>1 DEF Fresh
<1>3. PagesMatch'
  BY DEF PagesMatch
<1>4. AskIsSound'
  BY <1>1 DEF AskIsSound
<1>5. CursorIsSound(first.q, first.is.cursor) => CursorIsSound(first.q, first.is.cursor)'
  BY <1>2 DEF CursorIsSound
<1> QED BY <1>2, <1>3, <1>4, <1>5, FreshSuffices DEF CursorsAreSound

LEMMA ArriveMoreInv ==
  ASSUME TicketListAssumption, ListIInv, ArriveMore
  PROVE  ListIInv'
<1> USE DEF ListIInv
<1>z. DOMAIN Nil.rows = {} /\ Nil.cursor = 0 /\ \A q : OfQuery(q, Nil.rows)
  BY NothingIsSound
<1>n. /\ NoMore \in [st: {"none", "asked", "ok", "failed"}, q: Query, from: 0 .. NTickets, is: Answer]
      /\ NoMore.st = "none" /\ NoMore.from = 0 /\ NoMore.is = Nil
  BY NoMoreIsSound DEF ListTypes
<1>1. /\ UNCHANGED <<opened, prio, gone, moves, query, first, ask, stray, slid>>
      /\ more' = NoMore /\ more.st \in {"ok", "failed"}
      /\ acc' = IF more.st = "failed" THEN acc
                ELSE [q |-> more.q, pages |-> Append(Added, more.is.rows),
                      cursor |-> more.is.cursor, on |-> TRUE]
  BY DEF ArriveMore, backVars
<1>2. \A q, t : Deep(q, t)' = Deep(q, t)
  BY <1>1 DEF Deep, Above, Matches
<1>3. \A q, t : Fresh(q, t) => Fresh(q, t)'
  BY <1>1, <1>2 DEF Fresh
<1>4. AskIsSound'
  BY <1>1, <1>2 DEF AskIsSound
<1>5. (~stray /\ ~slid) => /\ CursorIsSound(first.q, first.is.cursor)'
                           /\ CursorIsSound(more.q, more.from)'
  BY <1>1, <1>3, <1>n DEF CursorsAreSound, CursorIsSound, Tickets
<1>6. CASE acc' = acc
  <2>1. ListTypes' /\ PagesMatch' /\ EmptyAtFirst'
    BY <1>1, <1>6, <1>z, <1>n DEF ListTypes, PagesMatch, EmptyAtFirst
  <2>2. CursorsAreSound /\ PagesAreFresh => CursorIsSound(acc.q, acc.cursor)' /\ PagesAreFresh'
    BY <1>3, <1>6 DEF CursorsAreSound, CursorIsSound, PagesAreFresh
  <2>3. PagesGoDown => PagesGoDown'
    BY <1>1, <1>6, <1>z, <1>n DEF PagesGoDown
  <2> QED BY <1>1, <1>4, <1>5, <2>1, <2>2, <2>3 DEF CursorsAreSound
<1>7. CASE acc' = [q |-> more.q, pages |-> Append(Added, more.is.rows),
                   cursor |-> more.is.cursor, on |-> TRUE]
  <2>1. /\ acc'.q = more.q /\ acc'.pages = Append(Added, more.is.rows)
        /\ acc'.cursor = more.is.cursor /\ acc'.on = TRUE
    BY <1>7
  <2>2. Added \in Seq(Page) /\ more.is.rows \in Page
    BY DEF Added, ListTypes, Answer
  <2> DEFINE n == Len(Added) + 1
  <2>3. /\ Append(Added, more.is.rows) \in Seq(Page)
        /\ DOMAIN Added = 1 .. Len(Added) /\ Len(Added) \in Nat
        /\ DOMAIN acc'.pages = 1 .. n /\ acc'.pages[n] = more.is.rows
        /\ \A i \in 1 .. Len(Added) : acc'.pages[i] = Added[i]
    BY <2>1, <2>2, AppendProperties
  <2> HIDE DEF n
  <2>4. \A i \in DOMAIN acc'.pages :
          \/ i \in DOMAIN Added /\ acc'.pages[i] = Added[i]
          \/ i = n /\ acc'.pages[i] = more.is.rows
    BY <2>3 DEF n
  <2>5. ASSUME NEW i \in DOMAIN Added
        PROVE  /\ i \in DOMAIN acc.pages /\ Added[i] = acc.pages[i]
               /\ acc.on /\ acc.q.prio = more.q.prio
    BY <2>5 DEF Added
  <2>6. ListTypes' /\ EmptyAtFirst'
    <3>1. acc' \in [q: Query, pages: Seq(Page), cursor: 0 .. NTickets, on: BOOLEAN]
      BY <1>7, <2>3 DEF ListTypes, Answer
    <3> QED BY <1>1, <1>n, <2>1, <3>1 DEF ListTypes, EmptyAtFirst
  <2>7. PagesMatch'
    <3>1. OfPrio(more.q.prio, more.is.rows)
      BY DEF PagesMatch, OfQuery
    <3>2. \A i \in DOMAIN acc'.pages : OfPrio(more.q.prio, acc'.pages[i])
      BY <2>4, <2>5, <3>1 DEF PagesMatch
    <3> QED BY <1>1, <1>z, <1>n, <2>1, <3>2 DEF PagesMatch
  <2>8. SUFFICES ASSUME ~stray
                 PROVE  PagesGoDown' /\ (~slid => CursorIsSound(acc.q, acc.cursor)' /\ PagesAreFresh')
    BY <1>1, <1>4, <1>5, <2>6, <2>7 DEF CursorsAreSound
  <2>9. /\ more.is.cursor = 0 \/ more.is.cursor < more.from
        /\ \A t \in DOMAIN more.is.rows : t < more.from /\ t >= more.is.cursor
        /\ more.is.cursor \in Nat /\ more.from \in Nat /\ Tickets \subseteq Nat \ {0}
    BY <2>8 DEF PagesGoDown, ListTypes, Answer, Tickets, TicketListAssumption
  <2>10. \A pg \in Page : DOMAIN pg \subseteq Tickets
    BY DEF Page
  <2>11. ASSUME NEW i \in DOMAIN Added
         PROVE  /\ acc.q = more.q /\ acc.cursor = more.from /\ Added[i] \in Page
                /\ \A t \in DOMAIN Added[i] :
                     OrgOf[t] = more.q.org /\ t >= more.from /\ t \in Nat
    <3>1. acc.q = more.q /\ acc.cursor = more.from
      BY <1>1, <2>5, <2>8 DEF PagesGoDown
    <3>2. Added[i] \in Page
      BY <2>2
    <3>3. \A t \in DOMAIN Added[i] : t \in Nat
      BY <2>9, <2>10, <3>2
    <3> QED BY <2>5, <2>8, <3>1, <3>2, <3>3 DEF PagesGoDown
  <2>12. ASSUME NEW i \in DOMAIN acc'.pages, NEW t \in DOMAIN acc'.pages[i]
         PROVE  OrgOf[t] = more.q.org /\ t >= more.is.cursor
    <3>1. CASE i \in DOMAIN Added /\ acc'.pages[i] = Added[i]
      <4>1. OrgOf[t] = more.q.org /\ t >= more.from /\ t \in Nat
        BY <2>11, <2>12, <3>1
      <4>2. t >= more.is.cursor
        BY <2>9, <4>1
      <4> QED BY <4>1, <4>2
    <3>2. CASE acc'.pages[i] = more.is.rows
      BY <2>9, <2>12, <3>2 DEF PagesMatch, OfQuery, OfOrg
    <3> QED BY <2>4, <2>12, <3>1, <3>2
  <2>13. ASSUME NEW i \in DOMAIN Added PROVE DOMAIN Added[i] \cap DOMAIN more.is.rows = {}
    <3> SUFFICES ASSUME NEW t \in DOMAIN Added[i], t \in DOMAIN more.is.rows PROVE FALSE
      OBVIOUS
    <3>1. t >= more.from /\ t < more.from /\ t \in Nat
      BY <2>9, <2>11
    <3> QED BY <2>9, <3>1
  <2>14. \A i, j \in DOMAIN acc'.pages :
           i # j => DOMAIN acc'.pages[i] \cap DOMAIN acc'.pages[j] = {}
    <3> SUFFICES ASSUME NEW i \in DOMAIN acc'.pages, NEW j \in DOMAIN acc'.pages, i # j
                 PROVE  DOMAIN acc'.pages[i] \cap DOMAIN acc'.pages[j] = {}
      OBVIOUS
    <3>1. CASE i \in DOMAIN Added /\ j \in DOMAIN Added
      <4>1. DOMAIN acc.pages[i] \cap DOMAIN acc.pages[j] = {}
        BY <2>5, <2>8, <3>1 DEF PagesGoDown
      <4> QED BY <2>3, <2>5, <3>1, <4>1
    <3>2. CASE i \in DOMAIN Added /\ j = n
      BY <2>3, <2>13, <3>2
    <3>3. CASE i = n /\ j \in DOMAIN Added
      BY <2>3, <2>13, <3>3
    <3> QED BY <2>4, <3>1, <3>2, <3>3
  <2>15. PagesGoDown'
    BY <1>1, <1>z, <1>n, <2>1, <2>12, <2>14 DEF PagesGoDown
  <2>16. ASSUME ~slid PROVE CursorIsSound(acc.q, acc.cursor)' /\ PagesAreFresh'
    <3>1. \A t \in Tickets : t < more.from => Fresh(more.q, t)
      BY <2>8, <2>16 DEF CursorsAreSound, CursorIsSound
    <3>2. ASSUME NEW t \in Tickets, t < more.is.cursor PROVE t < more.from
      <4>1. t \in Nat \ {0} /\ more.is.cursor \in Nat /\ more.from \in Nat
        BY <2>9
      <4>2. more.is.cursor < more.from
        BY <2>9, <3>2, <4>1
      <4> QED BY <3>2, <4>1, <4>2
    <3>3. CursorIsSound(acc.q, acc.cursor)'
      BY <1>3, <2>1, <3>1, <3>2 DEF CursorIsSound
    <3>4. \A t \in DOMAIN more.is.rows : Fresh(more.q, t)
      BY <2>2, <2>9, <2>10, <3>1
    <3>5. \A i \in DOMAIN Added : \A t \in DOMAIN Added[i] : Fresh(more.q, t)
      BY <2>5, <2>8, <2>11, <2>16 DEF PagesAreFresh
    <3>6. \A i \in DOMAIN acc'.pages : \A t \in DOMAIN acc'.pages[i] : Fresh(more.q, t)
      BY <2>4, <3>4, <3>5
    <3> QED BY <1>3, <2>1, <3>3, <3>6 DEF PagesAreFresh
  <2> QED BY <2>15, <2>16
<1> QED BY <1>1, <1>6, <1>7

LEMMA ListStepInv ==
  ASSUME TicketListAssumption, ListIInv, [ListNext]_listVars
  PROVE  ListIInv'
<1> USE DEF ListIInv
<1>z. /\ Nil \in Answer /\ DOMAIN Nil.rows = {} /\ Nil.cursor = 0
      /\ \A q : OfQuery(q, Nil.rows)
  BY NothingIsSound
<1>n. /\ NoMore \in [st: {"none", "asked", "ok", "failed"}, q: Query, from: 0 .. NTickets, is: Answer]
      /\ NoMore.st = "none" /\ NoMore.from = 0 /\ NoMore.is = Nil
  BY NoMoreIsSound DEF ListTypes
<1>d. ASSUME UNCHANGED backVars PROVE \A q, t : Deep(q, t)' = Deep(q, t)
  BY <1>d DEF Deep, Above, Matches, backVars
<1>m. moves \in Nat /\ MaxMoves \in Nat
  BY DEF ListTypes, TicketListAssumption
<1>0. CASE UNCHANGED listVars
  <2>1. UNCHANGED <<opened, prio, gone, moves, query, first, ask, acc, more, stray, slid>>
    BY <1>0 DEF listVars, backVars
  <2>2. opened \in Nat /\ ListTypes'
    BY <2>1 DEF ListTypes, TicketListAssumption
  <2> QED BY <2>1, <2>2, BackendStepInv
<1>1. CASE Open
  <2>1. PICK p \in Prio : prio' = [prio EXCEPT ![opened + 1] = p]
    BY <1>1 DEF Open
  <2>2. /\ opened' = opened + 1 /\ opened < NTickets
        /\ UNCHANGED <<gone, query, first, ask, acc, more, stray, moves, slid>>
    BY <1>1 DEF Open
  <2>3. opened \in Nat /\ NTickets \in Nat
    BY DEF ListTypes, TicketListAssumption
  <2>4. opened' \in 0 .. NTickets /\ opened <= opened'
    BY <2>2, <2>3
  <2>5. prio' \in [Tickets -> Prio] /\ \A t \in 1 .. opened : prio'[t] = prio[t]
    BY <2>1, <2>2, <2>3 DEF ListTypes, Tickets
  <2>6. ListTypes'
    BY <2>2, <2>4, <2>5 DEF ListTypes
  <2> QED BY <2>2, <2>4, <2>5, <2>6, BackendStepInv
<1>2. ASSUME NEW t \in Tickets, Delete(t) PROVE ListIInv'
  <2>1. /\ gone' = gone \cup {t} /\ moves' = moves + 1 /\ moves < MaxMoves
        /\ UNCHANGED <<opened, prio, query, first, ask, acc, more, stray, slid>>
    BY <1>2 DEF Delete
  <2>2. moves' \in 0 .. MaxMoves /\ moves' # 0
    BY <1>m, <2>1
  <2>3. ListTypes'
    BY <2>1, <2>2 DEF ListTypes
  <2> QED BY <2>1, <2>2, <2>3, BackendStepInv
<1>3. ASSUME NEW t \in Tickets, NEW p \in Prio, Reprioritise(t, p) PROVE ListIInv'
  <2>1. /\ prio' = [prio EXCEPT ![t] = p] /\ moves' = moves + 1 /\ moves < MaxMoves
        /\ UNCHANGED <<opened, gone, query, first, ask, acc, more, stray, slid>>
    BY <1>3 DEF Reprioritise
  <2>2. moves' \in 0 .. MaxMoves /\ moves' # 0
    BY <1>m, <2>1
  <2>3. ListTypes'
    BY <2>1, <2>2 DEF ListTypes
  <2> QED BY <2>1, <2>2, <2>3, BackendStepInv
<1>4. ASSUME NEW q \in Query, Choose(q) PROVE ListIInv'
  <2>1. /\ query' = q /\ ask' = Asked /\ Asked.is = Nil
        /\ UNCHANGED <<backVars, first, acc, more, stray, slid>>
    BY <1>4 DEF Choose, Asked
  <2>2. ListTypes' /\ PagesMatch'
    BY <1>z, <2>1 DEF ListTypes, PagesMatch, Asked, backVars
  <2>3. \A r, t : Fresh(r, t) => Fresh(r, t)'
    BY <1>d, <1>z, <2>1 DEF Fresh, backVars
  <2>4. AskIsSound'
    BY <1>z, <2>1 DEF AskIsSound, Tickets
  <2>5. CursorIsSound(first.q, first.is.cursor) => CursorIsSound(first.q, first.is.cursor)'
    BY <2>1, <2>3 DEF CursorIsSound
  <2> QED BY <2>1, <2>2, <2>3, <2>4, <2>5, FreshSuffices DEF CursorsAreSound
<1>5. CASE RetryList
  <2>1. /\ ask' = Asked /\ Asked.is = Nil /\ first' = [first EXCEPT !.st = "null"]
        /\ UNCHANGED <<backVars, query, acc, more, stray, slid>>
    BY <1>5 DEF RetryList, Asked
  <2>2. first'.q = first.q /\ first'.is = first.is
    BY <2>1 DEF ListTypes
  <2>3. ListTypes' /\ PagesMatch'
    BY <1>z, <2>1, <2>2 DEF ListTypes, PagesMatch, Asked, backVars
  <2>4. \A r, t : Fresh(r, t) => Fresh(r, t)'
    BY <1>d, <1>z, <2>1, <2>2 DEF Fresh, backVars
  <2>5. AskIsSound'
    BY <1>z, <2>1 DEF AskIsSound, Tickets
  <2>6. CursorIsSound(first.q, first.is.cursor) => CursorIsSound(first.q, first.is.cursor)'
    BY <2>1, <2>2, <2>4 DEF CursorIsSound
  <2> QED BY <2>1, <2>3, <2>4, <2>5, <2>6, FreshSuffices DEF CursorsAreSound
<1>6. CASE ServeList
  <2> DEFINE l == List(query, NTickets + 1)
             a == AsChecked(l)
  <2>1. UNCHANGED <<query, first, acc, more, stray, slid>> /\ Check(l.rows)
        /\ (ask' = [st |-> "ok", is |-> a] \/ ask' = [st |-> "failed", is |-> Nil])
    BY <1>6 DEF ServeList
  <2>2. /\ l.rows \in SUBSET Tickets /\ l.cursor \in 0 .. NTickets
        /\ \A t \in l.rows : t >= l.cursor /\ ~Deep(query, t)
        /\ \A t \in Tickets : t < l.cursor => Deep(query, t)
    BY ListIsAPage, FirstPageIsShallow DEF ListTypes, TicketListAssumption
  <2>3. a \in Answer /\ OfQuery(query, a.rows) /\ DOMAIN a.rows = l.rows /\ a.cursor = l.cursor
    BY <2>1, ReadIsSound DEF ListTypes, TicketListAssumption
  <2>4. /\ prio' \in [Tickets -> Prio] /\ moves' \in 0 .. MaxMoves
        /\ opened' = opened /\ gone' = gone /\ (moves' = 0 => moves = 0 /\ prio' = prio)
    BY <2>1, <2>2, CheckRaises
  <2> HIDE DEF l, a
  <2>5. /\ ask' \in [st: {"none", "asked", "ok", "failed"}, is: Answer]
        /\ ask'.st # "ok" => ask'.is = Nil
        /\ OfQuery(query, ask'.is.rows)
        /\ \A t \in DOMAIN ask'.is.rows : t >= ask'.is.cursor /\ ~Deep(query, t)
        /\ \A t \in Tickets : t < ask'.is.cursor => Deep(query, t)
    <3>1. CASE ask' = [st |-> "ok", is |-> a]
      BY <2>2, <2>3, <3>1
    <3>2. CASE ask' = [st |-> "failed", is |-> Nil]
      BY <1>z, <3>2 DEF Tickets
    <3> QED BY <2>1, <3>1, <3>2
  <2>6. moves' = 0 => moves = 0 /\ \A q, t : Deep(q, t)' = Deep(q, t)
    BY <1>d, <2>4 DEF backVars
  <2>7. ListTypes' /\ PagesMatch'
    BY <2>1, <2>4, <2>5 DEF ListTypes, PagesMatch
  <2>8. \A r, t : Fresh(r, t) => Fresh(r, t)'
    BY <2>1, <2>5, <2>6 DEF Fresh
  <2>9. AskIsSound'
    BY <2>1, <2>5, <2>6 DEF AskIsSound
  <2>10. CursorIsSound(first.q, first.is.cursor) => CursorIsSound(first.q, first.is.cursor)'
    BY <2>1, <2>8 DEF CursorIsSound
  <2> QED BY <2>1, <2>7, <2>8, <2>9, <2>10, FreshSuffices DEF CursorsAreSound
<1>7. CASE ArriveList
  <2>1. /\ ask' = Idle /\ Idle.is = Nil /\ UNCHANGED <<backVars, query, acc, more, stray>>
        /\ first'.q = query /\ first'.is = ask.is
        /\ first' = [st |-> IF ask.st = "ok" THEN "data" ELSE "error", q |-> query, is |-> ask.is]
        /\ ask.st \in {"ok", "failed"}
        /\ slid' = (slid \/ (ask.st = "ok" /\ moves # 0 /\ (acc.on \/ more.st # "none")))
    BY <1>7 DEF ArriveList, Idle
  <2>2. ListTypes'
    BY <1>z, <2>1 DEF ListTypes, Idle, backVars
  <2>3. PagesMatch'
    BY <1>z, <2>1 DEF PagesMatch
  <2>4. AskIsSound'
    BY <1>z, <2>1 DEF AskIsSound, Tickets
  <2>5. EmptyAtFirst' /\ (PagesGoDown => PagesGoDown')
    BY <2>1 DEF EmptyAtFirst, PagesGoDown
  <2>6. SUFFICES ASSUME ~stray, ~slid' PROVE CursorsAreSound' /\ PagesAreFresh'
    BY <2>1, <2>2, <2>3, <2>4, <2>5
  <2>7. ~slid /\ CursorsAreSound /\ PagesAreFresh
    BY <2>1, <2>6
  <2>8. CursorIsSound(first.q, first.is.cursor)'
    <3> SUFFICES ASSUME NEW t \in Tickets, t < ask.is.cursor PROVE Fresh(query, t)'
      BY <2>1 DEF CursorIsSound
    <3>1. moves = 0 => Deep(query, t)'
      BY <1>d, <2>1 DEF AskIsSound
    <3>2. t \notin DOMAIN ask.is.rows
      <4>1. t \in Nat /\ ask.is.cursor \in Nat
        BY DEF Tickets, ListTypes, Answer, TicketListAssumption
      <4> QED BY <4>1 DEF AskIsSound
    <3> QED BY <1>z, <2>1, <3>1, <3>2 DEF Fresh, backVars
  <2>9. CASE ask.st = "ok" /\ moves # 0
    <3>1. ~acc.on /\ more.st = "none"
      BY <2>1, <2>6, <2>9
    <3>2. acc.pages = <<>> /\ acc.cursor = 0 /\ more.from = 0
      BY <1>n, <3>1 DEF EmptyAtFirst
    <3>3. acc'.pages = <<>> /\ acc'.cursor = 0 /\ more'.from = 0
      BY <2>1, <3>2
    <3>4. CursorIsSound(acc.q, acc.cursor)' /\ CursorIsSound(more.q, more.from)'
      BY <3>3 DEF CursorIsSound, Tickets
    <3>5. PagesAreFresh'
      BY <3>3 DEF PagesAreFresh
    <3> QED BY <2>8, <3>4, <3>5 DEF CursorsAreSound
  <2>10. CASE ask.st = "failed" \/ moves = 0
    <3>1. ask.st = "failed" => ask.is = Nil
      BY DEF AskIsSound
    <3>2. \A r, t : Fresh(r, t) => Fresh(r, t)'
      BY <1>d, <1>z, <2>1, <2>10, <3>1 DEF Fresh, backVars
    <3> QED BY <2>1, <2>7, <2>8, <3>2, FreshSuffices DEF CursorsAreSound
  <2> QED BY <2>1, <2>9, <2>10
<1>8. CASE LoadMore
  <2>1. /\ more' = [st |-> "asked", q |-> query, from |-> Cursor, is |-> Nil]
        /\ more'.q = query /\ more'.from = Cursor /\ more'.is = Nil /\ more'.st # "none"
        /\ UNCHANGED <<backVars, query, first, ask, acc, slid>> /\ Cursor # 0 /\ HasMore
        /\ stray' = (stray \/ Source # query)
    BY <1>8 DEF LoadMore
  <2>2. Cursor \in 0 .. NTickets
    BY DEF Cursor, ListTypes, Answer
  <2>3. ListTypes' /\ EmptyAtFirst'
    BY <1>z, <2>1, <2>2 DEF ListTypes, EmptyAtFirst, backVars
  <2>4. PagesMatch'
    BY <1>z, <2>1 DEF PagesMatch
  <2>5. AskIsSound'
    BY <1>d, <2>1 DEF AskIsSound, backVars
  <2>6. \A r, t : Fresh(r, t) => Fresh(r, t)'
    BY <1>d, <2>1 DEF Fresh, backVars
  <2>7. SUFFICES ASSUME ~stray'
                 PROVE  PagesGoDown' /\ (~slid => CursorsAreSound' /\ PagesAreFresh')
    BY <2>1, <2>3, <2>4, <2>5
  <2>8. ~stray /\ Source = query
    BY <2>1, <2>7
  <2>9. ASSUME acc.on, acc.q.prio = query.prio
        PROVE  acc.q = query /\ acc.cursor = Cursor
    BY <2>1, <2>8, <2>9 DEF CurrentPages, HasMore, Cursor, Source
  <2>10. PagesGoDown'
    BY <1>z, <2>1, <2>8, <2>9 DEF PagesGoDown
  <2>11. ASSUME ~slid PROVE CursorsAreSound' /\ PagesAreFresh'
    <3>1. CursorIsSound(Source, Cursor)
      BY <2>8, <2>11 DEF CursorsAreSound, Source, Cursor
    <3>2. \A t \in Tickets : t < Cursor => Fresh(query, t)
      BY <2>8, <3>1 DEF CursorIsSound
    <3>3. CursorIsSound(more.q, more.from)'
      BY <2>1, <2>6, <3>2 DEF CursorIsSound
    <3>4. CursorIsSound(first.q, first.is.cursor)' /\ CursorIsSound(acc.q, acc.cursor)'
      BY <2>1, <2>6, <2>8, <2>11 DEF CursorsAreSound, CursorIsSound
    <3>5. PagesAreFresh'
      BY <2>1, <2>6, <2>8, <2>11 DEF PagesAreFresh
    <3> QED BY <3>3, <3>4, <3>5 DEF CursorsAreSound
  <2> QED BY <2>10, <2>11
<1>9. CASE ServeMore
  <2> DEFINE l == List(more.q, more.from)
             a == AsChecked(l)
  <2>1. /\ UNCHANGED <<query, first, ask, acc, stray, slid>> /\ more.st = "asked" /\ Check(l.rows)
        /\ \/ more' = [more EXCEPT !.st = "ok", !.is = a]
           \/ more' = [more EXCEPT !.st = "failed"]
    BY <1>9 DEF ServeMore
  <2>2. /\ l.rows \in SUBSET Tickets /\ (l.cursor = 0 \/ l.cursor < more.from)
        /\ \A t \in l.rows : t < more.from /\ t >= l.cursor
    BY ListIsAPage DEF ListTypes, TicketListAssumption
  <2>3. a \in Answer /\ OfQuery(more.q, a.rows) /\ DOMAIN a.rows = l.rows /\ a.cursor = l.cursor
    BY <2>1, ReadIsSound DEF ListTypes, TicketListAssumption
  <2>4. /\ prio' \in [Tickets -> Prio] /\ moves' \in 0 .. MaxMoves
        /\ opened' = opened /\ gone' = gone /\ (moves' = 0 => moves = 0 /\ prio' = prio)
    BY <2>1, <2>2, CheckRaises
  <2> HIDE DEF l, a
  <2>5. /\ more' \in [st: {"none", "asked", "ok", "failed"}, q: Query, from: 0 .. NTickets, is: Answer]
        /\ more'.q = more.q /\ more'.from = more.from /\ more'.st # "none"
        /\ more'.is = a \/ more'.is = more.is
    <3>1. CASE more' = [more EXCEPT !.st = "ok", !.is = a]
      BY <2>3, <3>1 DEF ListTypes
    <3>2. CASE more' = [more EXCEPT !.st = "failed"]
      BY <3>2 DEF ListTypes
    <3> QED BY <2>1, <3>1, <3>2
  <2>6. ListTypes' /\ PagesMatch' /\ EmptyAtFirst'
    BY <2>1, <2>3, <2>4, <2>5 DEF ListTypes, PagesMatch, EmptyAtFirst
  <2>7. moves' = 0 => moves = 0 /\ \A q, t : Deep(q, t)' = Deep(q, t)
    BY <1>d, <2>4 DEF backVars
  <2>8. \A r, t : Fresh(r, t) => Fresh(r, t)'
    BY <2>1, <2>7 DEF Fresh
  <2>9. AskIsSound'
    BY <2>1, <2>7 DEF AskIsSound
  <2>10. (CursorsAreSound => CursorsAreSound') /\ (PagesAreFresh => PagesAreFresh')
    BY <2>1, <2>5, <2>8 DEF CursorsAreSound, CursorIsSound, PagesAreFresh
  <2>11. PagesGoDown => PagesGoDown'
    BY <2>1, <2>2, <2>3, <2>5 DEF PagesGoDown
  <2> QED BY <2>1, <2>6, <2>9, <2>10, <2>11
<1>10. CASE ArriveMore
  BY <1>10, ArriveMoreInv
<1> QED BY <1>0, <1>1, <1>2, <1>3, <1>4, <1>5, <1>6, <1>7, <1>8, <1>9, <1>10 DEF ListNext

LEMMA ScreenHas ==
  ASSUME ListTypes, NEW i \in DOMAIN Screen
  PROVE  /\ i \in Nat
         /\ \/ i = 1 /\ Screen[i] = first.is.rows
            \/ CurrentPages /\ i # 1 /\ i - 1 \in DOMAIN acc.pages /\ Screen[i] = acc.pages[i - 1]
<1>1. <<first.is.rows>> \in Seq(Page) /\ Further \in Seq(Page)
  BY DEF ListTypes, Answer, Further
<1>2. /\ Len(Screen) = 1 + Len(Further) /\ Len(Further) \in Nat
      /\ DOMAIN Screen = 1 .. Len(Screen) /\ DOMAIN Further = 1 .. Len(Further)
      /\ \A k \in 1 .. Len(Screen) :
           Screen[k] = IF k = 1 THEN first.is.rows ELSE Further[k - 1]
  BY <1>1, ConcatProperties DEF Screen
<1>3. i = 1 \/ (i # 1 /\ i - 1 \in DOMAIN Further)
  BY <1>2
<1>4. i # 1 => CurrentPages /\ Further = acc.pages
  BY <1>3 DEF Further
<1> QED BY <1>2, <1>3, <1>4

LEMMA ListIInvSuffices ==
  ASSUME TicketListAssumption, ListIInv
  PROVE  ListIsSound
<1> USE DEF ListIInv
<1>1. ASSUME ~ListLoading, NEW i \in DOMAIN Screen PROVE Passes(Screen[i])
  <2>1. first.q = query
    BY <1>1 DEF ListLoading
  <2>2. CASE Screen[i] = first.is.rows
    BY <2>1, <2>2 DEF PagesMatch, OfQuery, OfPrio, Passes
  <2>3. CASE CurrentPages /\ i - 1 \in DOMAIN acc.pages /\ Screen[i] = acc.pages[i - 1]
    BY <2>3 DEF PagesMatch, OfPrio, Passes, CurrentPages
  <2> QED BY <1>1, <2>2, <2>3, ScreenHas
<1>2. ASSUME ~ListLoading PROVE OfOrg(query.org, first.is.rows)
  BY <1>2 DEF ListLoading, PagesMatch, OfQuery
<1>3. ASSUME ~stray, NEW i \in DOMAIN Further PROVE OfOrg(acc.q.org, Further[i])
  <2>1. i \in DOMAIN acc.pages /\ Further[i] = acc.pages[i]
    BY DEF Further
  <2> QED BY <1>3, <2>1 DEF PagesGoDown, OfOrg
<1>4. ASSUME ~stray, ~slid, ~ListLoading, NEW i \in DOMAIN acc.pages, CurrentPages
      PROVE  DOMAIN first.is.rows \cap DOMAIN acc.pages[i] = {}
  <2>1. first.q = query /\ acc.q.prio = query.prio
    BY <1>4 DEF ListLoading, CurrentPages
  <2> SUFFICES ASSUME NEW t \in DOMAIN first.is.rows, t \in DOMAIN acc.pages[i] PROVE FALSE
    OBVIOUS
  <2>2. OrgOf[t] = query.org /\ OrgOf[t] = acc.q.org /\ Fresh(acc.q, t)
    BY <1>4, <2>1 DEF PagesMatch, OfQuery, OfOrg, PagesGoDown, PagesAreFresh
  <2>3. acc.q = query
    <3>1. acc.q \in Query /\ query \in Query
      BY DEF ListTypes
    <3>2. acc.q.org = query.org /\ acc.q.prio = query.prio
      BY <2>1, <2>2
    <3>3. \A q, r \in Query : q.org = r.org /\ q.prio = r.prio => q = r
      BY DEF Query
    <3> HIDE DEF Query
    <3> QED BY <3>1, <3>2, <3>3
  <2> QED BY <2>1, <2>2, <2>3 DEF Fresh
<1>5. ASSUME ~stray, ~ListLoading, NEW i \in DOMAIN Screen, NEW j \in DOMAIN Screen, i # j,
             ~slid \/ (i # 1 /\ j # 1)
      PROVE  DOMAIN Screen[i] \cap DOMAIN Screen[j] = {}
  <2>1. /\ \/ i = 1 /\ Screen[i] = first.is.rows
           \/ CurrentPages /\ i # 1 /\ i - 1 \in DOMAIN acc.pages /\ Screen[i] = acc.pages[i - 1]
        /\ \/ j = 1 /\ Screen[j] = first.is.rows
           \/ CurrentPages /\ j # 1 /\ j - 1 \in DOMAIN acc.pages /\ Screen[j] = acc.pages[j - 1]
    BY ScreenHas
  <2>2. i \in Nat /\ j \in Nat
    BY ScreenHas
  <2>3. CASE i # 1 /\ j # 1
    <3>1. i - 1 # j - 1
      BY <1>5, <2>2
    <3> QED BY <1>5, <2>1, <2>3, <3>1 DEF PagesGoDown
  <2>4. CASE i = 1 \/ j = 1
    BY <1>4, <1>5, <2>1, <2>4
  <2> QED BY <2>3, <2>4
<1> QED BY <1>1, <1>2, <1>3, <1>5 DEF ListIsSound, RowsPassTheFilter, NoRowTwice

-----------------------------------------------------------------------------
(* The controls of a ticket.                                               *)

ControlsTypes ==
  /\ ticket \in Ticket /\ shown \in Ticket /\ ups \subseteq Change
  /\ crossed \in BOOLEAN /\ behind \in BOOLEAN

OneChangeAtATime == ~crossed => \A u1, u2 \in ups : u1 = u2

\* While nothing happened unseen: until a change is answered the screen shows the
\* ticket there is, and the answer is the ticket there is.
ShownOrAnswered ==
  ~crossed /\ ~behind =>
    /\ (\A u \in ups : u.st # "ok") => shown = ticket
    /\ \A u \in ups : u.st = "ok" => u.ans = ticket

ControlsIInv == ControlsTypes /\ OneChangeAtATime /\ ShownOrAnswered

LEMMA ControlsInitInv ==
  ASSUME ControlsInit
  PROVE  ControlsIInv
BY DEF ControlsInit, ControlsIInv, ControlsTypes, OneChangeAtATime, ShownOrAnswered

LEMMA ChangedType ==
  ASSUME TicketPaneAssumption, ControlsTypes, NEW u \in ups
  PROVE  Changed(u) \in Ticket
<1> /\ ticket \in Ticket /\ u \in Change
  BY DEF ControlsTypes
<1>1. CASE u.op \in Fields
  <2>1. Changed(u) = [ticket EXCEPT !.of[u.op] = u.val]
    BY <1>1 DEF Changed, TicketPaneAssumption
  <2> QED BY <1>1, <2>1 DEF Ticket, Change
<1>2. CASE u.op = "create"
  <2>1. Changed(u) = [is |-> TRUE, of |-> [f \in Fields |-> u.val]]
    BY <1>2 DEF Changed, TicketPaneAssumption
  <2> QED BY <2>1 DEF Ticket, Change
<1>3. CASE u.op = "remove"
  <2>1. Changed(u) = [ticket EXCEPT !.is = FALSE]
    BY <1>3 DEF Changed, TicketPaneAssumption
  <2> QED BY <2>1 DEF Ticket, Change
<1> QED BY <1>1, <1>2, <1>3 DEF Change

\* A further change, alone or not.
LEMMA RequestKeeps ==
  ASSUME ControlsIInv, NEW op \in Fields \cup {"create", "remove"}, NEW v \in Values,
         Request(op, v), UNCHANGED <<ticket, shown, behind>>
  PROVE  ControlsIInv'
<1> DEFINE up == [op |-> op, val |-> v, st |-> "asked", ans |-> shown]
<1>1. up \in Change /\ up.st = "asked"
  BY DEF ControlsIInv, ControlsTypes, Change
<1>2. ups' = ups \cup {up} /\ crossed' = (crossed \/ ups # {})
  BY DEF Request
<1> HIDE DEF up
<1>3. ControlsTypes'
  BY <1>1, <1>2 DEF ControlsIInv, ControlsTypes
<1>4. OneChangeAtATime'
  BY <1>2 DEF OneChangeAtATime
<1>5. ShownOrAnswered'
  <2> SUFFICES ASSUME ~crossed', ~behind' PROVE ShownOrAnswered'
    BY DEF ShownOrAnswered
  <2>1. ~crossed /\ ~behind /\ ups = {} /\ ups' = {up}
    BY <1>2
  <2> QED BY <1>1, <2>1 DEF ControlsIInv, ShownOrAnswered
<1> QED BY <1>3, <1>4, <1>5 DEF ControlsIInv

LEMMA ControlsStepInv ==
  ASSUME TicketPaneAssumption, ControlsIInv, [ControlsNext]_controlVars
  PROVE  ControlsIInv'
<1>0. CASE UNCHANGED controlVars
  BY <1>0 DEF controlVars, ControlsIInv, ControlsTypes, OneChangeAtATime, ShownOrAnswered
<1>1. ASSUME NEW f \in Fields, NEW v \in Values, Update(f, v) PROVE ControlsIInv'
  BY <1>1, RequestKeeps DEF Update
<1>2. ASSUME NEW v \in Values, Escalate(v) PROVE ControlsIInv'
  BY <1>2, RequestKeeps DEF Escalate
<1>3. CASE DeleteTicket
  BY <1>3, RequestKeeps DEF DeleteTicket
<1>4. CASE Elsewhere
  <2>1. ControlsTypes' /\ OneChangeAtATime'
    BY <1>4 DEF Elsewhere, ControlsIInv, ControlsTypes, OneChangeAtATime
  <2>2. ShownOrAnswered'
    BY <1>4 DEF Elsewhere, ShownOrAnswered
  <2> QED BY <2>1, <2>2 DEF ControlsIInv
<1>5. ASSUME NEW u \in ups, ServeUp(u) PROVE ControlsIInv'
  <2>0. u \in Change /\ Changed(u) \in Ticket /\ UNCHANGED <<shown, crossed>>
    BY <1>5, ChangedType DEF ServeUp, ControlsIInv, ControlsTypes
  <2>1. CASE /\ ticket' = Changed(u) /\ behind' = FALSE
             /\ ups' = (ups \ {u}) \cup {[u EXCEPT !.st = "ok", !.ans = Changed(u)]}
    <3> DEFINE ok == [u EXCEPT !.st = "ok", !.ans = Changed(u)]
    <3>1. ok \in Change /\ ok.st = "ok" /\ ok.ans = ticket'
      BY <2>0, <2>1 DEF Change
    <3> HIDE DEF ok
    <3>2. ups' = (ups \ {u}) \cup {ok}
      BY <2>1 DEF ok
    <3>3. ControlsTypes'
      BY <2>0, <2>1, <3>1, <3>2 DEF ControlsIInv, ControlsTypes
    <3>4. ASSUME ~crossed PROVE ups' = {ok}
      BY <3>2, <3>4 DEF ControlsIInv, OneChangeAtATime
    <3>5. OneChangeAtATime' /\ ShownOrAnswered'
      BY <2>0, <3>1, <3>4 DEF OneChangeAtATime, ShownOrAnswered
    <3> QED BY <3>3, <3>5 DEF ControlsIInv
  <2>2. CASE /\ ups' = (ups \ {u}) \cup {[u EXCEPT !.st = "failed"]}
             /\ \/ ticket' = Changed(u) /\ behind' = TRUE
                \/ UNCHANGED <<ticket, behind>>
    <3> DEFINE no == [u EXCEPT !.st = "failed"]
    <3>1. no \in Change /\ no.st = "failed" /\ u.st = "asked"
      BY <1>5, <2>0 DEF Change, ServeUp
    <3> HIDE DEF no
    <3>2. ups' = (ups \ {u}) \cup {no}
      BY <2>2 DEF no
    <3>3. ControlsTypes'
      BY <2>0, <2>2, <3>1, <3>2 DEF ControlsIInv, ControlsTypes
    <3>4. ASSUME ~crossed PROVE ups' = {no} /\ ups = {u}
      BY <3>2, <3>4 DEF ControlsIInv, OneChangeAtATime
    <3>5. OneChangeAtATime' /\ ShownOrAnswered'
      BY <2>0, <2>2, <3>1, <3>4 DEF ControlsIInv, OneChangeAtATime, ShownOrAnswered
    <3> QED BY <3>3, <3>5 DEF ControlsIInv
  <2> QED BY <1>5, <2>1, <2>2 DEF ServeUp
<1>6. ASSUME NEW u \in ups, FinishUp(u) PROVE ControlsIInv'
  <2>1. /\ ups' = ups \ {u} /\ u.st # "asked" /\ UNCHANGED <<ticket, crossed, behind>>
        /\ shown' = IF u.st = "ok" THEN u.ans ELSE shown
    BY <1>6 DEF FinishUp
  <2>2. ControlsTypes'
    BY <2>1 DEF ControlsIInv, ControlsTypes, Change
  <2>3. ASSUME ~crossed PROVE ups' = {} /\ ups = {u}
    BY <2>1, <2>3 DEF ControlsIInv, OneChangeAtATime
  <2>4. OneChangeAtATime' /\ ShownOrAnswered'
    BY <2>1, <2>3 DEF ControlsIInv, OneChangeAtATime, ShownOrAnswered
  <2> QED BY <2>2, <2>4 DEF ControlsIInv
<1> QED BY <1>0, <1>1, <1>2, <1>3, <1>4, <1>5, <1>6 DEF ControlsNext

LEMMA ControlsIInvSuffices == ControlsIInv => ScreenIsTheTicket
BY DEF ControlsIInv, ShownOrAnswered, ScreenIsTheTicket

-----------------------------------------------------------------------------
(* The thread of the inbox.                                                *)

ThreadTypes ==
  /\ place \in {"ticket", "inbox", "notes"} /\ posted \in Messages
  /\ load \in [st: {"none", "asked", "ok", "failed"}, is: Messages]
  /\ thread \in [st: {"null", "data", "error"}, is: Messages]
  /\ draft \in 0 .. MaxDrafts /\ drafts \in 0 .. MaxDrafts
  /\ sends \subseteq Send /\ IsFiniteSet(sends) /\ lost \in [1 .. MaxDrafts -> Nat]

NumbersAreUnique == \A s1, s2 \in sends : s1.nr = s2.nr => s1 = s2

\* Nothing is written before the thread is there, and once it is it is not read again.
InboxWaits ==
  place = "inbox" =>
    /\ thread.st # "data" => /\ sends = {} /\ posted = <<>> /\ load.is = <<>>
                             /\ \A d \in 1 .. MaxDrafts : lost[d] = 0
    /\ thread.st = "data" => load.st = "none"

\* Replies of a draft that are posted and not yet on the screen.
Unshown(d) == {s \in sends : s.st = "ok" /\ s.of = d}

ShownOrOnItsWay ==
  place = "inbox" /\ thread.st = "data" =>
    \A d \in 1 .. MaxDrafts :
      Count(thread.is, d) + Cardinality(Unshown(d)) + lost[d] = Count(posted, d)

ThreadIInv == ThreadTypes /\ NumbersAreUnique /\ InboxWaits /\ ShownOrOnItsWay

LEMMA CountOfEmpty ==
  ASSUME NEW d PROVE Count(<<>>, d) = 0
<1>1. {i \in DOMAIN <<>> : <<>>[i] = d} = {}
  OBVIOUS
<1> QED BY <1>1, FS_EmptySet DEF Count

LEMMA CountOfAppend ==
  ASSUME NEW seq \in Seq(1 .. MaxDrafts), NEW e \in 1 .. MaxDrafts, NEW d
  PROVE  /\ Count(seq, d) \in Nat
         /\ Count(Append(seq, e), d) = IF e = d THEN Count(seq, d) + 1 ELSE Count(seq, d)
<1> DEFINE Old == {i \in DOMAIN seq : seq[i] = d}
           New == {i \in DOMAIN Append(seq, e) : Append(seq, e)[i] = d}
           n == Len(seq) + 1
<1>1. /\ DOMAIN seq = 1 .. Len(seq) /\ Len(seq) \in Nat
      /\ DOMAIN Append(seq, e) = 1 .. n /\ Append(seq, e)[n] = e
      /\ \A i \in 1 .. Len(seq) : Append(seq, e)[i] = seq[i]
  BY AppendProperties
<1>2. IsFiniteSet(Old) /\ n \notin Old
  <2>1. Old \in SUBSET (1 .. Len(seq))
    BY <1>1
  <2> HIDE DEF Old
  <2>2. IsFiniteSet(1 .. Len(seq))
    BY <1>1, FS_Interval
  <2>3. n \notin 1 .. Len(seq)
    BY <1>1
  <2> QED BY <2>1, <2>2, <2>3, FS_Subset
<1>3. New = IF e = d THEN Old \cup {n} ELSE Old
  BY <1>1
<1> HIDE DEF Old, New, n
<1>4. Cardinality(Old) \in Nat /\ Cardinality(Old \cup {n}) = Cardinality(Old) + 1
  BY <1>2, FS_AddElement, FS_CardinalityType
<1>5. Count(seq, d) = Cardinality(Old) /\ Count(Append(seq, e), d) = Cardinality(New)
  BY DEF Count, Old, New
<1> QED BY <1>3, <1>4, <1>5

LEMMA ThreadInitInv ==
  ASSUME TicketPaneAssumption, ThreadInit
  PROVE  ThreadIInv
<1>1. <<>> \in Messages
  BY DEF Messages
<1> QED BY <1>1, FS_EmptySet DEF TicketPaneAssumption, ThreadInit, ThreadIInv, ThreadTypes,
        NumbersAreUnique, InboxWaits, ShownOrOnItsWay

\* Serving or finishing a post that is under way, its answer or its end.
LEMMA ThreadStepInv ==
  ASSUME TicketPaneAssumption, ThreadIInv, [ThreadNext]_threadVars
  PROVE  ThreadIInv'
<1> USE DEF ThreadIInv
<1>e. <<>> \in Messages
  BY DEF Messages
<1>0. CASE UNCHANGED threadVars
  BY <1>0 DEF threadVars, ThreadTypes, NumbersAreUnique, InboxWaits, ShownOrOnItsWay, Unshown
<1>1. CASE ServeLoad
  <2>1. ThreadTypes' /\ NumbersAreUnique'
    BY <1>1, <1>e DEF ServeLoad, Loaded, ThreadTypes, NumbersAreUnique
  <2>2. InboxWaits' /\ ShownOrOnItsWay'
    BY <1>1 DEF ServeLoad, Loaded, ThreadTypes, InboxWaits, ShownOrOnItsWay, Unshown
  <2> QED BY <2>1, <2>2
<1>2. CASE ArriveLoad
  <2>1. /\ load' = [st |-> "none", is |-> <<>>] /\ load.st \in {"ok", "failed"}
        /\ thread' = [st |-> IF load.st = "ok" THEN "data" ELSE "error", is |-> load.is]
        /\ UNCHANGED <<place, posted, draft, drafts, sends, lost>>
    BY <1>2 DEF ArriveLoad, Loaded
  <2>2. ThreadTypes' /\ NumbersAreUnique'
    BY <2>1, <1>e DEF ThreadTypes, NumbersAreUnique
  <2>3. InboxWaits'
    BY <2>1 DEF InboxWaits
  <2>4. ShownOrOnItsWay'
    <3> SUFFICES ASSUME place = "inbox", NEW d \in 1 .. MaxDrafts
                 PROVE  Count(thread'.is, d) + Cardinality(Unshown(d)') + lost[d] = Count(posted, d)
      BY <2>1 DEF ShownOrOnItsWay
    <3>1. thread'.is = <<>> /\ posted = <<>> /\ sends' = {} /\ lost[d] = 0
      BY <2>1 DEF InboxWaits
    <3>2. Unshown(d)' = {}
      BY <3>1 DEF Unshown
    <3> QED BY <3>1, <3>2, CountOfEmpty, FS_EmptySet
  <2> QED BY <2>2, <2>3, <2>4
<1>3. CASE RetryLoad
  <2>1. /\ load' = [st |-> "asked", is |-> <<>>] /\ thread.st = "error"
        /\ thread' = [thread EXCEPT !.st = "null"]
        /\ UNCHANGED <<place, posted, draft, drafts, sends, lost>>
    BY <1>3 DEF RetryLoad, Loaded
  <2>2. thread'.st = "null" /\ thread'.is = thread.is
    BY <2>1 DEF ThreadTypes
  <2>3. ThreadTypes' /\ NumbersAreUnique'
    BY <2>1, <1>e DEF ThreadTypes, NumbersAreUnique
  <2>4. InboxWaits' /\ ShownOrOnItsWay'
    BY <2>1, <2>2 DEF InboxWaits, ShownOrOnItsWay
  <2> QED BY <2>3, <2>4
<1>4. CASE Write
  <2>1. ThreadTypes' /\ NumbersAreUnique'
    BY <1>4 DEF TicketPaneAssumption, Write, ThreadTypes, NumbersAreUnique
  <2>2. InboxWaits' /\ ShownOrOnItsWay'
    BY <1>4 DEF Write, InboxWaits, ShownOrOnItsWay, Unshown
  <2> QED BY <2>1, <2>2
<1>5. CASE Post
  <2>1. PICK nr \in 1 .. MaxPosts :
          /\ \A s \in sends : s.nr # nr
          /\ sends' = sends \cup {[of |-> draft, nr |-> nr, st |-> "asked"]}
    BY <1>5 DEF Post
  <2> DEFINE new == [of |-> draft, nr |-> nr, st |-> "asked"]
  <2>2. /\ new \in Send /\ new.st = "asked" /\ new.nr = nr
        /\ UNCHANGED <<place, posted, load, thread, draft, drafts, lost>>
    BY <1>5 DEF Post, ThreadTypes, Send, TicketPaneAssumption
  <2> HIDE DEF new
  <2>3. sends' = sends \cup {new}
    BY <2>1 DEF new
  <2>4. ThreadTypes'
    BY <2>2, <2>3, FS_AddElement DEF ThreadTypes
  <2>5. NumbersAreUnique'
    BY <2>1, <2>2, <2>3 DEF NumbersAreUnique
  <2>6. InboxWaits'
    BY <1>5, <2>2 DEF InboxWaits, Post, Form
  <2>7. \A d : Unshown(d)' = Unshown(d)
    BY <2>2, <2>3 DEF Unshown
  <2>8. ShownOrOnItsWay'
    BY <2>2, <2>7 DEF ShownOrOnItsWay
  <2> QED BY <2>4, <2>5, <2>6, <2>8
<1>6. ASSUME NEW s \in sends, ServePost(s) PROVE ThreadIInv'
  <2>1. /\ s \in Send /\ s.st = "asked" /\ UNCHANGED <<place, load, thread, draft, drafts>>
    BY <1>6 DEF ServePost, ThreadTypes
  <2>2. place = "inbox" => thread.st = "data"
    BY DEF InboxWaits
  <2>3. CASE /\ posted' = Append(posted, s.of) /\ lost' = lost
             /\ sends' = (sends \ {s}) \cup {[s EXCEPT !.st = "ok"]}
    <3> DEFINE ok == [s EXCEPT !.st = "ok"]
    <3>1. ok \in Send /\ ok.st = "ok" /\ ok.nr = s.nr /\ ok.of = s.of
      BY <2>1 DEF Send
    <3> HIDE DEF ok
    <3>2. sends' = (sends \ {s}) \cup {ok}
      BY <2>3 DEF ok
    <3>3. s.of \in 1 .. MaxDrafts /\ posted \in Seq(1 .. MaxDrafts)
      BY <2>1 DEF Send, ThreadTypes, Messages
    <3>4. posted' \in Messages
      BY <2>3, <3>3, AppendProperties DEF Messages
    <3>5. IsFiniteSet(sends')
      BY <3>2, FS_AddElement, FS_RemoveElement DEF ThreadTypes
    <3>6. ThreadTypes'
      BY <2>1, <2>3, <3>1, <3>2, <3>4, <3>5 DEF ThreadTypes
    <3>7. NumbersAreUnique' /\ ok \notin sends
      BY <2>1, <3>1, <3>2 DEF NumbersAreUnique
    <3>8. InboxWaits'
      BY <2>1, <2>2 DEF InboxWaits
    <3>9. ShownOrOnItsWay'
      <4> SUFFICES ASSUME place = "inbox", NEW d \in 1 .. MaxDrafts
                   PROVE  Count(thread.is, d) + Cardinality(Unshown(d)') + lost[d] = Count(posted', d)
        BY <2>1, <2>3 DEF ShownOrOnItsWay
      <4>1. /\ Count(posted, d) \in Nat
            /\ Count(posted', d) = IF s.of = d THEN Count(posted, d) + 1 ELSE Count(posted, d)
        <5>1. /\ Count(posted, d) \in Nat
              /\ Count(Append(posted, s.of), d)
                   = IF s.of = d THEN Count(posted, d) + 1 ELSE Count(posted, d)
          BY <3>3, CountOfAppend
        <5> QED BY <2>3, <5>1
      <4>2. /\ Unshown(d)' = IF s.of = d THEN Unshown(d) \cup {ok} ELSE Unshown(d)
            /\ ok \notin Unshown(d)
        BY <2>1, <3>1, <3>2, <3>7 DEF Unshown
      <4>3. IsFiniteSet(Unshown(d))
        BY FS_Subset DEF ThreadTypes, Unshown
      <4>4. /\ Cardinality(Unshown(d)) \in Nat
            /\ Cardinality(Unshown(d)')
                 = IF s.of = d THEN Cardinality(Unshown(d)) + 1 ELSE Cardinality(Unshown(d))
        BY <4>2, <4>3, FS_AddElement, FS_CardinalityType
      <4>5. Count(thread.is, d) \in Nat
        <5>1. thread.is \in Seq(1 .. MaxDrafts)
          BY DEF ThreadTypes, Messages
        <5> QED BY <5>1, CountOfAppend
      <4>6. Count(thread.is, d) + Cardinality(Unshown(d)) + lost[d] = Count(posted, d)
            /\ lost[d] \in Nat
        BY <2>2 DEF ShownOrOnItsWay, ThreadTypes
      <4> QED BY <4>1, <4>4, <4>5, <4>6
    <3> QED BY <3>6, <3>7, <3>8, <3>9
  <2>4. CASE /\ sends' = (sends \ {s}) \cup {[s EXCEPT !.st = "failed"]}
             /\ UNCHANGED <<posted, lost>>
    <3> DEFINE no == [s EXCEPT !.st = "failed"]
    <3>1. no \in Send /\ no.st = "failed" /\ no.nr = s.nr
      BY <2>1 DEF Send
    <3> HIDE DEF no
    <3>2. sends' = (sends \ {s}) \cup {no}
      BY <2>4 DEF no
    <3>5. IsFiniteSet(sends')
      BY <3>2, FS_AddElement, FS_RemoveElement DEF ThreadTypes
    <3>6. ThreadTypes'
      BY <2>1, <2>4, <3>1, <3>2, <3>5 DEF ThreadTypes
    <3>7. NumbersAreUnique'
      BY <2>1, <3>1, <3>2 DEF NumbersAreUnique
    <3>8. InboxWaits'
      BY <2>1, <2>2 DEF InboxWaits
    <3>9. \A d : Unshown(d)' = Unshown(d)
      BY <2>1, <3>1, <3>2 DEF Unshown
    <3>10. ShownOrOnItsWay'
      BY <2>1, <2>4, <3>9 DEF ShownOrOnItsWay
    <3> QED BY <3>6, <3>7, <3>8, <3>10
  <2>5. CASE /\ posted' = Append(posted, s.of) /\ lost' = [lost EXCEPT ![s.of] = @ + 1]
             /\ sends' = (sends \ {s}) \cup {[s EXCEPT !.st = "failed"]}
    <3> DEFINE no == [s EXCEPT !.st = "failed"]
    <3>1. no \in Send /\ no.st = "failed" /\ no.nr = s.nr
      BY <2>1 DEF Send
    <3> HIDE DEF no
    <3>2. sends' = (sends \ {s}) \cup {no}
      BY <2>5 DEF no
    <3>3. s.of \in 1 .. MaxDrafts /\ posted \in Seq(1 .. MaxDrafts)
      BY <2>1 DEF Send, ThreadTypes, Messages
    <3>4. posted' \in Messages
      BY <2>5, <3>3, AppendProperties DEF Messages
    <3>5. IsFiniteSet(sends')
      BY <3>2, FS_AddElement, FS_RemoveElement DEF ThreadTypes
    <3>6. /\ lost' \in [1 .. MaxDrafts -> Nat]
          /\ \A d \in 1 .. MaxDrafts : lost'[d] = IF s.of = d THEN lost[d] + 1 ELSE lost[d]
      BY <2>5, <3>3 DEF ThreadTypes
    <3>7. ThreadTypes'
      BY <2>1, <3>1, <3>2, <3>4, <3>5, <3>6 DEF ThreadTypes
    <3>8. NumbersAreUnique'
      BY <2>1, <3>1, <3>2 DEF NumbersAreUnique
    <3>9. InboxWaits'
      BY <2>1, <2>2 DEF InboxWaits
    <3>10. \A d : Unshown(d)' = Unshown(d)
      BY <2>1, <3>1, <3>2 DEF Unshown
    <3>11. ShownOrOnItsWay'
      <4> SUFFICES ASSUME place = "inbox", NEW d \in 1 .. MaxDrafts
                   PROVE  Count(thread.is, d) + Cardinality(Unshown(d)) + lost'[d] = Count(posted', d)
        BY <2>1, <3>10 DEF ShownOrOnItsWay
      <4>1. Count(posted', d) = IF s.of = d THEN Count(posted, d) + 1 ELSE Count(posted, d)
        <5>1. Count(Append(posted, s.of), d)
                = IF s.of = d THEN Count(posted, d) + 1 ELSE Count(posted, d)
          BY <3>3, CountOfAppend
        <5> QED BY <2>5, <5>1
      <4>2. Cardinality(Unshown(d)) \in Nat
        <5>1. IsFiniteSet(Unshown(d))
          BY FS_Subset DEF ThreadTypes, Unshown
        <5> QED BY <5>1, FS_CardinalityType
      <4>3. Count(thread.is, d) \in Nat
        <5>1. thread.is \in Seq(1 .. MaxDrafts)
          BY DEF ThreadTypes, Messages
        <5> QED BY <3>3, <5>1, CountOfAppend
      <4>4. Count(thread.is, d) + Cardinality(Unshown(d)) + lost[d] = Count(posted, d)
            /\ lost[d] \in Nat
        BY <2>2 DEF ShownOrOnItsWay, ThreadTypes
      <4> QED BY <3>6, <4>1, <4>2, <4>3, <4>4
    <3> QED BY <3>7, <3>8, <3>9, <3>11
  <2> QED BY <1>6, <2>3, <2>4, <2>5 DEF ServePost
<1>7. ASSUME NEW s \in sends, FinishPost(s) PROVE ThreadIInv'
  <2>1. /\ s \in Send /\ sends' = sends \ {s} /\ UNCHANGED <<place, posted, load, drafts, lost>>
    BY <1>7 DEF FinishPost, ThreadTypes
  <2>2. place = "inbox" => thread.st = "data"
    BY DEF InboxWaits
  <2>3. IsFiniteSet(sends') /\ NumbersAreUnique'
    BY <2>1, FS_RemoveElement DEF ThreadTypes, NumbersAreUnique
  <2>4. CASE s.st = "ok" /\ thread' = Appended(s) /\ draft' = 0
    <3>1. s.of \in 1 .. MaxDrafts
      BY <2>1 DEF Send
    <3>2. thread' \in [st: {"null", "data", "error"}, is: Messages]
      <4>1. CASE thread.st = "data"
        <5>1. Appended(s) = [thread EXCEPT !.is = Append(@, s.of)]
          BY <4>1 DEF Appended
        <5>2. Append(thread.is, s.of) \in Messages
          BY <3>1, AppendProperties DEF ThreadTypes, Messages
        <5> QED BY <2>4, <5>1, <5>2 DEF ThreadTypes
      <4>2. CASE thread.st # "data" /\ place = "notes"
        <5>1. Appended(s) = [st |-> "data", is |-> <<s.of>>]
          BY <4>2 DEF Appended
        <5>2. <<s.of>> \in Messages
          BY <3>1 DEF Messages
        <5> QED BY <2>4, <5>1, <5>2
      <4>3. CASE thread.st # "data" /\ place # "notes"
        <5>1. Appended(s) = [st |-> "null", is |-> <<>>]
          BY <4>3 DEF Appended
        <5> QED BY <1>e, <2>4, <5>1
      <4> QED BY <4>1, <4>2, <4>3
    <3>3. ThreadTypes'
      BY <2>1, <2>3, <2>4, <3>2 DEF ThreadTypes, TicketPaneAssumption
    <3>4. ASSUME place = "inbox"
          PROVE  thread'.st = "data" /\ thread'.is = Append(thread.is, s.of)
      <4>1. Appended(s) = [thread EXCEPT !.is = Append(@, s.of)]
        BY <2>2, <3>4 DEF Appended
      <4> QED BY <2>2, <2>4, <3>4, <4>1 DEF ThreadTypes
    <3>5. InboxWaits'
      BY <2>1, <2>2, <3>4 DEF InboxWaits
    <3>6. ShownOrOnItsWay'
      <4> SUFFICES ASSUME place = "inbox", NEW d \in 1 .. MaxDrafts
                   PROVE  Count(thread'.is, d) + Cardinality(Unshown(d)') + lost[d] = Count(posted, d)
        BY <2>1 DEF ShownOrOnItsWay
      <4>1. thread.is \in Seq(1 .. MaxDrafts)
        BY DEF ThreadTypes, Messages
      <4>2. /\ Count(thread.is, d) \in Nat
            /\ Count(thread'.is, d)
                 = IF s.of = d THEN Count(thread.is, d) + 1 ELSE Count(thread.is, d)
        <5>1. /\ Count(thread.is, d) \in Nat
              /\ Count(Append(thread.is, s.of), d)
                   = IF s.of = d THEN Count(thread.is, d) + 1 ELSE Count(thread.is, d)
          BY <3>1, <4>1, CountOfAppend
        <5> QED BY <3>4, <5>1
      <4>3. /\ Unshown(d)' = IF s.of = d THEN Unshown(d) \ {s} ELSE Unshown(d)
            /\ s.of = d => s \in Unshown(d)
        BY <2>1, <2>4 DEF Unshown
      <4>4. IsFiniteSet(Unshown(d))
        BY FS_Subset DEF ThreadTypes, Unshown
      <4>5. /\ Cardinality(Unshown(d)) \in Nat
            /\ Cardinality(Unshown(d)')
                 = IF s.of = d THEN Cardinality(Unshown(d)) - 1 ELSE Cardinality(Unshown(d))
        BY <4>3, <4>4, FS_RemoveElement, FS_CardinalityType
      <4>6. Count(thread.is, d) + Cardinality(Unshown(d)) + lost[d] = Count(posted, d)
            /\ lost[d] \in Nat
        BY <2>2 DEF ShownOrOnItsWay, ThreadTypes
      <4> QED BY <4>2, <4>5, <4>6
    <3> QED BY <2>3, <3>3, <3>5, <3>6
  <2>5. CASE s.st = "failed" /\ UNCHANGED <<thread, draft>>
    <3>1. ThreadTypes' /\ InboxWaits'
      BY <2>1, <2>2, <2>3, <2>5 DEF ThreadTypes, InboxWaits
    <3>2. \A d : Unshown(d)' = Unshown(d)
      BY <2>1, <2>5 DEF Unshown
    <3>3. ShownOrOnItsWay'
      BY <2>1, <2>5, <3>2 DEF ShownOrOnItsWay
    <3> QED BY <2>3, <3>1, <3>3
  <2> QED BY <1>7, <2>4, <2>5 DEF FinishPost
<1> QED BY <1>0, <1>1, <1>2, <1>3, <1>4, <1>5, <1>6, <1>7 DEF ThreadNext

LEMMA ThreadIInvSuffices ==
  ASSUME ThreadIInv
  PROVE  InboxThreadIsWhole
<1> SUFFICES ASSUME place = "inbox", thread.st = "data", sends = {},
                    NEW d \in 1 .. MaxDrafts
             PROVE  Count(posted, d) = Count(thread.is, d) + lost[d]
  BY DEF InboxThreadIsWhole
<1>1. Unshown(d) = {}
  BY DEF Unshown
<1>2. Count(thread.is, d) + Cardinality(Unshown(d)) + lost[d] = Count(posted, d)
      /\ lost[d] \in Nat
  BY DEF ThreadIInv, ShownOrOnItsWay, ThreadTypes
<1>3. Count(thread.is, d) \in Nat
  <2>1. thread.is \in Seq(1 .. MaxDrafts)
    BY DEF ThreadIInv, ThreadTypes, Messages
  <2> QED BY <2>1, CountOfAppend
<1> QED BY <1>1, <1>2, <1>3, FS_EmptySet

-----------------------------------------------------------------------------
(* The inbox.                                                              *)

Marks  == [Convs -> Nat]
Reads  == [st: {"none", "asked", "ok", "failed", "error"}, convs: SUBSET Convs, vers: Marks]
Ticked == [op: {"change", "remove"}, of: Convs, st: {"asked", "ok", "failed"}, ver: Nat]

InboxTypes ==
  /\ exists \subseteq Convs /\ version \in Marks /\ changes \in Nat
  /\ reads \in [Lists -> Reads]
  /\ rows \subseteq Convs /\ ticketsOf \in Marks /\ overrides \in Marks
  /\ calls \subseteq Ticked /\ mine \in Marks

\* A change that was answered is later than all this page had been answered.
AnswersComeLater ==
  /\ \A c \in Convs : overrides[c] = mine[c] /\ mine[c] <= changes
  /\ \A call \in calls :
       call.op = "change" /\ call.st = "ok" =>
         mine[call.of] < call.ver /\ call.ver <= changes

\* Of each conversation one change at a time is under way.
OneChangeEach ==
  \A u, v \in calls : u.op = "change" /\ v.op = "change" /\ u.of = v.of => u = v

InboxIInv == InboxTypes /\ (~tangled => AnswersComeLater /\ OneChangeEach)

LEMMA NoMarks == None0 \in Marks /\ \A c \in Convs : None0[c] = 0
BY DEF None0, Marks

LEMMA AskedBothType == AskedBoth \in [Lists -> Reads]
BY NoMarks DEF AskedBoth, Reads

LEMMA InboxInitInv ==
  ASSUME InboxInit
  PROVE  InboxIInv
<1>1. version \in Marks
  BY DEF InboxInit, Marks
<1> QED BY <1>1, NoMarks, AskedBothType DEF InboxInit, InboxIInv, InboxTypes,
        AnswersComeLater, OneChangeEach

LEMMA StartKeeps ==
  ASSUME InboxIInv, NEW op \in {"change", "remove"}, Start(op)
  PROVE  InboxIInv'
<1> DEFINE call == [op |-> op, of |-> selected, st |-> "asked", ver |-> 0]
<1>1. /\ calls' = calls \cup {call}
      /\ tangled' = (tangled \/ (op = "change" /\ \E other \in calls : other.of = selected))
      /\ UNCHANGED <<exists, version, changes, reads, rows, ticketsOf, overrides, selected, mine>>
  BY DEF Start
<1>2. call \in Ticked /\ call.st = "asked" /\ call.op = op /\ call.of = selected
  BY DEF Start, InboxIInv, InboxTypes, Ticked
<1> HIDE DEF call
<1>3. InboxTypes'
  BY <1>1, <1>2 DEF InboxIInv, InboxTypes
<1>4. ASSUME ~tangled' PROVE AnswersComeLater' /\ OneChangeEach'
  <2>1. ~tangled /\ (op = "change" => \A other \in calls : other.of # selected)
    BY <1>1, <1>4
  <2>2. AnswersComeLater'
    BY <1>1, <1>2, <2>1 DEF InboxIInv, AnswersComeLater
  <2>3. OneChangeEach'
    BY <1>1, <1>2, <2>1 DEF InboxIInv, OneChangeEach
  <2> QED BY <2>2, <2>3
<1> QED BY <1>3, <1>4 DEF InboxIInv

\* An answer to a call under way.
LEMMA ServeCallKeeps ==
  ASSUME InboxIInv, NEW call \in calls, ServeCall(call)
  PROVE  InboxIInv'
<1> USE DEF InboxIInv
<1>1. /\ call \in Ticked /\ call.st = "asked"
      /\ UNCHANGED <<reads, rows, ticketsOf, overrides, selected, mine, tangled>>
  BY DEF ServeCall, InboxTypes
<1>2. CASE /\ call.op = "change" /\ call.of \in exists
           /\ changes' = changes + 1 /\ version' = [version EXCEPT ![call.of] = changes + 1]
           /\ calls' = (calls \ {call}) \cup {[call EXCEPT !.st = "ok", !.ver = changes + 1]}
           /\ UNCHANGED exists
  <2> DEFINE done == [call EXCEPT !.st = "ok", !.ver = changes + 1]
  <2>1. /\ done \in Ticked /\ done.op = call.op /\ done.of = call.of
        /\ done.ver = changes + 1
    <3>1. changes + 1 \in Nat
      BY DEF InboxTypes
    <3> HIDE DEF InboxIInv
    <3> QED BY <1>1, <3>1 DEF Ticked
  <2> HIDE DEF done
  <2>2. calls' = (calls \ {call}) \cup {done}
    BY <1>2 DEF done
  <2>3. changes + 1 \in Nat /\ version' \in Marks
    BY <1>2 DEF InboxTypes, Marks
  <2>4. InboxTypes'
    BY <1>1, <1>2, <2>1, <2>2, <2>3 DEF InboxTypes
  <2>5. AnswersComeLater => AnswersComeLater'
    <3> SUFFICES ASSUME AnswersComeLater PROVE AnswersComeLater'
      OBVIOUS
    <3>1. \A c \in Convs : overrides[c] = mine[c] /\ mine[c] \in Nat /\ mine[c] <= changes
      BY DEF AnswersComeLater, InboxTypes, Marks
    <3>2. \A c \in Convs : overrides[c] = mine[c] /\ mine[c] <= changes + 1 /\ mine[c] < changes + 1
      BY <3>1 DEF InboxTypes
    <3>3. ASSUME NEW u \in calls, u.op = "change", u.st = "ok"
          PROVE  mine[u.of] < u.ver /\ u.ver <= changes + 1
      <4>1. mine[u.of] < u.ver /\ u.ver <= changes /\ u.ver \in Nat
        BY <3>3 DEF AnswersComeLater, InboxTypes, Ticked
      <4> QED BY <4>1 DEF InboxTypes
    <3>4. mine[done.of] < done.ver /\ done.ver <= changes + 1
      BY <1>1, <2>1, <3>2 DEF InboxTypes, Ticked
    <3> QED BY <1>1, <1>2, <2>2, <3>2, <3>3, <3>4 DEF AnswersComeLater
  <2>6. OneChangeEach => OneChangeEach'
    BY <1>1, <1>2, <2>1, <2>2 DEF OneChangeEach
  <2> QED BY <1>1, <2>4, <2>5, <2>6
<1>3. ASSUME NEW done, calls' = (calls \ {call}) \cup {done}, done \in Ticked,
             done.op = call.op, done.of = call.of, done.op = "change" => done.st # "ok",
             changes' = changes, exists' \subseteq Convs, version' \in Marks
      PROVE  InboxIInv'
  <2>1. InboxTypes'
    BY <1>1, <1>3 DEF InboxTypes
  <2>2. AnswersComeLater => AnswersComeLater'
    BY <1>1, <1>3 DEF AnswersComeLater
  <2>3. OneChangeEach => OneChangeEach'
    BY <1>1, <1>3 DEF OneChangeEach
  <2> QED BY <1>1, <2>1, <2>2, <2>3
<1>4. CASE /\ call.op = "remove" /\ call.of \in exists
           /\ exists' = exists \ {call.of} /\ version' = [version EXCEPT ![call.of] = 0]
           /\ calls' = (calls \ {call}) \cup {[call EXCEPT !.st = "ok"]}
           /\ UNCHANGED changes
  <2> DEFINE done == [call EXCEPT !.st = "ok"]
  <2>1. done \in Ticked /\ done.op = call.op /\ done.of = call.of /\ done.op # "change"
    BY <1>1, <1>4 DEF Ticked
  <2>2. version' \in Marks /\ exists' \subseteq Convs
    BY <1>4 DEF InboxTypes, Marks
  <2> HIDE DEF done
  <2>3. calls' = (calls \ {call}) \cup {done}
    BY <1>4 DEF done
  <2> QED BY <1>3, <1>4, <2>1, <2>2, <2>3
<1>5. CASE /\ calls' = (calls \ {call}) \cup {[call EXCEPT !.st = "failed"]}
           /\ UNCHANGED <<exists, version, changes>>
  <2> DEFINE done == [call EXCEPT !.st = "failed"]
  <2>1. done \in Ticked /\ done.op = call.op /\ done.of = call.of /\ done.st # "ok"
    BY <1>1 DEF Ticked
  <2>2. version' \in Marks /\ exists' \subseteq Convs
    BY <1>5 DEF InboxTypes
  <2> HIDE DEF done
  <2>3. calls' = (calls \ {call}) \cup {done}
    BY <1>5 DEF done
  <2> QED BY <1>3, <1>5, <2>1, <2>2, <2>3
<1> QED BY <1>2, <1>4, <1>5 DEF ServeCall

LEMMA FinishCallKeeps ==
  ASSUME InboxIInv, NEW call \in calls, FinishCall(call)
  PROVE  InboxIInv'
<1> USE DEF InboxIInv
<1>1. /\ call \in Ticked /\ call.st # "asked" /\ calls' = calls \ {call}
      /\ UNCHANGED <<exists, version, changes, rows, ticketsOf, tangled>>
  BY DEF FinishCall, InboxTypes
<1>2. OneChangeEach => OneChangeEach'
  BY <1>1 DEF OneChangeEach
<1>3. CASE /\ call.st = "ok" /\ call.op = "change"
           /\ overrides' = [overrides EXCEPT ![call.of] = call.ver]
           /\ mine' = [mine EXCEPT ![call.of] = Max({@, call.ver})]
           /\ UNCHANGED <<selected, reads>>
  <2>1. overrides' \in Marks /\ call.of \in Convs /\ call.ver \in Nat /\ mine[call.of] \in Nat
    BY <1>1, <1>3 DEF InboxTypes, Marks, Ticked
  <2>2. Max({mine[call.of], call.ver}) \in Nat
    <3>1. mine[call.of] <= call.ver \/ call.ver <= mine[call.of]
      BY <2>1
    <3>2. {mine[call.of], call.ver} = {call.ver, mine[call.of]}
      OBVIOUS
    <3>3. \/ Max({mine[call.of], call.ver}) = call.ver
          \/ Max({mine[call.of], call.ver}) = mine[call.of]
      BY <2>1, <3>1, <3>2, MaxOfTwo
    <3> QED BY <2>1, <3>3
  <2>3. mine' \in Marks
    BY <1>3, <2>1, <2>2 DEF InboxTypes, Marks
  <2>4. InboxTypes'
    BY <1>1, <1>3, <2>1, <2>3 DEF InboxTypes
  <2>5. ASSUME AnswersComeLater, OneChangeEach PROVE AnswersComeLater'
    <3>1. mine[call.of] < call.ver /\ call.ver <= changes
      BY <1>3, <2>5 DEF AnswersComeLater
    <3>2. Max({mine[call.of], call.ver}) = call.ver
      BY <2>1, <3>1, MaxOfTwo
    <3>3. mine' = [mine EXCEPT ![call.of] = call.ver]
      BY <1>3, <3>2
    <3>4. \A c \in Convs : overrides'[c] = mine'[c] /\ mine'[c] <= changes
      BY <1>3, <2>1, <2>5, <3>1, <3>3 DEF AnswersComeLater, InboxTypes, Marks
    <3>5. ASSUME NEW u \in calls', u.op = "change", u.st = "ok"
          PROVE  mine'[u.of] < u.ver /\ u.ver <= changes
      <4>1. u.of # call.of /\ u \in calls
        BY <1>1, <1>3, <2>5, <3>5 DEF OneChangeEach
      <4>2. mine'[u.of] = mine[u.of]
        BY <3>3, <4>1 DEF InboxTypes, Marks, Ticked
      <4> QED BY <2>5, <3>5, <4>1, <4>2 DEF AnswersComeLater
    <3> QED BY <1>1, <3>4, <3>5 DEF AnswersComeLater
  <2> QED BY <1>1, <1>2, <2>4, <2>5
<1>4. CASE UNCHANGED <<overrides, mine>> /\ (reads' = AskedBoth \/ reads' = reads)
  <2>1. InboxTypes'
    BY <1>1, <1>4, AskedBothType DEF InboxTypes
  <2>2. AnswersComeLater => AnswersComeLater'
    BY <1>1, <1>4 DEF AnswersComeLater
  <2> QED BY <1>1, <1>2, <2>1, <2>2
<1> QED BY <1>3, <1>4 DEF FinishCall

LEMMA InboxStepInv ==
  ASSUME InboxIInv, [InboxNext]_inboxVars
  PROVE  InboxIInv'
<1> USE DEF InboxIInv
<1>a. ASSUME UNCHANGED <<changes, overrides, calls, mine, tangled>>
      PROVE  /\ AnswersComeLater => AnswersComeLater'
             /\ OneChangeEach => OneChangeEach'
  BY <1>a DEF AnswersComeLater, OneChangeEach
<1>0. CASE UNCHANGED inboxVars
  <2>1. InboxTypes'
    BY <1>0 DEF inboxVars, InboxTypes
  <2> QED BY <1>0, <1>a, <2>1 DEF inboxVars
<1>1. CASE RetryReads
  <2>1. InboxTypes'
    BY <1>1, AskedBothType DEF RetryReads, InboxTypes
  <2> QED BY <1>1, <1>a, <2>1 DEF RetryReads
<1>2. CASE ChangeTicket \/ RemoveConversation
  BY <1>2, StartKeeps DEF ChangeTicket, RemoveConversation
<1>3. ASSUME NEW l \in Lists, ServeRead(l) PROVE InboxIInv'
  <2>1. reads' \in [Lists -> Reads]
    BY <1>3 DEF ServeRead, InboxTypes, Reads
  <2>2. InboxTypes'
    BY <1>3, <2>1 DEF ServeRead, InboxTypes
  <2> QED BY <1>3, <1>a, <2>2 DEF ServeRead
<1>4. ASSUME NEW l \in Lists, ArriveRead(l) PROVE InboxIInv'
  <2>1. reads' \in [Lists -> Reads]
    BY <1>4, NoMarks DEF ArriveRead, InboxTypes, Reads
  <2>2. rows' \subseteq Convs /\ ticketsOf' \in Marks
    BY <1>4 DEF ArriveRead, InboxTypes, Reads
  <2>3. InboxTypes'
    BY <1>4, <2>1, <2>2 DEF ArriveRead, InboxTypes
  <2> QED BY <1>4, <1>a, <2>3 DEF ArriveRead
<1>5. ASSUME NEW c \in Convs, Colleague(c) PROVE InboxIInv'
  <2>1. changes' \in Nat /\ version' \in Marks /\ changes' = changes + 1
    BY <1>5 DEF Colleague, InboxTypes, Marks
  <2>2. InboxTypes' /\ (OneChangeEach => OneChangeEach')
    BY <1>5, <2>1 DEF Colleague, InboxTypes, OneChangeEach
  <2>3. AnswersComeLater => AnswersComeLater'
    <3> SUFFICES ASSUME AnswersComeLater PROVE AnswersComeLater'
      OBVIOUS
    <3>1. \A d \in Convs : overrides[d] = mine[d] /\ mine[d] <= changes + 1
      BY DEF AnswersComeLater, InboxTypes, Marks
    <3>2. ASSUME NEW u \in calls, u.op = "change", u.st = "ok"
          PROVE  mine[u.of] < u.ver /\ u.ver <= changes + 1
      <4>1. mine[u.of] < u.ver /\ u.ver <= changes /\ u.ver \in Nat
        BY <3>2 DEF AnswersComeLater, InboxTypes, Ticked
      <4> QED BY <4>1 DEF InboxTypes
    <3> QED BY <1>5, <2>1, <3>1, <3>2 DEF Colleague, AnswersComeLater
  <2> QED BY <1>5, <2>2, <2>3 DEF Colleague
<1>6. ASSUME NEW c, Select(c) PROVE InboxIInv'
  <2>1. InboxTypes'
    BY <1>6 DEF Select, InboxTypes
  <2> QED BY <1>6, <1>a, <2>1 DEF Select
<1>7. ASSUME NEW call \in calls, ServeCall(call) \/ FinishCall(call) PROVE InboxIInv'
  BY <1>7, ServeCallKeeps, FinishCallKeeps
<1> QED BY <1>0, <1>1, <1>2, <1>3, <1>4, <1>5, <1>6, <1>7 DEF InboxNext

LEMMA InboxIInvSuffices ==
  ASSUME InboxIInv
  PROVE  OwnChangesStay
<1> SUFFICES ASSUME ~tangled
             PROVE  /\ \A c \in Filtered("all") : TicketOf(c) >= mine[c]
                    /\ \A c \in Filtered("ai") : mine[c] = 0
  BY DEF OwnChangesStay
<1>1. ASSUME NEW c \in rows
      PROVE  /\ TicketOf(c) >= mine[c] /\ (TicketOf(c) = 0 => mine[c] = 0)
  <2>1. /\ overrides[c] = mine[c] /\ mine[c] \in Nat /\ ticketsOf[c] \in Nat
    BY DEF InboxIInv, InboxTypes, AnswersComeLater, Marks
  <2> QED BY <2>1 DEF TicketOf
<1>2. Filtered("all") = rows /\ Filtered("ai") = {c \in rows : TicketOf(c) = 0}
  BY DEF Filtered
<1> QED BY <1>1, <1>2

-----------------------------------------------------------------------------
(* The settings forms.  What is stored of an organization came from a save, *)
(* what a save carries came from a form that had settled, and a settled form *)
(* was filled by data of the organization shown: Home says all three.       *)

\* Rows, wherever they are, belong to the organization they are meant for.
Home ==
  ~strayed =>
    /\ \A o \in Owned : stored[o] \in Own(o)
    /\ wait.st = "ok" => wait.row \in Own(here)
    /\ FormSettled => form \in Own(here)
    /\ saving.st \in {"asked", "ok"} => saving.row \in Own(saving.to)

\* Without a fetch under way, the data held is that of the organization now.
HeldIsHere == wait.st = "none" => held.of = here

SettingsIInv == SettingsTypeOK /\ HeldIsHere /\ Home

-----------------------------------------------------------------------------
(* Rows.                                                                   *)

LEMMA OwnIsRow == \A o \in Owned : Own(o) \subseteq Row
  BY DEF Own

LEMMA UnfilledIsRow == Unfilled \in Row
  BY DEF Unfilled, Row

LEMMA EditedIsRow ==
  ASSUME NEW row \in Row, NEW f \in Texts \cup Options, NEW v \in Owned \cup {Default}
  PROVE  [row EXCEPT ![f] = v] \in Row
  BY DEF Row

LEMMA MergedIsRow ==
  ASSUME NEW row \in Row, NEW new \in Row
  PROVE  Merged(row, new) \in Row
  BY DEF Merged, Row

\* update_settings mixes what is stored with what is sent.
LEMMA MergedIsOwn ==
  ASSUME NEW o \in Owned, NEW row \in Own(o), NEW new \in Own(o)
  PROVE  Merged(row, new) \in Own(o)
<1>1. Merged(row, new) \in Row
  BY OwnIsRow, MergedIsRow
<1>2. \A f \in Texts \cup Options :
        Merged(row, new)[f] = IF f \in Texts /\ new[f] = Default THEN row[f] ELSE new[f]
  BY DEF Merged, Own, Row
<1>3. \A f \in Options : f \notin Texts
  BY SettingsFormAssumption
<1> QED BY <1>1, <1>2, <1>3 DEF Own

\* An edit leaves a settled form with the organization.
LEMMA EditedIsOwn ==
  ASSUME NEW o \in Owned, NEW row \in Own(o), NEW f \in Texts \cup Options,
         NEW v \in Owned \cup {Default}, v = o \/ (f \in Texts /\ v = Default)
  PROVE  [row EXCEPT ![f] = v] \in Own(o)
<1>1. [row EXCEPT ![f] = v] \in Row
  BY OwnIsRow, EditedIsRow
<1>2. \A g \in Texts \cup Options : [row EXCEPT ![f] = v][g] = IF g = f THEN v ELSE row[g]
  BY DEF Own, Row
<1>3. \A g \in Options : g \notin Texts
  BY SettingsFormAssumption
<1> QED BY <1>1, <1>2, <1>3 DEF Own

-----------------------------------------------------------------------------
LEMMA SettingsInitInv == SettingsInit => SettingsIInv
<1> SUFFICES ASSUME SettingsInit PROVE SettingsIInv
  OBVIOUS
<1>1. SettingsTypeOK
  BY UnfilledIsRow DEF SettingsInit, SettingsTypeOK
<1>2. HeldIsHere /\ Home
  BY DEF SettingsInit, HeldIsHere, Home, FormSettled
<1> QED BY <1>1, <1>2 DEF SettingsIInv

LEMMA SettingsStepInv == SettingsIInv /\ [SettingsNext]_settingsVars => SettingsIInv'
<1> SUFFICES ASSUME SettingsTypeOK, HeldIsHere, Home, [SettingsNext]_settingsVars
             PROVE  SettingsTypeOK' /\ HeldIsHere' /\ Home'
  BY DEF SettingsIInv
<1>1. ASSUME NEW o \in Owned, SwitchTo(o)
      PROVE  SettingsTypeOK' /\ HeldIsHere' /\ Home'
  <2>1. SettingsTypeOK'
    BY <1>1, UnfilledIsRow DEF SwitchTo, SettingsTypeOK
  <2>2. HeldIsHere' /\ Home'
    BY <1>1 DEF SwitchTo, HeldIsHere, Home, FormSettled
  <2> QED BY <2>1, <2>2
<1>2. ASSUME ServeSettings
      PROVE  SettingsTypeOK' /\ HeldIsHere' /\ Home'
  <2>1. stored[here] \in Row
    BY DEF SettingsTypeOK
  <2>2. SettingsTypeOK'
    BY <1>2, <2>1, UnfilledIsRow DEF ServeSettings, SettingsTypeOK
  <2>3. HeldIsHere' /\ Home'
    BY <1>2 DEF ServeSettings, HeldIsHere, Home, FormSettled, SettingsTypeOK
  <2> QED BY <2>2, <2>3
<1>3. ASSUME ArriveSettings
      PROVE  SettingsTypeOK' /\ HeldIsHere' /\ Home'
  <2>1. wait.row \in Row
    BY DEF SettingsTypeOK
  <2>2. SettingsTypeOK'
    BY <1>3, <2>1, UnfilledIsRow DEF ArriveSettings, SettingsTypeOK
  <2>3. HeldIsHere' /\ Home'
    BY <1>3 DEF ArriveSettings, HeldIsHere, Home, FormSettled
  <2> QED BY <2>2, <2>3
<1>4. ASSUME NEW f \in Texts \cup Options, NEW v \in Owned \cup {Default}, Edit(f, v)
      PROVE  SettingsTypeOK' /\ HeldIsHere' /\ Home'
  <2>1. [form EXCEPT ![f] = v] \in Row
    BY EditedIsRow DEF SettingsTypeOK
  <2>2. SettingsTypeOK'
    BY <1>4, <2>1 DEF Edit, SettingsTypeOK
  <2>3. ~strayed /\ FormSettled => [form EXCEPT ![f] = v] \in Own(here)
    BY <1>4, EditedIsOwn DEF Edit, Home, SettingsTypeOK
  <2>4. HeldIsHere' /\ Home'
    BY <1>4, <2>3 DEF Edit, HeldIsHere, Home, FormSettled
  <2> QED BY <2>2, <2>4
<1>5. ASSUME Save
      PROVE  SettingsTypeOK' /\ HeldIsHere' /\ Home'
  <2>1. SettingsTypeOK'
    BY <1>5 DEF Save, SettingsTypeOK, FormSettled
  <2>2. HeldIsHere' /\ Home'
    BY <1>5 DEF Save, HeldIsHere, Home, FormSettled, SettingsTypeOK
  <2> QED BY <2>1, <2>2
<1>6. ASSUME ServeSave
      PROVE  SettingsTypeOK' /\ HeldIsHere' /\ Home'
  <2> DEFINE row == Merged(stored[saving.to], saving.row)
  <2>1. saving.to \in Owned /\ saving.row \in Row /\ stored[saving.to] \in Row
    BY DEF SettingsTypeOK
  <2>2. row \in Row
    BY <2>1, MergedIsRow
  <2>3. ~strayed /\ saving.st = "asked" => row \in Own(saving.to)
    BY <2>1, MergedIsOwn DEF Home
  <2> HIDE DEF row
  <2>4. CASE /\ stored' = [stored EXCEPT ![saving.to] = row]
             /\ saving' = [saving EXCEPT !.st = "ok", !.row = row]
    <3>1. [saving EXCEPT !.st = "ok", !.row = row]
            \in [st: {"none", "asked", "ok", "failed"}, to: Owned, row: Row]
      BY <2>2 DEF SettingsTypeOK
    <3>2. SettingsTypeOK'
      BY <1>6, <2>1, <2>2, <2>4, <3>1 DEF ServeSave, SettingsTypeOK
    <3>3. saving'.row = row /\ saving'.to = saving.to
      BY <2>4 DEF SettingsTypeOK
    <3>4. \A o \in Owned : stored'[o] = IF o = saving.to THEN row ELSE stored[o]
      BY <2>4 DEF SettingsTypeOK
    <3>5. HeldIsHere' /\ Home'
      BY <1>6, <2>3, <3>3, <3>4 DEF ServeSave, HeldIsHere, Home, FormSettled
    <3> QED BY <3>2, <3>5
  <2>5. CASE saving' = [saving EXCEPT !.st = "failed"] /\ UNCHANGED stored
    <3>1. SettingsTypeOK'
      BY <1>6, <2>5 DEF ServeSave, SettingsTypeOK
    <3>2. HeldIsHere' /\ Home'
      BY <1>6, <2>5 DEF ServeSave, HeldIsHere, Home, FormSettled, SettingsTypeOK
    <3> QED BY <3>1, <3>2
  <2> QED BY <1>6, <2>4, <2>5 DEF ServeSave, row
<1>7. ASSUME FinishSave
      PROVE  SettingsTypeOK' /\ HeldIsHere' /\ Home'
  <2>1. saving' \in [st: {"none", "asked", "ok", "failed"}, to: Owned, row: Row] /\ saving'.st = "none"
    BY <1>7, UnfilledIsRow DEF FinishSave, SettingsTypeOK
  <2>2. CASE saving.st = "failed"
    BY <1>7, <2>1, <2>2 DEF FinishSave, SettingsTypeOK, HeldIsHere, Home, FormSettled
  <2>3. CASE saving.st = "ok"
    <3>1. /\ held' = [held EXCEPT !.st = "data"] /\ form' = saving.row /\ dirty' = FALSE
          /\ strayed' = (strayed \/ saving.to # held.of)
          /\ UNCHANGED <<stored, here, wait>>
      BY <1>7, <2>3 DEF FinishSave
    <3>2. SettingsTypeOK'
      BY <2>1, <3>1 DEF SettingsTypeOK
    <3>3. HeldIsHere'
      BY <3>1 DEF HeldIsHere, SettingsTypeOK
    <3>4. ~strayed' /\ wait.st = "none" => saving.to = here
      BY <3>1 DEF HeldIsHere
    <3>5. Home'
      BY <2>1, <2>3, <3>1, <3>4 DEF Home, FormSettled
    <3> QED BY <3>2, <3>3, <3>5
  <2> QED BY <1>7, <2>2, <2>3 DEF FinishSave
<1>8. CASE UNCHANGED settingsVars
  BY <1>8 DEF settingsVars, SettingsTypeOK, HeldIsHere, Home, FormSettled
<1> QED BY <1>1, <1>2, <1>3, <1>4, <1>5, <1>6, <1>7, <1>8 DEF SettingsNext

LEMMA SettingsIInvSuffices == SettingsIInv => SettingsTypeOK /\ SettingsStayHome
BY DEF SettingsIInv, Home, SettingsStayHome

-----------------------------------------------------------------------------
(* The last elements of a sequence.                                        *)

LEMMA LastOfHas ==
  ASSUME NEW S, NEW seq \in Seq(S), NEW n \in Nat
  PROVE  /\ LastOf(seq, n) \in Seq(S)
         /\ Len(LastOf(seq, n)) = IF Len(seq) <= n THEN Len(seq) ELSE n
         /\ \A k \in 1 .. Len(LastOf(seq, n)) :
              LastOf(seq, n)[k] = seq[Len(seq) - Len(LastOf(seq, n)) + k]
<1>0. Len(seq) \in Nat
  BY LenProperties
<1>1. CASE Len(seq) <= n
  <2>1. LastOf(seq, n) = seq
    BY <1>1 DEF LastOf
  <2>2. \A k \in 1 .. Len(seq) : Len(seq) - Len(seq) + k = k
    BY <1>0
  <2> QED BY <1>1, <2>1, <2>2
<1>2. CASE ~(Len(seq) <= n)
  <2> DEFINE m == Len(seq) - n + 1
  <2>1. LastOf(seq, n) = SubSeq(seq, m, Len(seq))
    BY <1>2 DEF LastOf
  <2>2. m \in 1 .. Len(seq) + 1 /\ Len(seq) \in m - 1 .. Len(seq) /\ Len(seq) - m + 1 = n
    BY <1>0, <1>2
  <2> HIDE DEF m
  <2>3. /\ SubSeq(seq, m, Len(seq)) \in Seq(S) /\ Len(SubSeq(seq, m, Len(seq))) = n
        /\ \A k \in 1 .. n : SubSeq(seq, m, Len(seq))[k] = seq[m + k - 1]
    BY <1>0, <2>2, SubSeqProperties
  <2>4. \A k \in 1 .. n : m + k - 1 = Len(seq) - n + k
    BY <1>0 DEF m
  <2> QED BY <1>2, <2>1, <2>3, <2>4
<1> QED BY <1>1, <1>2

LEMMA LastOfLast ==
  ASSUME NEW S, NEW seq \in Seq(S), NEW n \in Nat
  PROVE  LastOf(LastOf(seq, n), n) = LastOf(seq, n)
BY LastOfHas DEF LastOf

\* What was dropped before comes back with nothing that is added.
LEMMA LastOfConcat ==
  ASSUME NEW S, NEW a \in Seq(S), NEW b \in Seq(S), NEW n \in Nat
  PROVE  LastOf(a \o b, n) = LastOf(LastOf(a, n) \o b, n)
<1> DEFINE la == LastOf(a, n)
           x == a \o b
           y == la \o b
<1>0. Len(a) \in Nat /\ Len(b) \in Nat
  BY LenProperties
<1>1. CASE Len(a) <= n
  BY <1>1 DEF LastOf
<1>2. CASE ~(Len(a) <= n)
  <2>1. /\ la \in Seq(S) /\ Len(la) = n
        /\ \A k \in 1 .. n : la[k] = a[Len(a) - n + k]
    <3>1. /\ la \in Seq(S) /\ Len(la) = IF Len(a) <= n THEN Len(a) ELSE n
          /\ \A k \in 1 .. Len(la) : la[k] = a[Len(a) - Len(la) + k]
      BY LastOfHas
    <3> HIDE DEF la
    <3>2. Len(la) = n
      BY <1>2, <3>1
    <3> QED BY <3>1, <3>2
  <2> HIDE DEF la
  <2>2. /\ x \in Seq(S) /\ Len(x) = Len(a) + Len(b)
        /\ \A i \in 1 .. Len(a) + Len(b) : x[i] = IF i <= Len(a) THEN a[i] ELSE b[i - Len(a)]
    BY ConcatProperties
  <2>3. /\ y \in Seq(S) /\ Len(y) = n + Len(b)
        /\ \A i \in 1 .. n + Len(b) : y[i] = IF i <= n THEN la[i] ELSE b[i - n]
    BY <2>1, ConcatProperties
  <2> HIDE DEF x, y
  <2>4. /\ LastOf(x, n) \in Seq(S) /\ Len(LastOf(x, n)) = n
        /\ \A k \in 1 .. n : LastOf(x, n)[k] = x[Len(a) + Len(b) - n + k]
    <3>1. ~(Len(x) <= n)
      BY <1>0, <1>2, <2>2
    <3>2. /\ LastOf(x, n) \in Seq(S)
          /\ Len(LastOf(x, n)) = IF Len(x) <= n THEN Len(x) ELSE n
          /\ \A k \in 1 .. Len(LastOf(x, n)) :
               LastOf(x, n)[k] = x[Len(x) - Len(LastOf(x, n)) + k]
      <4>1. x \in Seq(S)
        BY <2>2
      <4> QED BY <4>1, LastOfHas
    <3>3. Len(LastOf(x, n)) = n
      BY <3>1, <3>2
    <3>4. Len(x) = Len(a) + Len(b)
      BY <2>2
    <3>5. ASSUME NEW k \in 1 .. n PROVE LastOf(x, n)[k] = x[Len(a) + Len(b) - n + k]
      <4>1. k \in 1 .. Len(LastOf(x, n))
        BY <3>3
      <4>2. LastOf(x, n)[k] = x[Len(x) - Len(LastOf(x, n)) + k]
        BY <3>2, <4>1
      <4> QED BY <3>3, <3>4, <4>2
    <3> QED BY <3>2, <3>3, <3>5
  <2>5. /\ LastOf(y, n) \in Seq(S) /\ Len(LastOf(y, n)) = n
        /\ \A k \in 1 .. n : LastOf(y, n)[k] = y[n + Len(b) - n + k]
    <3>1. Len(y) <= n => Len(y) = n
      BY <1>0, <2>3
    <3>2. /\ LastOf(y, n) \in Seq(S)
          /\ Len(LastOf(y, n)) = IF Len(y) <= n THEN Len(y) ELSE n
          /\ \A k \in 1 .. Len(LastOf(y, n)) :
               LastOf(y, n)[k] = y[Len(y) - Len(LastOf(y, n)) + k]
      <4>1. y \in Seq(S)
        BY <2>3
      <4> QED BY <4>1, LastOfHas
    <3>3. Len(LastOf(y, n)) = n
      BY <3>1, <3>2
    <3>4. Len(y) = n + Len(b)
      BY <2>3
    <3>5. ASSUME NEW k \in 1 .. n PROVE LastOf(y, n)[k] = y[n + Len(b) - n + k]
      <4>1. k \in 1 .. Len(LastOf(y, n))
        BY <3>3
      <4>2. LastOf(y, n)[k] = y[Len(y) - Len(LastOf(y, n)) + k]
        BY <3>2, <4>1
      <4> QED BY <3>3, <3>4, <4>2
    <3> QED BY <3>2, <3>3, <3>5
  <2>6. ASSUME NEW k \in 1 .. n PROVE LastOf(x, n)[k] = LastOf(y, n)[k]
    <3>1. LastOf(x, n)[k] = x[Len(a) + Len(b) - n + k] /\ LastOf(y, n)[k] = y[Len(b) + k]
      <4>1. n + Len(b) - n + k = Len(b) + k
        BY <1>0
      <4> QED BY <2>4, <2>5, <4>1
    <3>2. Len(a) + Len(b) - n + k \in 1 .. Len(a) + Len(b) /\ Len(b) + k \in 1 .. n + Len(b)
      BY <1>0, <1>2
    <3>3. CASE Len(b) + k <= n
      <4>1. x[Len(a) + Len(b) - n + k] = a[Len(a) + Len(b) - n + k]
        BY <1>0, <1>2, <2>2, <3>2, <3>3
      <4>2. y[Len(b) + k] = la[Len(b) + k] /\ Len(b) + k \in 1 .. n
        BY <1>0, <2>3, <3>2, <3>3
      <4>3. Len(a) - n + (Len(b) + k) = Len(a) + Len(b) - n + k
        BY <1>0
      <4> QED BY <2>1, <3>1, <4>1, <4>2, <4>3
    <3>4. CASE ~(Len(b) + k <= n)
      <4>1. x[Len(a) + Len(b) - n + k] = b[Len(a) + Len(b) - n + k - Len(a)]
        BY <1>0, <1>2, <2>2, <3>2, <3>4
      <4>2. y[Len(b) + k] = b[Len(b) + k - n]
        BY <1>0, <2>3, <3>2, <3>4
      <4>3. Len(a) + Len(b) - n + k - Len(a) = Len(b) + k - n
        BY <1>0
      <4> QED BY <3>1, <4>1, <4>2, <4>3
    <3> QED BY <3>3, <3>4
  <2>7. LastOf(x, n) = LastOf(y, n)
    BY <2>4, <2>5, <2>6, SeqEqual
  <2> QED BY <2>7 DEF x, y, la
<1> QED BY <1>1, <1>2

LEMMA LastOfAgree ==
  ASSUME NEW S, NEW a \in Seq(S), NEW b \in Seq(S), NEW c \in Seq(S), NEW n \in Nat,
         LastOf(a, n) = LastOf(b, n)
  PROVE  LastOf(a \o c, n) = LastOf(b \o c, n)
BY LastOfConcat
-----------------------------------------------------------------------------
(* The feed.                                                               *)

FeedTypes ==
  /\ store \in Seq(Ids) /\ marked \in Seq(Ids) /\ blind \in BOOLEAN
  /\ \A i \in Tabs : /\ tabs[i] = [on |-> tabs[i].on, list |-> tabs[i].list, read |-> tabs[i].read]
                     /\ tabs[i].read \in Seq(Ids)
  /\ DOMAIN tabs = Tabs

\* A tab that is open ends with the latest marks too, whatever more it holds.
OpenTabsEndAlike ==
  ~blind => \A i \in Tabs : tabs[i].on => LastOf(tabs[i].read, Cap) = LastOf(marked, Cap)

FeedIInv == FeedTypes /\ LatestMarksAreKept /\ OpenTabsEndAlike

LEMMA FeedInitInv ==
  ASSUME FeedAssumption, FeedInit
  PROVE  FeedIInv
<1>1. <<>> \in Seq(Ids) /\ LastOf(<<>>, Cap) = <<>>
  BY DEF LastOf, FeedAssumption
<1>2. FeedTypes
  BY <1>1 DEF FeedInit, FeedTypes, Closed
<1>3. OpenTabsEndAlike
  BY DEF FeedInit, OpenTabsEndAlike, Closed
<1> QED BY <1>1, <1>2, <1>3 DEF FeedInit, FeedIInv, LatestMarksAreKept

LEMMA NotificationsAreFinite ==
  ASSUME FeedAssumption
  PROVE  IsFiniteSet(Ids)
<1>1. IsFiniteSet({}) /\ Kinds = ((({} \cup {"sla"}) \cup {"esc"}) \cup {"asg"}) \cup {"res"}
  BY FS_EmptySet DEF Kinds
<1>2. IsFiniteSet(Kinds)
  BY <1>1, FS_AddElement
<1> QED BY <1>2, FS_Product DEF FeedAssumption, Ids

LEMMA ClicksAreIds ==
  ASSUME FeedAssumption, NEW i \in Tabs, NEW ids \in Clicks(i)
  PROVE  ids \in Seq(Ids)
<1>1. CASE ids \in {<<id>> : id \in Ids}
  <2>1. PICK id \in Ids : ids = <<id>>
    BY <1>1
  <2> QED BY <2>1
<1>2. CASE ids \in SetToSeqs(Notifications(tabs[i].list) \ ToSet(tabs[i].read))
  <2> DEFINE S == Notifications(tabs[i].list) \ ToSet(tabs[i].read)
  <2>1. S \in SUBSET Ids
    BY DEF Notifications
  <2> HIDE DEF S
  <2>2. Cardinality(S) \in Nat
    BY <2>1, NotificationsAreFinite, FS_Subset, FS_CardinalityType
  <2>3. ids \in [1 .. Cardinality(S) -> S]
    BY <1>2 DEF SetToSeqs, S
  <2>4. ids \in Seq(S)
    BY <2>2, <2>3, SeqDef
  <2> QED BY <2>1, <2>4, SeqMonotonic
<1> QED BY <1>1, <1>2 DEF Clicks

LEMMA FeedStepInv ==
  ASSUME FeedAssumption, FeedIInv, [FeedNext]_feedVars
  PROVE  FeedIInv'
<1> USE DEF FeedIInv
<1>0. CASE UNCHANGED feedVars
  BY <1>0 DEF feedVars, FeedTypes, LatestMarksAreKept, OpenTabsEndAlike
<1>1. ASSUME NEW t \in Watched, Develop(t) PROVE FeedIInv'
  BY <1>1 DEF Develop, FeedTypes, LatestMarksAreKept, OpenTabsEndAlike
<1>2. ASSUME NEW i \in Tabs, Enter(i) PROVE FeedIInv'
  <2>1. /\ tabs' = [tabs EXCEPT ![i] = [on |-> TRUE, list |-> desk, read |-> store]]
        /\ UNCHANGED <<store, marked, blind>>
    BY <1>2 DEF Enter
  <2>2. FeedTypes' /\ LatestMarksAreKept'
    BY <2>1 DEF FeedTypes, LatestMarksAreKept
  <2>3. OpenTabsEndAlike'
    <3>1. ~blind => LastOf(store, Cap) = LastOf(marked, Cap)
      BY LastOfLast DEF LatestMarksAreKept, FeedTypes, FeedAssumption
    <3>2. \A j \in Tabs : tabs'[j].on => \/ tabs'[j].read = store
                                         \/ (tabs[j].on /\ tabs'[j].read = tabs[j].read)
      BY <2>1 DEF FeedTypes
    <3> QED BY <2>1, <3>1, <3>2 DEF OpenTabsEndAlike
  <2> QED BY <2>2, <2>3
<1>3. ASSUME NEW i \in Tabs, Leave(i) PROVE FeedIInv'
  <2>1. tabs' = [tabs EXCEPT ![i] = Closed] /\ UNCHANGED <<store, marked, blind>>
    BY <1>3 DEF Leave
  <2>2. FeedTypes' /\ LatestMarksAreKept'
    <3>1. /\ tabs'[i] = [on |-> FALSE, list |-> <<>>, read |-> <<>>]
          /\ \A j \in Tabs \ {i} : tabs'[j] = tabs[j]
          /\ DOMAIN tabs' = Tabs
      BY <2>1 DEF FeedTypes, Closed
    <3>2. <<>> \in Seq(Ids)
      OBVIOUS
    <3>3. \A j \in Tabs : /\ tabs'[j] = [on |-> tabs'[j].on, list |-> tabs'[j].list, read |-> tabs'[j].read]
                          /\ tabs'[j].read \in Seq(Ids)
      <4>1. \A j \in Tabs \ {i} : /\ tabs'[j] = [on |-> tabs'[j].on, list |-> tabs'[j].list, read |-> tabs'[j].read]
                               /\ tabs'[j].read \in Seq(Ids)
        BY <3>1 DEF FeedTypes
      <4>2. /\ tabs'[i] = [on |-> tabs'[i].on, list |-> tabs'[i].list, read |-> tabs'[i].read]
            /\ tabs'[i].read \in Seq(Ids)
        BY <3>1, <3>2
      <4> QED BY <4>1, <4>2
    <3> QED BY <2>1, <3>1, <3>3 DEF FeedTypes, LatestMarksAreKept
  <2>3. OpenTabsEndAlike'
    BY <2>1 DEF OpenTabsEndAlike, FeedTypes, Closed
  <2> QED BY <2>2, <2>3
<1>4. ASSUME NEW i \in Tabs, NEW ids \in Clicks(i), MarkRead(i, ids) PROVE FeedIInv'
  <2> DEFINE new  == IF ToSet(ids) \cap ToSet(tabs[i].read) = {} THEN ids ELSE <<>>
             next == tabs[i].read \o new
  <2>1. /\ tabs[i].on /\ tabs' = [tabs EXCEPT ![i].read = next]
        /\ store' = LastOf(next, Cap) /\ marked' = marked \o new
        /\ blind' = (blind \/ \E j \in Tabs \ {i} : tabs[j].on)
    BY <1>4 DEF MarkRead, Kept
  <2>2. new \in Seq(Ids)
    BY ClicksAreIds
  <2> HIDE DEF new
  <2>3. next \in Seq(Ids) /\ marked' \in Seq(Ids) /\ tabs[i].read \in Seq(Ids)
    BY <2>1, <2>2, ConcatProperties DEF FeedTypes
  <2>4. ~blind => LastOf(next, Cap) = LastOf(marked', Cap)
    BY <2>1, <2>2, LastOfAgree DEF FeedTypes, OpenTabsEndAlike, FeedAssumption
  <2> HIDE DEF next
  <2>5. store' \in Seq(Ids)
    BY <2>1, <2>3, LastOfHas DEF FeedAssumption
  <2>6. /\ tabs'[i] = [on |-> tabs[i].on, list |-> tabs[i].list, read |-> next]
        /\ \A j \in Tabs \ {i} : tabs'[j] = tabs[j]
        /\ DOMAIN tabs' = Tabs
    <3>1. /\ tabs'[i] = [tabs[i] EXCEPT !.read = next]
          /\ \A j \in Tabs \ {i} : tabs'[j] = tabs[j]
          /\ DOMAIN tabs' = Tabs
      BY <2>1 DEF FeedTypes
    <3>2. tabs[i] = [on |-> tabs[i].on, list |-> tabs[i].list, read |-> tabs[i].read]
      BY DEF FeedTypes
    <3>3. [tabs[i] EXCEPT !.read = next] = [on |-> tabs[i].on, list |-> tabs[i].list, read |-> next]
      BY <3>2
    <3> QED BY <3>1, <3>3
  <2>7. FeedTypes'
    BY <2>1, <2>3, <2>5, <2>6 DEF FeedTypes
  <2>8. LatestMarksAreKept'
    BY <2>1, <2>4 DEF LatestMarksAreKept
  <2>9. OpenTabsEndAlike'
    BY <2>1, <2>4, <2>6 DEF OpenTabsEndAlike
  <2> QED BY <2>7, <2>8, <2>9
<1> QED BY <1>0, <1>1, <1>2, <1>3, <1>4 DEF FeedNext

-----------------------------------------------------------------------------
(* The charts by day.  First quotients: the day of an instant.             *)

\* The quotient: the day an instant is on, and no other.
LEMMA DivIsDay ==
  ASSUME NEW D \in Nat \ {0}, NEW x \in Int
  PROVE  /\ x \div D \in Int /\ (x \div D) * D <= x /\ x < (x \div D) * D + D
         /\ \A q \in Int : q * D <= x /\ x < q * D + D => x \div D = q
<1>1. x \div D \in Int /\ (x \div D) * D <= x /\ x < (x \div D) * D + D
  OBVIOUS
<1>2. ASSUME NEW q \in Int, q * D <= x, x < q * D + D PROVE x \div D = q
  <2> DEFINE p == x \div D
  <2>1. p \in Int /\ p * D <= x /\ x < p * D + D
    BY <1>1
  <2> HIDE DEF p
  <2>2. (p - q) * D < D /\ (q - p) * D < D
    BY <1>2, <2>1
  <2>3. p - q < 1 /\ q - p < 1
    BY <2>1, <2>2, <1>2
  <2>4. p = q
    BY <2>1, <2>3, <1>2
  <2> QED BY <2>4 DEF p
<1> QED BY <1>1, <1>2

\* A whole number of days away the day is that number away.
LEMMA DivShifts ==
  ASSUME NEW D \in Nat \ {0}, NEW x \in Int, NEW k \in Int
  PROVE  (x + k * D) \div D = x \div D + k
<1> DEFINE q == x \div D
<1>1. q \in Int /\ q * D <= x /\ x < q * D + D
  BY DivIsDay
<1> HIDE DEF q
<1>2. (q + k) * D = q * D + k * D /\ k * D \in Int
  BY <1>1
<1>3. q + k \in Int /\ (q + k) * D <= x + k * D /\ x + k * D < (q + k) * D + D /\ x + k * D \in Int
  BY <1>1, <1>2
<1> QED BY <1>3, DivIsDay DEF q

\* An earlier instant is not on a later day.
LEMMA DivKeepsOrder ==
  ASSUME NEW D \in Nat \ {0}, NEW x \in Int, NEW y \in Int
  PROVE  /\ x <= y => x \div D <= y \div D
         /\ x + D <= y => x \div D < y \div D
<1> DEFINE p == x \div D  q == y \div D
<1>1. /\ p \in Int /\ p * D <= x /\ x < p * D + D
      /\ q \in Int /\ q * D <= y /\ y < q * D + D
  BY DivIsDay
<1> HIDE DEF p, q
<1>2. x <= y => (p - q) * D < D
  BY <1>1
<1>3. x + D <= y => (p - q) * D < 0
  BY <1>1
<1>4. x <= y => p - q < 1
  BY <1>1, <1>2
<1>5. x + D <= y => p - q < 0
  BY <1>1, <1>3
<1>6. x <= y => p <= q
  BY <1>1, <1>4
<1>7. x + D <= y => p < q
  BY <1>1, <1>5
<1> QED BY <1>6, <1>7 DEF p, q

-----------------------------------------------------------------------------
(* The charts.                                                             *)

\* What the buckets are computed from: nothing happened later than now.
MetricsTypes ==
  /\ now \in Instants /\ zone \in [old: Offsets, new: Offsets, at: Instants]
  /\ items \in [Items -> Item]
  /\ \A x \in Items : items[x].opened <= now /\ items[x].changed <= now

MetricsIInv == MetricsTypes /\ (fresh => chart = Buckets)

LEMMA MetricsInitInv == MetricsInit => MetricsIInv
BY MetricsAssumption DEF MetricsInit, MetricsIInv, MetricsTypes, Instants, Item

LEMMA MetricsStepInv == MetricsIInv /\ [MetricsNext]_metricsVars => MetricsIInv'
<1> SUFFICES ASSUME MetricsIInv, [MetricsNext]_metricsVars PROVE MetricsIInv'
  OBVIOUS
<1> USE DEF MetricsIInv, MetricsTypes
<1>1. CASE Pass
  <2>1. \A x \in Items : items[x].opened \in Nat /\ items[x].changed \in Nat
    BY DEF Item, Instants
  <2>2. now' \in Instants /\ now <= now' /\ now \in Nat /\ now' \in Nat
    BY <1>1, MetricsAssumption DEF Pass, Instants
  <2>3. \A x \in Items : items[x].opened <= now' /\ items[x].changed <= now'
    BY <2>1, <2>2
  <2> QED BY <1>1, <2>2, <2>3 DEF Pass
<1>2. ASSUME NEW x \in Items, Happen(x) PROVE MetricsIInv'
  <2>1. PICK row \in Item : /\ items' = [items EXCEPT ![x] = row] /\ row.opened <= now /\ row.changed <= now
    <3>1. CASE items' = [items EXCEPT ![x] = [is |-> TRUE, opened |-> now, changed |-> now, closed |-> FALSE]]
      <4>1. [is |-> TRUE, opened |-> now, changed |-> now, closed |-> FALSE] \in Item
        BY DEF Item
      <4>2. now <= now
        BY MetricsAssumption DEF Instants
      <4> QED BY <3>1, <4>1, <4>2
    <3>2. ASSUME NEW c \in BOOLEAN, items' = [items EXCEPT ![x].changed = now, ![x].closed = c]
          PROVE  \E row \in Item : items' = [items EXCEPT ![x] = row] /\ row.opened <= now /\ row.changed <= now
      <4> DEFINE row == [items[x] EXCEPT !.changed = now, !.closed = c]
      <4>1. row \in Item /\ row.opened = items[x].opened /\ row.changed = now
        BY DEF Item
      <4>2. items' = [items EXCEPT ![x] = row]
        BY <3>2
      <4>3. now <= now
        BY MetricsAssumption DEF Instants
      <4> QED BY <4>1, <4>2, <4>3
    <3> QED BY <1>2, <3>1, <3>2 DEF Happen
  <2> QED BY <1>2, <2>1 DEF Happen
<1>3. CASE Draw
  <2>1. Buckets' = Buckets /\ UNCHANGED <<now, zone, items>>
    BY <1>3 DEF Draw, Buckets, Present, InBucket, IsoDate, DayStarts, StartOfDay, LocalDay, Quantify
  <2> QED BY <1>3, <2>1 DEF Draw
<1>4. CASE UNCHANGED metricsVars
  <2>1. Buckets' = Buckets
    BY <1>4 DEF metricsVars, Buckets, Present, InBucket, IsoDate, DayStarts, StartOfDay, LocalDay, Quantify
  <2> QED BY <1>4, <2>1 DEF metricsVars
<1> QED BY <1>1, <1>2, <1>3, <1>4 DEF MetricsNext

\* The midnight of a day, by a clock that is off steadily, is on that day and keeps
\* its distance from the day it has in UTC.
LEMMA MidnightIsDay ==
  ASSUME MetricsAssumption, NEW q \in Int, NEW off \in Int
  PROVE  /\ q * DayLen - off \in Int /\ (q * DayLen - off + off) \div DayLen = q
         /\ (q * DayLen - off) \div DayLen = q + (-off) \div DayLen
         /\ (-off) \div DayLen \in Int
<1>1. DayLen \in Nat \ {0} /\ -off \in Int
  BY DEF MetricsAssumption
<1>2. q * DayLen \in Int
  BY <1>1
<1>3. (q * DayLen) \div DayLen = q
  BY <1>1, <1>2, DivIsDay
<1>4. (-off + q * DayLen) \div DayLen = (-off) \div DayLen + q
  BY <1>1, DivShifts
<1>5. (-off) \div DayLen \in Int
  BY <1>1, DivIsDay
<1>6. q * DayLen - off = -off + q * DayLen /\ q * DayLen - off + off = q * DayLen
  BY <1>2
<1> QED BY <1>2, <1>3, <1>4, <1>5, <1>6

\* The last midnight is not later than the instant, and the next one is.
LEMMA MidnightIsLast ==
  ASSUME MetricsAssumption, NEW i \in Int, NEW off \in Int
  PROVE  LET q == (i + off) \div DayLen
         IN q \in Int /\ q * DayLen - off <= i /\ i < q * DayLen - off + DayLen /\ q * DayLen \in Int
<1>1. DayLen \in Nat \ {0} /\ i + off \in Int
  BY DEF MetricsAssumption
<1> DEFINE q == (i + off) \div DayLen
<1>2. q \in Int /\ q * DayLen <= i + off /\ i + off < q * DayLen + DayLen
  BY <1>1, DivIsDay
<1> HIDE DEF q
<1>3. q * DayLen \in Int
  BY <1>1, <1>2
<1>4. q \in Int /\ q * DayLen - off <= i /\ i < q * DayLen - off + DayLen
  BY <1>1, <1>2, <1>3
<1> QED BY <1>3, <1>4 DEF q

ShownDay(k) == LocalDay(now) - (Days - k)

\* A bucket is its local day, if the viewer's clock keeps its offset in the window.
LEMMA BucketIsDay ==
  ASSUME MetricsAssumption, MetricsTypes, Steady, NEW k \in 1..Days
  PROVE  /\ LocalDay(DayStarts[k]) = ShownDay(k) /\ ShownDay(k) \in Int
         /\ \A i \in 0..now : InBucket(k, i) <=> LocalDay(i) = ShownDay(k)
<1>0. /\ zone.old \in Int /\ zone.new \in Int /\ zone.at \in Nat /\ zone.old - zone.new <= DayLen
      /\ now \in Nat /\ DayLen \in Nat \ {0} /\ Days \in Nat \ {0} /\ Days - k \in Nat /\ Days - 1 \in Nat
  <2>1. zone.old \in Offsets /\ zone.new \in Offsets /\ zone.at \in Instants /\ now \in Instants
    BY DEF MetricsTypes
  <2>2. zone.old \in Int /\ zone.new \in Int /\ zone.old - zone.new <= DayLen
    BY <2>1 DEF MetricsAssumption
  <2>3. zone.at \in Nat /\ now \in Nat /\ DayLen \in Nat \ {0} /\ Days \in Nat \ {0}
    BY <2>1 DEF MetricsAssumption, Instants
  <2>4. Days - k \in Nat /\ Days - 1 \in Nat
    BY <2>3
  <2> QED BY <2>2, <2>3, <2>4
<1>1. /\ DayStarts[k] = StartOfDay(now) - (Days - k) * DayLen
      /\ DayStarts[1] = StartOfDay(now) - (Days - 1) * DayLen
  BY <1>0 DEF DayStarts
<1>m. \A q \in Int, off \in Int :
        /\ q * DayLen - off \in Int /\ (q * DayLen - off + off) \div DayLen = q
        /\ (q * DayLen - off) \div DayLen = q + (-off) \div DayLen
        /\ (-off) \div DayLen \in Int
  BY MidnightIsDay
<1>l. \A i \in Int, off \in Int :
        /\ (i + off) \div DayLen \in Int /\ ((i + off) \div DayLen) * DayLen - off <= i
        /\ ((i + off) \div DayLen) * DayLen \in Int
  BY MidnightIsLast
\* The distributive law, for the provers.
<1>d. \A q \in Int : (q - (Days - k)) * DayLen = q * DayLen - (Days - k) * DayLen
                     /\ (Days - k) * DayLen \in Nat /\ (Days - k) * DayLen <= (Days - 1) * DayLen
                     /\ (Days - 1) * DayLen \in Nat /\ q * DayLen \in Int
  <2>1. (Days - k) * DayLen \in Nat /\ (Days - 1) * DayLen \in Nat
    BY <1>0
  <2>2. (Days - k) * DayLen <= (Days - 1) * DayLen
    <3>1. (Days - 1) - (Days - k) \in Nat
      BY <1>0
    <3>2. ((Days - 1) - (Days - k)) * DayLen = (Days - 1) * DayLen - (Days - k) * DayLen
      BY <1>0
    <3>3. ((Days - 1) - (Days - k)) * DayLen \in Nat
      BY <1>0, <3>1
    <3> QED BY <2>1, <3>2, <3>3
  <2>3. \A q \in Int : (q - (Days - k)) * DayLen = q * DayLen - (Days - k) * DayLen /\ q * DayLen \in Int
    BY <1>0
  <2> QED BY <2>1, <2>2, <2>3
<1>2. CASE zone.old = zone.new \/ zone.at > now
  <2> DEFINE off == zone.old
  <2>1. \A i \in Int : i <= now => LocalDay(i) = (i + off) \div DayLen
    BY <1>0, <1>2 DEF LocalDay
  <2>2. ASSUME NEW i \in Int, i <= now
        PROVE  StartOfDay(i) = LocalDay(i) * DayLen - off /\ LocalDay(i) \in Int /\ StartOfDay(i) <= i
    <3>1. LocalDay(i) \in Int /\ LocalDay(i) * DayLen - off <= i /\ LocalDay(i) * DayLen \in Int
      BY <1>0, <1>l, <2>1, <2>2
    <3>2. LocalDay(i) * DayLen - off < zone.at \/ zone.old = zone.new
      BY <1>0, <1>2, <2>2, <3>1
    <3>3. StartOfDay(i) = LocalDay(i) * DayLen - off
      BY <3>2 DEF StartOfDay
    <3> QED BY <3>1, <3>3
  <2>3. LocalDay(now) \in Int /\ ShownDay(k) \in Int
    BY <1>0, <2>2 DEF ShownDay
  <2>4. DayStarts[k] = ShownDay(k) * DayLen - off /\ DayStarts[k] <= now /\ DayStarts[k] \in Int
    <3>1. StartOfDay(now) = LocalDay(now) * DayLen - off /\ StartOfDay(now) <= now
      BY <1>0, <2>2
    <3>2. ShownDay(k) * DayLen = LocalDay(now) * DayLen - (Days - k) * DayLen
      BY <1>d, <2>3 DEF ShownDay
    <3> QED BY <1>0, <1>1, <1>d, <2>3, <3>1, <3>2
  <2>5. LocalDay(DayStarts[k]) = ShownDay(k)
    BY <1>0, <1>m, <2>1, <2>3, <2>4
  <2>6. ASSUME NEW i \in 0..now PROVE InBucket(k, i) <=> LocalDay(i) = ShownDay(k)
    <3>1. IsoDate(DayStarts[k]) = ShownDay(k) + (-off) \div DayLen
      <4>1. off \in Int /\ ShownDay(k) \in Int
        BY <1>0, <2>3
      <4>2. (ShownDay(k) * DayLen - off) \div DayLen = ShownDay(k) + (-off) \div DayLen
        BY <1>m, <4>1
      <4> HIDE DEF off
      <4> QED BY <2>4, <4>2, Zenon DEF IsoDate
    <3>2. i \in Int /\ i <= now
      BY <1>0
    <3>3. IsoDate(StartOfDay(i)) = LocalDay(i) + (-off) \div DayLen /\ LocalDay(i) \in Int
      <4>1. off \in Int /\ LocalDay(i) \in Int /\ StartOfDay(i) = LocalDay(i) * DayLen - off
        BY <1>0, <2>2, <3>2
      <4>2. (LocalDay(i) * DayLen - off) \div DayLen = LocalDay(i) + (-off) \div DayLen
        BY <1>m, <4>1
      <4> HIDE DEF off
      <4> QED BY <4>1, <4>2, Zenon DEF IsoDate
    <3>4. (-off) \div DayLen \in Int
      BY <1>0, <1>m
    <3> DEFINE sh == (-off) \div DayLen
    <3>5. InBucket(k, i) <=> ShownDay(k) + sh = LocalDay(i) + sh
      BY <3>1, <3>3 DEF InBucket
    <3> HIDE DEF sh
    <3>6. sh \in Int
      BY <3>4 DEF sh
    <3> QED BY <2>3, <3>3, <3>5, <3>6
  <2> QED BY <2>3, <2>5, <2>6
<1>3. CASE zone.at + DayLen <= DayStarts[1]
  <2> DEFINE off == zone.new
  <2>1. LocalDay(now) \in Int /\ StartOfDay(now) \in Int
    BY <1>0, <1>l DEF LocalDay, StartOfDay
  <2>2. StartOfDay(now) >= zone.at + DayLen /\ DayStarts[k] >= zone.at + DayLen /\ DayStarts[k] \in Int
    BY <1>0, <1>1, <1>3, <1>d, <2>1
  <2>3. StartOfDay(now) = LocalDay(now) * DayLen - off
    <3>1. LocalDay(now) * DayLen \in Int
      BY <1>d, <2>1
    <3> QED BY <1>0, <2>1, <2>2, <3>1 DEF StartOfDay
  <2>4. ~(now < zone.at)
    <3>1. ASSUME now < zone.at PROVE FALSE
      <4>1. LocalDay(now) * DayLen - zone.old <= now /\ LocalDay(now) * DayLen \in Int
        BY <1>0, <1>l, <3>1 DEF LocalDay
      <4>2. StartOfDay(now) = LocalDay(now) * DayLen - zone.old
        BY <1>0, <3>1, <4>1 DEF StartOfDay
      <4> QED BY <1>0, <2>2, <3>1, <4>1, <4>2
    <3> QED BY <3>1
  <2>5. ShownDay(k) \in Int /\ DayStarts[k] = ShownDay(k) * DayLen - off
    <3>1. ShownDay(k) \in Int
      BY <1>0, <2>1 DEF ShownDay
    <3>2. ShownDay(k) * DayLen = LocalDay(now) * DayLen - (Days - k) * DayLen
      BY <1>d, <2>1 DEF ShownDay
    <3> QED BY <1>0, <1>1, <1>d, <2>1, <2>3, <3>1, <3>2
  <2>6. LocalDay(DayStarts[k]) = ShownDay(k)
    <3>1. ~(DayStarts[k] < zone.at)
      BY <1>0, <2>2
    <3>2. LocalDay(DayStarts[k]) = (DayStarts[k] + off) \div DayLen
      BY <3>1 DEF LocalDay
    <3> QED BY <1>0, <1>m, <2>5, <3>2
  <2>7. IsoDate(DayStarts[k]) = ShownDay(k) + (-off) \div DayLen /\ (-off) \div DayLen \in Int
    <3>1. off \in Int /\ ShownDay(k) \in Int
      BY <1>0, <2>5
    <3>2. /\ (ShownDay(k) * DayLen - off) \div DayLen = ShownDay(k) + (-off) \div DayLen
          /\ (-off) \div DayLen \in Int
      BY <1>m, <3>1
    <3> HIDE DEF off
    <3> QED BY <2>5, <3>2, Zenon DEF IsoDate
  \* What began before the change is in no bucket and on no day of the window.
  <2>8. ASSUME NEW i \in 0..now, LocalDay(i) \in Int, LocalDay(i) * DayLen - zone.old < zone.at
        PROVE  ~InBucket(k, i) /\ LocalDay(i) # ShownDay(k)
    <3>1. LocalDay(i) * DayLen \in Int
      BY <1>d, <2>8
    <3>2. StartOfDay(i) = LocalDay(i) * DayLen - zone.old /\ StartOfDay(i) \in Int
      BY <1>0, <2>8, <3>1 DEF StartOfDay
    <3>3. StartOfDay(i) + DayLen <= DayStarts[k]
      BY <1>0, <2>2, <2>8, <3>1, <3>2
    <3>4. IsoDate(StartOfDay(i)) < IsoDate(DayStarts[k])
      BY <1>0, <2>2, <3>2, <3>3, DivKeepsOrder DEF IsoDate
    <3>5. IsoDate(StartOfDay(i)) \in Int /\ IsoDate(DayStarts[k]) \in Int
      BY <1>0, <2>2, <3>2, DivIsDay DEF IsoDate
    <3>6. ~InBucket(k, i)
      BY <3>4, <3>5 DEF InBucket
    <3>7. LocalDay(i) * DayLen < ShownDay(k) * DayLen /\ ShownDay(k) * DayLen \in Int
      <4>1. ShownDay(k) * DayLen \in Int
        BY <1>d, <2>5
      <4> QED BY <1>0, <2>2, <2>5, <2>8, <3>1, <4>1
    <3> QED BY <3>1, <3>6, <3>7
  <2>9. ASSUME NEW i \in 0..now PROVE InBucket(k, i) <=> LocalDay(i) = ShownDay(k)
    <3>0. i \in Int
      BY <1>0
    <3>1. LocalDay(i) \in Int
      BY <1>0, <1>l, <3>0 DEF LocalDay
    <3>2. CASE LocalDay(i) * DayLen - zone.old < zone.at
      BY <2>8, <3>1, <3>2
    <3>3. CASE ~(LocalDay(i) * DayLen - zone.old < zone.at)
      <4>1. StartOfDay(i) = LocalDay(i) * DayLen - off
        BY <3>3 DEF StartOfDay
      <4>2. IsoDate(StartOfDay(i)) = LocalDay(i) + (-off) \div DayLen
        <5>1. off \in Int
          BY <1>0
        <5>2. (LocalDay(i) * DayLen - off) \div DayLen = LocalDay(i) + (-off) \div DayLen
          BY <1>m, <3>1, <5>1
        <5> HIDE DEF off
        <5> QED BY <4>1, <5>2, Zenon DEF IsoDate
      <4> DEFINE sh == (-off) \div DayLen
      <4>3. InBucket(k, i) <=> ShownDay(k) + sh = LocalDay(i) + sh
        BY <2>7, <4>2 DEF InBucket
      <4> HIDE DEF sh
      <4>4. sh \in Int
        BY <2>7 DEF sh
      <4>5. ShownDay(k) \in Int
        BY <2>5
      <4> QED BY <3>1, <4>3, <4>4, <4>5
    <3> QED BY <3>2, <3>3
  <2> QED BY <2>5, <2>6, <2>9
<1> QED BY <1>2, <1>3 DEF Steady

\* What a bucket counts happened on its day.
LEMMA BucketCountsDay ==
  ASSUME MetricsAssumption, MetricsIInv, fresh, Steady, NEW k \in 1..Days
  PROVE  /\ chart[k].label = ShownDay(k)
         /\ chart[k].touched = Quantify(Present, LAMBDA x : LocalDay(items[x].changed) = ShownDay(k))
         /\ chart[k].created = Quantify(Present, LAMBDA x : LocalDay(items[x].opened) = ShownDay(k))
         /\ chart[k].resolved = Quantify(Present, LAMBDA x : items[x].closed /\ LocalDay(items[x].changed) = ShownDay(k))
<1>1. /\ LocalDay(DayStarts[k]) = ShownDay(k)
      /\ \A i \in 0..now : InBucket(k, i) <=> LocalDay(i) = ShownDay(k)
  BY BucketIsDay DEF MetricsIInv
<1>2. \A x \in Present : items[x].changed \in 0..now /\ items[x].opened \in 0..now
  BY MetricsAssumption DEF MetricsIInv, MetricsTypes, Present, Item, Instants
<1>3. \A x \in Present : /\ InBucket(k, items[x].changed) <=> LocalDay(items[x].changed) = ShownDay(k)
                         /\ InBucket(k, items[x].opened) <=> LocalDay(items[x].opened) = ShownDay(k)
  BY <1>1, <1>2
<1>4. /\ chart[k].label = LocalDay(DayStarts[k])
      /\ chart[k].touched = Cardinality({x \in Present : InBucket(k, items[x].changed)})
      /\ chart[k].created = Cardinality({x \in Present : InBucket(k, items[x].opened)})
      /\ chart[k].resolved = Cardinality({x \in Present : items[x].closed /\ InBucket(k, items[x].changed)})
  <2>1. chart = Buckets
    BY DEF MetricsIInv
  <2>2. chart[k] = [label    |-> LocalDay(DayStarts[k]),
                    touched  |-> Quantify(Present, LAMBDA x : InBucket(k, items[x].changed)),
                    created  |-> Quantify(Present, LAMBDA x : InBucket(k, items[x].opened)),
                    resolved |-> Quantify(Present, LAMBDA x : items[x].closed /\ InBucket(k, items[x].changed))]
    BY <2>1 DEF Buckets
  <2>3. /\ chart[k].label = LocalDay(DayStarts[k])
        /\ chart[k].touched = Quantify(Present, LAMBDA x : InBucket(k, items[x].changed))
        /\ chart[k].created = Quantify(Present, LAMBDA x : InBucket(k, items[x].opened))
        /\ chart[k].resolved = Quantify(Present, LAMBDA x : items[x].closed /\ InBucket(k, items[x].changed))
    <3> DEFINE t == Quantify(Present, LAMBDA x : InBucket(k, items[x].changed))
               c == Quantify(Present, LAMBDA x : InBucket(k, items[x].opened))
               r == Quantify(Present, LAMBDA x : items[x].closed /\ InBucket(k, items[x].changed))
    <3>1. chart[k] = [label |-> LocalDay(DayStarts[k]), touched |-> t, created |-> c, resolved |-> r]
      BY <2>2
    <3> HIDE DEF t, c, r
    <3>2. /\ chart[k].label = LocalDay(DayStarts[k]) /\ chart[k].touched = t
          /\ chart[k].created = c /\ chart[k].resolved = r
      BY <3>1
    <3> QED BY <3>2 DEF t, c, r
  <2> QED BY <2>3 DEF Quantify
<1>5. /\ {x \in Present : InBucket(k, items[x].changed)} = {x \in Present : LocalDay(items[x].changed) = ShownDay(k)}
      /\ {x \in Present : InBucket(k, items[x].opened)} = {x \in Present : LocalDay(items[x].opened) = ShownDay(k)}
      /\ {x \in Present : items[x].closed /\ InBucket(k, items[x].changed)}
           = {x \in Present : items[x].closed /\ LocalDay(items[x].changed) = ShownDay(k)}
  BY <1>3
<1> QED BY <1>1, <1>4, <1>5 DEF Quantify

-----------------------------------------------------------------------------
(* The figures.  No conversation has two tickets, and a page that is whole  *)
(* while nothing moved has the lists of one moment.                         *)

OneTicketEach ==
  /\ Len(talks) <= MaxTalks
  /\ \A i \in DOMAIN filed : filed[i].of \in DOMAIN talks
  /\ \A i, j \in DOMAIN filed : filed[i].of = filed[j].of => i = j

OfOneMoment ==
  ~moved => /\ fetches["talks"] = "ok" => page.talks = talks
            /\ fetches["filed"] = "ok" => page.filed = filed

BoardIInv == BoardTypeOK /\ OneTicketEach /\ OfOneMoment

LEMMA BoardLists ==
  /\ DOMAIN Blanks = {"talks", "filed", "staff"}
  /\ Blanks \in [talks: Seq(Routes), filed: Seq(Filed), staff: SUBSET People]
  /\ Unread \in [DOMAIN Blanks -> {"loading", "ok", "failed", "again"}]
<1>1. DOMAIN Blanks = {"talks", "filed", "staff"}
  BY DEF Blanks
<1>2. Blanks \in [talks: Seq(Routes), filed: Seq(Filed), staff: SUBSET People]
  BY DEF Blanks
<1>3. Unread \in [DOMAIN Blanks -> {"loading", "ok", "failed", "again"}]
  BY DEF Unread
<1> QED BY <1>1, <1>2, <1>3

LEMMA BoardInitInv ==
  ASSUME BoardAssumption PROVE BoardInit => BoardIInv
<1> SUFFICES ASSUME BoardInit PROVE BoardIInv
  OBVIOUS
<1>1. BoardTypeOK
  <2>1. talks \in Seq(Routes) /\ filed \in Seq(Filed) /\ staff \subseteq People /\ moved \in BOOLEAN
    <3>1. talks = <<>> /\ filed = <<>> /\ staff = {} /\ moved = FALSE
      BY DEF BoardInit
    <3>2. \A S : <<>> \in Seq(S)
      OBVIOUS
    <3> QED BY <3>1, <3>2
  <2>2. fetches = Unread /\ page = Blanks
    BY DEF BoardInit
  <2> QED BY <2>1, <2>2, BoardLists DEF BoardTypeOK
<1>2. OneTicketEach
  BY BoardAssumption DEF BoardInit, OneTicketEach
<1>3. OfOneMoment
  BY BoardLists DEF BoardInit, OfOneMoment, Unread
<1> QED BY <1>1, <1>2, <1>3 DEF BoardIInv

\* A change of the lists after the first was read is a move.
LEMMA MovesAreSeen ==
  ASSUME BoardIInv, Moves
  PROVE  /\ OfOneMoment'
         /\ fetches' \in [DOMAIN Blanks -> {"loading", "ok", "failed", "again"}]
         /\ page' \in [talks: Seq(Routes), filed: Seq(Filed), staff: SUBSET People]
         /\ moved' \in BOOLEAN
<1>1. "talks" \in DOMAIN fetches /\ "filed" \in DOMAIN fetches
  BY BoardLists DEF BoardIInv, BoardTypeOK
<1>2. OfOneMoment'
  <2> SUFFICES ASSUME ~moved' PROVE ~(fetches'["talks"] = "ok") /\ ~(fetches'["filed"] = "ok")
    BY DEF OfOneMoment
  <2> QED BY <1>1 DEF Moves
<1>3. moved' \in BOOLEAN
  BY Zenon DEF Moves
<1> QED BY <1>2, <1>3 DEF Moves, BoardIInv, BoardTypeOK

LEMMA BoardStepInv ==
  ASSUME BoardAssumption PROVE BoardIInv /\ [BoardNext]_boardVars => BoardIInv'
<1> SUFFICES ASSUME BoardIInv, [BoardNext]_boardVars PROVE BoardIInv'
  OBVIOUS
<1>t. BoardTypeOK /\ OneTicketEach /\ OfOneMoment
  BY DEF BoardIInv
<1>l. Len(talks) \in Nat /\ DOMAIN talks = 1..Len(talks) /\ Len(filed) \in Nat /\ DOMAIN filed = 1..Len(filed)
  BY <1>t DEF BoardTypeOK
<1>1. ASSUME NEW r \in Routes, Converse(r) PROVE BoardIInv'
  <2>1. Moves /\ talks' = Append(talks, r) /\ filed' = filed /\ staff' = staff /\ Len(talks) < MaxTalks
    BY <1>1 DEF Converse
  <2>2. talks' \in Seq(Routes) /\ Len(talks') = Len(talks) + 1 /\ DOMAIN talks' = 1..Len(talks) + 1
    BY <1>t, <2>1 DEF BoardTypeOK
  <2>3. BoardTypeOK'
    BY <1>t, <2>1, <2>2, MovesAreSeen DEF BoardTypeOK
  <2>4. OneTicketEach'
    BY <1>t, <1>l, <2>1, <2>2, BoardAssumption DEF OneTicketEach, BoardAssumption
  <2> QED BY <2>1, <2>3, <2>4, MovesAreSeen DEF BoardIInv
<1>2. ASSUME NEW c \in DOMAIN talks, NEW r \in Routes, NEW rank \in Ranks, File(c, r, rank) PROVE BoardIInv'
  <2> DEFINE new == [of |-> c, route |-> r, open |-> TRUE, rank |-> rank, who |-> Unassigned]
  <2>1. Moves /\ filed' = Append(filed, new) /\ talks' = talks /\ staff' = staff
    BY <1>2 DEF File
  <2>2. new \in Filed /\ new.of = c
    BY <1>t, <1>l, BoardAssumption DEF Filed, OneTicketEach, BoardAssumption
  <2>3. \A i \in DOMAIN filed : filed[i].of # c
    BY <1>2 DEF File
  <2> HIDE DEF new
  <2>4. /\ filed' \in Seq(Filed) /\ DOMAIN filed' = 1..Len(filed) + 1
        /\ filed'[Len(filed) + 1] = new
        /\ \A i \in DOMAIN filed : filed'[i] = filed[i]
    BY <1>t, <1>l, <2>1, <2>2 DEF BoardTypeOK
  <2>5. BoardTypeOK'
    BY <1>t, <2>1, <2>4, MovesAreSeen DEF BoardTypeOK
  <2>6. \A i \in DOMAIN filed' : filed'[i].of = IF i \in DOMAIN filed THEN filed[i].of ELSE c
    BY <1>l, <2>2, <2>4
  <2>7. \A i \in DOMAIN filed' : i \in DOMAIN filed \/ i = Len(filed) + 1
    BY <1>l, <2>4
  <2>8. OneTicketEach'
    BY <1>t, <2>1, <2>3, <2>6, <2>7 DEF OneTicketEach
  <2> QED BY <2>1, <2>5, <2>8, MovesAreSeen DEF BoardIInv
<1>3. ASSUME NEW k \in DOMAIN filed, Work(k) PROVE BoardIInv'
  <2>1. Moves /\ talks' = talks /\ staff' = staff
    BY <1>3 DEF Work
  <2>2. filed[k] \in Filed
    BY <1>t DEF BoardTypeOK
  <2>3. PICK t \in Filed : filed' = [filed EXCEPT ![k] = t] /\ t.of = filed[k].of
    <3>1. CASE filed' = [filed EXCEPT ![k].open = ~@]
      <4>1. [filed[k] EXCEPT !.open = ~filed[k].open] \in Filed /\ [filed[k] EXCEPT !.open = ~filed[k].open].of = filed[k].of
        BY <2>2 DEF Filed
      <4> QED BY <3>1, <4>1
    <3>2. ASSUME NEW rank \in Ranks, filed' = [filed EXCEPT ![k].rank = rank]
          PROVE  \E t \in Filed : filed' = [filed EXCEPT ![k] = t] /\ t.of = filed[k].of
      <4>1. [filed[k] EXCEPT !.rank = rank] \in Filed /\ [filed[k] EXCEPT !.rank = rank].of = filed[k].of
        BY <2>2 DEF Filed
      <4> QED BY <3>2, <4>1
    <3>3. ASSUME NEW p \in staff, filed' = [filed EXCEPT ![k].who = p]
          PROVE  \E t \in Filed : filed' = [filed EXCEPT ![k] = t] /\ t.of = filed[k].of
      <4>1. p \in People \cup {Unassigned}
        BY <1>t DEF BoardTypeOK
      <4>2. [filed[k] EXCEPT !.who = p] \in Filed /\ [filed[k] EXCEPT !.who = p].of = filed[k].of
        BY <2>2, <4>1 DEF Filed
      <4> QED BY <3>3, <4>2
    <3> QED BY <1>3, <3>1, <3>2, <3>3 DEF Work
  <2>4. filed' \in Seq(Filed) /\ DOMAIN filed' = DOMAIN filed
    BY <1>t, <2>3 DEF BoardTypeOK
  <2>5. \A i \in DOMAIN filed' : filed'[i].of = filed[i].of
    BY <1>t, <2>3, <2>4 DEF BoardTypeOK
  <2>6. BoardTypeOK'
    BY <1>t, <2>1, <2>4, MovesAreSeen DEF BoardTypeOK
  <2>7. OneTicketEach'
    BY <1>t, <2>1, <2>4, <2>5 DEF OneTicketEach
  <2> QED BY <2>1, <2>6, <2>7, MovesAreSeen DEF BoardIInv
<1>4. ASSUME NEW p \in People, JoinOrLeave(p) PROVE BoardIInv'
  <2>1. Moves /\ talks' = talks /\ filed' = filed
    BY <1>4 DEF JoinOrLeave
  <2>2. staff' \subseteq People
    BY <1>4, <1>t DEF JoinOrLeave, BoardTypeOK
  <2>3. BoardTypeOK'
    BY <1>t, <2>1, <2>2, MovesAreSeen DEF BoardTypeOK
  <2>4. OneTicketEach'
    BY <1>t, <2>1 DEF OneTicketEach
  <2> QED BY <2>1, <2>3, <2>4, MovesAreSeen DEF BoardIInv
<1>5. CASE OpenBoard
  <2>1. talks' = talks /\ filed' = filed /\ staff' = staff /\ fetches' = Unread /\ page' = Blanks /\ moved' = FALSE
    BY <1>5 DEF OpenBoard
  <2>2. BoardTypeOK'
    BY <1>t, <2>1, BoardLists DEF BoardTypeOK
  <2>3. OfOneMoment'
    BY <2>1, BoardLists DEF OfOneMoment, Unread
  <2> QED BY <1>t, <2>1, <2>2, <2>3 DEF BoardIInv, OneTicketEach
<1>6. CASE RetryBoard
  <2>1. /\ talks' = talks /\ filed' = filed /\ staff' = staff /\ page' = page /\ moved' = moved
        /\ fetches' = [fetches EXCEPT !["talks"] = "again", !["filed"] = "again"]
    BY <1>6 DEF RetryBoard
  <2>2. BoardTypeOK'
    BY <1>t, <2>1 DEF BoardTypeOK
  <2>3. fetches'["talks"] = "again" /\ fetches'["filed"] = "again"
    BY <1>t, <2>1, BoardLists DEF BoardTypeOK
  <2>4. OfOneMoment'
    BY <2>3 DEF OfOneMoment
  <2> QED BY <1>t, <2>1, <2>2, <2>4 DEF BoardIInv, OneTicketEach
<1>7. ASSUME NEW l \in DOMAIN fetches, Read(l) PROVE BoardIInv'
  <2> DEFINE readNow == [talks |-> talks, filed |-> filed, staff |-> staff]
  <2>1. talks' = talks /\ filed' = filed /\ staff' = staff /\ moved' = moved
    BY <1>7 DEF Read
  <2>2. PICK v \in {"ok", "failed"} : /\ fetches' = [fetches EXCEPT ![l] = v]
                                      /\ page' = [page EXCEPT ![l] = IF v = "ok" THEN readNow[l] ELSE Blanks[l]]
    BY <1>7 DEF Read
  <2>3. l \in {"talks", "filed", "staff"}
    BY <1>t, <1>7, BoardLists DEF BoardTypeOK
  <2>4. fetches' \in [DOMAIN Blanks -> {"loading", "ok", "failed", "again"}]
    BY <1>t, <2>2 DEF BoardTypeOK
  <2>5. /\ page' = [talks |-> page'.talks, filed |-> page'.filed, staff |-> page'.staff]
        /\ page'.talks = IF l = "talks" THEN IF v = "ok" THEN talks ELSE <<>> ELSE page.talks
        /\ page'.filed = IF l = "filed" THEN IF v = "ok" THEN filed ELSE <<>> ELSE page.filed
        /\ page'.staff = IF l = "staff" THEN IF v = "ok" THEN staff ELSE {} ELSE page.staff
    <3> DEFINE w == IF v = "ok" THEN readNow[l] ELSE Blanks[l]
    <3>1. page' = [page EXCEPT ![l] = w]
      BY <2>2
    <3>2. w = IF v = "ok" THEN IF l = "talks" THEN talks ELSE IF l = "filed" THEN filed ELSE staff
                          ELSE IF l = "staff" THEN {} ELSE <<>>
      <4>1. /\ Blanks["talks"] = <<>> /\ Blanks["filed"] = <<>> /\ Blanks["staff"] = {}
            /\ readNow["talks"] = talks /\ readNow["filed"] = filed /\ readNow["staff"] = staff
        BY DEF Blanks
      <4> HIDE DEF readNow
      <4> QED BY <2>3, <4>1
    <3> HIDE DEF w
    <3>3. page = [talks |-> page.talks, filed |-> page.filed, staff |-> page.staff]
      BY <1>t DEF BoardTypeOK
    <3>4. CASE l = "talks"
      <4>1. page' = [talks |-> w, filed |-> page.filed, staff |-> page.staff]
        BY <3>1, <3>3, <3>4
      <4> QED BY <3>2, <3>4, <4>1
    <3>5. CASE l = "filed"
      <4>1. page' = [talks |-> page.talks, filed |-> w, staff |-> page.staff]
        BY <3>1, <3>3, <3>5
      <4> QED BY <3>2, <3>5, <4>1
    <3>6. CASE l = "staff"
      <4>1. page' = [talks |-> page.talks, filed |-> page.filed, staff |-> w]
        BY <3>1, <3>3, <3>6
      <4> QED BY <3>2, <3>6, <4>1
    <3> QED BY <2>3, <3>4, <3>5, <3>6
  <2>6. page' \in [talks: Seq(Routes), filed: Seq(Filed), staff: SUBSET People]
    <3>1. /\ page.talks \in Seq(Routes) /\ page.filed \in Seq(Filed) /\ page.staff \in SUBSET People
          /\ talks \in Seq(Routes) /\ filed \in Seq(Filed) /\ staff \in SUBSET People
      BY <1>t DEF BoardTypeOK
    <3>2. page'.talks \in Seq(Routes) /\ page'.filed \in Seq(Filed) /\ page'.staff \in SUBSET People
      BY <2>5, <3>1
    <3> QED BY <2>5, <3>2
  <2>7. BoardTypeOK'
    BY <1>t, <2>1, <2>4, <2>6 DEF BoardTypeOK
  <2>8. /\ fetches'["talks"] = IF l = "talks" THEN v ELSE fetches["talks"]
        /\ fetches'["filed"] = IF l = "filed" THEN v ELSE fetches["filed"]
    BY <1>t, <2>2, BoardLists DEF BoardTypeOK
  <2>9. OfOneMoment'
    BY <1>t, <2>1, <2>5, <2>8 DEF OfOneMoment
  <2> QED BY <1>t, <2>1, <2>7, <2>9 DEF BoardIInv, OneTicketEach
<1>8. CASE UNCHANGED boardVars
  BY <1>t, <1>8 DEF boardVars, BoardIInv, BoardTypeOK, OneTicketEach, OfOneMoment
<1> QED BY <1>1, <1>2, <1>3, <1>4, <1>5, <1>6, <1>7, <1>8 DEF BoardNext

-----------------------------------------------------------------------------
\* Taking from some conversations those that became a ticket subtracts the number of
\* the tickets, as none became two.
LEMMA SubtractingCounts ==
  ASSUME BoardIInv,
         NEW S \in SUBSET (DOMAIN talks), NEW I \in SUBSET (DOMAIN filed),
         \A i \in DOMAIN filed : i \in I <=> filed[i].of \in S,
         NEW R \in SUBSET S, \A c \in S : c \in R <=> \A i \in DOMAIN filed : filed[i].of # c
  PROVE  /\ Cardinality(R) = Cardinality(S) - Cardinality(I)
         /\ Cardinality(I) \in Nat /\ Cardinality(S) \in Nat
         /\ Cardinality(I) <= Cardinality(S)
<1> DEFINE T == {filed[i].of : i \in I}
           f == [i \in I |-> filed[i].of]
<1>1. IsFiniteSet(S) /\ IsFiniteSet(I)
  <2>1. talks \in Seq(Routes) /\ filed \in Seq(Filed)
    BY DEF BoardIInv, BoardTypeOK
  <2>2. IsFiniteSet(DOMAIN talks) /\ IsFiniteSet(DOMAIN filed)
    BY <2>1, FS_Interval
  <2> QED BY <2>2, FS_Subset
<1>2. T \subseteq S
  OBVIOUS
<1>3. f \in Bijection(I, T)
  <2>1. \A i, j \in I : filed[i].of = filed[j].of => i = j
    BY DEF BoardIInv, OneTicketEach
  <2> QED BY <2>1 DEF Bijection, Injection, Surjection, IsInjective
<1>4. IsFiniteSet(T) /\ Cardinality(T) = Cardinality(I)
  BY <1>1, <1>3, FS_Bijection DEF ExistsBijection
<1>5. R = S \ T
  <2>1. \A c \in S : c \in T <=> \E i \in DOMAIN filed : filed[i].of = c
    OBVIOUS
  <2> HIDE DEF T
  <2> QED BY <2>1
<1>6. S \cap T = T
  BY <1>2
<1>7. Cardinality(S \ T) = Cardinality(S) - Cardinality(T)
  BY <1>1, <1>6, FS_Difference
<1>8. Cardinality(S) \in Nat /\ Cardinality(I) \in Nat /\ Cardinality(T) <= Cardinality(S)
  BY <1>1, <1>2, FS_CardinalityType, FS_Subset
<1> QED BY <1>4, <1>5, <1>7, <1>8

LEMMA PercentOfParts ==
  ASSUME NEW a \in Nat, NEW n \in Nat, a <= n
  PROVE  /\ Percent(a, n) \in Int /\ Percent(n - a, n) \in Int
         /\ Percent(a, n) >= 0 /\ Percent(n - a, n) >= 0
         /\ Percent(a, n) + Percent(n - a, n) <= 100
<1>1. CASE n = 0
  BY <1>1 DEF Percent
<1>2. CASE n # 0
  <2> DEFINE p == (a * 100) \div n  q == ((n - a) * 100) \div n
  <2>1. /\ p \in Int /\ p * n <= a * 100 /\ a * 100 < p * n + n
        /\ q \in Int /\ q * n <= (n - a) * 100 /\ (n - a) * 100 < q * n + n
    BY <1>2
  <2>2. Percent(a, n) = p /\ Percent(n - a, n) = q
    BY <1>2 DEF Percent
  <2> HIDE DEF p, q
  <2>3. (p + 1) * n > 0 /\ (q + 1) * n > 0 /\ (p + q - 100) * n <= 0
    BY <2>1
  <2>4. p + 1 > 0 /\ q + 1 > 0 /\ p + q - 100 <= 0
    BY <1>2, <2>1, <2>3
  <2> QED BY <2>1, <2>2, <2>4
<1> QED BY <1>1, <1>2

LEMMA SharesOfOneMoment ==
  ASSUME BoardIInv, Whole, ~moved
  PROVE  SharesAreTrue
<1>1. page.talks = talks /\ page.filed = filed
  BY DEF BoardIInv, OfOneMoment, Whole
<1>2. talks \in Seq(Routes) /\ filed \in Seq(Filed)
  BY DEF BoardIInv, BoardTypeOK
<1> DEFINE n == Len(talks)  m == Len(filed)
<1>3. n \in Nat /\ m \in Nat /\ DOMAIN talks = 1..n /\ DOMAIN filed = 1..m
  BY <1>2
<1>4. \A i \in DOMAIN filed : filed[i].of \in DOMAIN talks
  BY DEF BoardIInv, OneTicketEach
<1> DEFINE Ticketless(r) == {c \in DOMAIN talks : talks[c] \in r /\ \A i \in DOMAIN filed : filed[i].of # c}
           Alike(r) == \A i \in DOMAIN filed : filed[i].route = r <=> talks[filed[i].of] = r
<1>5. Cardinality(Ticketless(Routes)) = n - m /\ m <= n
  <2> DEFINE S == DOMAIN talks  I == DOMAIN filed  R == Ticketless(Routes)
  <2>1. /\ S \in SUBSET (DOMAIN talks) /\ I \in SUBSET (DOMAIN filed)
        /\ \A i \in DOMAIN filed : i \in I <=> filed[i].of \in S
    BY <1>4
  <2>2. \A c \in DOMAIN talks : talks[c] \in Routes
    BY <1>2
  <2>3. R \in SUBSET S /\ \A c \in S : c \in R <=> \A i \in DOMAIN filed : filed[i].of # c
    BY <2>2
  <2>4. Cardinality(R) = Cardinality(S) - Cardinality(I) /\ Cardinality(I) <= Cardinality(S)
    <3> HIDE DEF S, I, R
    <3> QED BY <2>1, <2>3, SubtractingCounts
  <2>5. Cardinality(S) = n /\ Cardinality(I) = m
    <3> HIDE DEF n, m
    <3>1. /\ Cardinality(1..n) = IF 1 > n THEN 0 ELSE n - 1 + 1
          /\ Cardinality(1..m) = IF 1 > m THEN 0 ELSE m - 1 + 1
      BY <1>3, FS_Interval
    <3> QED BY <1>3, <3>1
  <2> QED BY <2>4, <2>5
<1>6. /\ Deflected = Percent(n - m, n) /\ Escalated = Percent(m, n) /\ Escalated + Deflected <= 100
  <2>1. Percent(n - m, n) \in Int /\ Percent(n - m, n) >= 0 /\ Percent(m, n) + Percent(n - m, n) <= 100
        /\ Percent(m, n) \in Int
    <3> HIDE DEF n, m
    <3> QED BY <1>3, <1>5, PercentOfParts
  <2>2. Deflected = AtLeast0(Percent(n - m, n)) /\ Escalated = Percent(m, n)
    BY <1>1 DEF Deflected, Escalated
  <2>3. AtLeast0(Percent(n - m, n)) = Percent(n - m, n)
    BY <2>1 DEF AtLeast0
  <2> QED BY <2>1, <2>2, <2>3
<1>7. ASSUME NEW r \in Routes, Alike(r)
      PROVE  Handled(r) = Percent(Cardinality(Ticketless({r})), RoutedTo(r))
  <2> DEFINE S == {c \in DOMAIN talks : talks[c] = r}
             I == {i \in DOMAIN filed : filed[i].route = r}
             R == Ticketless({r})
  <2>1. RoutedTo(r) = Cardinality(S) /\ EscalatedFrom(r) = Cardinality(I)
    BY <1>1 DEF RoutedTo, EscalatedFrom, Quantify
  <2>2. R \in SUBSET S /\ \A c \in S : c \in R <=> \A i \in DOMAIN filed : filed[i].of # c
    OBVIOUS
  <2>3. \A i \in DOMAIN filed : i \in I <=> filed[i].of \in S
    BY <1>4, <1>7
  <2>4. S \in SUBSET (DOMAIN talks) /\ I \in SUBSET (DOMAIN filed)
    OBVIOUS
  <2>5. /\ Cardinality(R) = Cardinality(S) - Cardinality(I)
        /\ Cardinality(I) \in Nat /\ Cardinality(S) \in Nat /\ Cardinality(I) <= Cardinality(S)
    <3> HIDE DEF S, I, R
    <3> QED BY <2>2, <2>3, <2>4, SubtractingCounts
  <2> DEFINE s == Cardinality(S)  e == Cardinality(I)
  <2>6. s \in Nat /\ e \in Nat /\ e <= s
    BY <2>5
  <2>7. Handled(r) = AtLeast0(Percent(s - e, s))
    BY <2>1 DEF Handled
  <2>8. Percent(s - e, s) \in Int /\ Percent(s - e, s) >= 0
    <3> HIDE DEF s, e
    <3> QED BY <2>6, PercentOfParts
  <2>9. Handled(r) = Percent(s - e, s)
    BY <2>7, <2>8 DEF AtLeast0
  <2> QED BY <2>1, <2>5, <2>9
<1> HIDE DEF n, m
<1>8. /\ Deflected = Percent(Cardinality(Ticketless(Routes)), n)
      /\ Escalated + Deflected <= 100
      /\ \A r \in Routes : Alike(r) => Handled(r) = Percent(Cardinality(Ticketless({r})), RoutedTo(r))
  BY <1>5, <1>6, <1>7
<1> QED BY <1>1, <1>8 DEF SharesAreTrue, n

-----------------------------------------------------------------------------
(* The inductive invariant of the audit log.                               *)

EventsOf(c) == {e \in DOMAIN trail : trail[e] = c}

AuditTypes ==
  /\ trail \in Seq(Cases) /\ team \in Teams /\ listed \subseteq Range(trail)
  /\ since \in Nat /\ since <= Len(trail)
  /\ lists \in [Both -> {"loading", "ok", "failed"}] /\ seen \subseteq Both
  /\ log = [of |-> log.of, waits |-> log.waits, lost |-> log.lost, rows |-> log.rows]
  /\ log.of \subseteq Range(trail) /\ log.waits \subseteq log.of /\ log.rows \subseteq DOMAIN trail

\* The events were asked for of the tickets last listed, once both lists were read.
AskedOfTheListed == seen = Both => log.of = listed

\* A list that was answered holds tickets of the current organization.
ListedAreTheTeams ==
  lists["tickets"] = "ok" => \A c \in listed : TeamOf[c] = team

\* The events shown are of tickets asked about.
RowsAreAskedFor == \A e \in log.rows : trail[e] \in log.of

\* Of each newest ticket asked about the events are awaited, were lost, or are
\* shown, all that it had when the page was opened.
NewestAreRead ==
  \A c \in Newest(log.of) :
    \/ c \in log.waits \/ c \in log.lost
    \/ \A e \in EventsOf(c) : e <= since => e \in log.rows

AuditIInv ==
  /\ AuditTypes /\ AskedOfTheListed /\ ListedAreTheTeams
  /\ RowsAreAskedFor /\ NewestAreRead

LEMMA RangeOfTrail ==
  ASSUME trail \in Seq(Cases), NEW c
  PROVE  /\ c \in Range(trail) <=> \E e \in DOMAIN trail : trail[e] = c
         /\ Range(trail) \subseteq Cases
         /\ DOMAIN trail = 1 .. Len(trail) /\ Len(trail) \in Nat
BY DEF Range

LEMMA AuditInitInv ==
  ASSUME AuditAssumption, AuditInit
  PROVE  AuditIInv
BY RangeOfTrail DEF AuditInit, AuditIInv, AuditTypes, AskedOfTheListed, ListedAreTheTeams,
       RowsAreAskedFor, NewestAreRead, LoadAuditLog, Newest, Asked2, Both, Range

\* When the events are requested anew, the newest tickets are all awaited.
LEMMA FreshLogIsRead ==
  ASSUME NEW S, log' = LoadAuditLog(S), trail' = trail
  PROVE  /\ log'.of = S /\ log'.waits \subseteq S /\ log'.rows = {}
         /\ RowsAreAskedFor' /\ NewestAreRead'
<1>1. Newest(log.of)' = log'.waits /\ log'.waits \subseteq S
  BY DEF LoadAuditLog, Newest, First
<1> QED BY <1>1 DEF LoadAuditLog, RowsAreAskedFor, NewestAreRead

\* A new event moves no ticket among those that have one.
LEMMA RecordKeepsNewest ==
  ASSUME AuditTypes, NEW c \in Cases, Record(c)
  PROVE  \A S \in SUBSET Range(trail) : Newest(S)' = Newest(S)
<1> SUFFICES ASSUME NEW S \in SUBSET Range(trail) PROVE Newest(S)' = Newest(S)
  OBVIOUS
<1>1. /\ DOMAIN trail = 1 .. Len(trail) /\ Len(trail) \in Nat
      /\ DOMAIN trail' = 1 .. Len(trail) + 1
      /\ \A e \in DOMAIN trail : trail'[e] = trail[e]
  BY AppendProperties DEF AuditTypes, Record
<1>2. ASSUME NEW d \in Range(trail) PROVE First(d)' = First(d)
  <2> DEFINE Old == {e \in DOMAIN trail : trail[e] = d}
             New == {e \in DOMAIN trail' : trail'[e] = d}
  <2>1. Old # {}
    BY <1>2 DEF Range
  <2>2. /\ Old \in SUBSET Nat /\ New \in SUBSET Nat
        /\ Old \subseteq New /\ \A e \in New : e \in Old \/ e > Len(trail)
        /\ \A e \in Old : e <= Len(trail)
    BY <1>1
  <2> HIDE DEF Old, New
  <2>3. Min(Old) \in Old /\ \A e \in Old : Min(Old) <= e
    BY <2>1, <2>2, MinIsLeast
  <2>4. \A e \in New : Min(Old) <= e
    <3> SUFFICES ASSUME NEW e \in New PROVE Min(Old) <= e
      OBVIOUS
    <3>1. e \in Nat /\ Min(Old) \in Nat /\ Min(Old) <= Len(trail) /\ Len(trail) \in Nat
      BY <1>1, <2>2, <2>3
    <3> QED BY <2>2, <2>3, <3>1
  <2>5. Min(New) = Min(Old)
    BY <2>2, <2>3, <2>4, MinIsUnique
  <2> QED BY <2>5 DEF First, Old, New
<1>3. \A d \in S : First(d)' = First(d)
  BY <1>2
<1>4. ASSUME NEW d \in S
      PROVE  {b \in S : First(b)' > First(d)'} = {b \in S : First(b) > First(d)}
  BY <1>3
<1> QED BY <1>4 DEF Newest

LEMMA AuditStepInv ==
  ASSUME AuditAssumption, AuditIInv, [AuditNext]_auditVars
  PROVE  AuditIInv'
<1> USE DEF AuditIInv
<1>r. /\ DOMAIN trail = 1 .. Len(trail) /\ Len(trail) \in Nat
      /\ Range(trail) = {trail[e] : e \in DOMAIN trail} /\ Range(trail) \subseteq Cases
  BY RangeOfTrail DEF AuditTypes, Range
<1>0. CASE UNCHANGED auditVars
  <2>1. Newest(log.of)' = Newest(log.of)
    BY <1>0 DEF auditVars, Newest, First
  <2> QED BY <1>0, <2>1 DEF auditVars, AuditTypes, AskedOfTheListed, ListedAreTheTeams,
          RowsAreAskedFor, NewestAreRead, EventsOf
<1>1. CASE OpenAudit
  <2> USE <1>1 DEF OpenAudit
  <2>2. /\ log'.of = {} /\ log'.waits \subseteq {} /\ log'.rows = {}
        /\ RowsAreAskedFor' /\ NewestAreRead'
    BY FreshLogIsRead
  <2>3. AuditTypes'
    BY <1>r, <2>2 DEF AuditTypes, LoadAuditLog, Asked2, Both
  <2>4. AskedOfTheListed' /\ ListedAreTheTeams'
    BY <2>2 DEF AskedOfTheListed, ListedAreTheTeams, Both
  <2> QED BY <2>2, <2>3, <2>4
<1>2. CASE RetryAudit
  <2> USE <1>2 DEF RetryAudit
  <2>1. AuditTypes' /\ AskedOfTheListed' /\ ListedAreTheTeams' /\ RowsAreAskedFor'
    BY DEF AuditTypes, AskedOfTheListed, ListedAreTheTeams, RowsAreAskedFor, Asked2, Both
  <2>2. Newest(log.of)' = Newest(log.of)
    BY DEF Newest, First
  <2>3. NewestAreRead'
    BY <2>2 DEF NewestAreRead, EventsOf
  <2> QED BY <2>1, <2>3
<1>3. ASSUME NEW c \in Cases, Record(c) PROVE AuditIInv'
  <2>1. /\ trail' = Append(trail, c) /\ UNCHANGED <<team, lists, seen, listed, log, since>>
    BY <1>3 DEF Record
  <2>2. /\ trail' \in Seq(Cases) /\ Len(trail') = Len(trail) + 1
        /\ DOMAIN trail' = 1 .. Len(trail) + 1
        /\ \A e \in DOMAIN trail : trail'[e] = trail[e]
    BY <2>1, AppendProperties DEF AuditTypes
  <2>3. Range(trail) \subseteq Range(trail')
    BY <1>r, <2>2 DEF Range
  <2>4. AuditTypes'
    BY <1>r, <2>1, <2>2, <2>3 DEF AuditTypes
  <2>5. AskedOfTheListed' /\ ListedAreTheTeams'
    BY <2>1 DEF AskedOfTheListed, ListedAreTheTeams
  <2>6. RowsAreAskedFor'
    BY <2>1, <2>2 DEF RowsAreAskedFor, AuditTypes
  <2>7. Newest(log.of)' = Newest(log.of)
    <3>1. \A S \in SUBSET Range(trail) : Newest(S)' = Newest(S)
      BY <1>3, RecordKeepsNewest
    <3> QED BY <2>1, <3>1 DEF AuditTypes, Newest
  <2>8. ASSUME NEW d, NEW e \in EventsOf(d)', e <= since PROVE e \in EventsOf(d)
    BY <1>r, <2>2, <2>8 DEF EventsOf, AuditTypes
  <2>9. NewestAreRead'
    BY <2>1, <2>7, <2>8 DEF NewestAreRead
  <2> QED BY <2>4, <2>5, <2>6, <2>9
<1>4. ASSUME NEW c \in Cases, ReadEvents(c) PROVE AuditIInv'
  <2>1. /\ c \in log.waits /\ UNCHANGED <<trail, team, lists, seen, listed, since>>
        /\ log'.of = log.of /\ log'.waits = log.waits \ {c} /\ log.lost \subseteq log'.lost
        /\ \/ log'.rows = log.rows \cup EventsOf(c)
           \/ c \in log'.lost /\ log'.rows = log.rows
        /\ log' = [of |-> log'.of, waits |-> log'.waits, lost |-> log'.lost, rows |-> log'.rows]
    BY <1>4 DEF ReadEvents, AuditTypes, EventsOf
  <2>2. c \in log.of
    BY <2>1 DEF AuditTypes
  <2>3. Newest(log.of)' = Newest(log.of)
    BY <2>1 DEF Newest, First
  <2>4. \A e \in log'.rows : e \in log.rows \/ (trail[e] = c /\ e \in DOMAIN trail)
    <3>1. \A e \in EventsOf(c) : trail[e] = c /\ e \in DOMAIN trail
      BY DEF EventsOf
    <3>2. log'.rows \subseteq log.rows \cup EventsOf(c)
      BY <2>1
    <3> QED BY <3>1, <3>2
  <2>5. AuditTypes'
    BY <2>1, <2>4 DEF AuditTypes
  <2>6. AskedOfTheListed' /\ ListedAreTheTeams'
    BY <2>1 DEF AskedOfTheListed, ListedAreTheTeams
  <2>7. RowsAreAskedFor'
    BY <2>1, <2>2, <2>4 DEF RowsAreAskedFor
  <2>8. NewestAreRead'
    <3> SUFFICES ASSUME NEW d \in Newest(log.of), d \notin log'.waits, d \notin log'.lost,
                        NEW e \in EventsOf(d), e <= since
                 PROVE  e \in log'.rows
      BY <2>1, <2>3 DEF NewestAreRead, EventsOf
    <3> QED BY <2>1 DEF NewestAreRead
  <2> QED BY <2>5, <2>6, <2>7, <2>8
<1>5. ASSUME NEW o \in Teams, SwitchTeam(o) PROVE AuditIInv'
  <2> USE <1>5 DEF SwitchTeam
  <2>1. AuditTypes' /\ AskedOfTheListed' /\ ListedAreTheTeams' /\ RowsAreAskedFor'
    BY DEF AuditTypes, AskedOfTheListed, ListedAreTheTeams, RowsAreAskedFor, Asked2, Both
  <2>2. Newest(log.of)' = Newest(log.of)
    BY DEF Newest, First
  <2>3. NewestAreRead'
    BY <2>2 DEF NewestAreRead, EventsOf
  <2> QED BY <2>1, <2>3
<1>6. ASSUME NEW l \in Both, ReadLists(l) PROVE AuditIInv'
  <2>1. /\ seen' = seen \cup {l} /\ UNCHANGED <<trail, team, since>>
        /\ log' = IF seen' = Both /\ listed' # log.of THEN LoadAuditLog(listed') ELSE log
    BY <1>6 DEF ReadLists, TicketKey
  <2>2. PICK st \in {"ok", "failed"} :
          /\ lists' = [lists EXCEPT ![l] = st]
          /\ listed' = IF l # "tickets" THEN listed
                       ELSE {c \in Range(trail) : st = "ok" /\ TeamOf[c] = team}
    BY <1>6 DEF ReadLists
  <2>3. listed' \subseteq Range(trail)
    BY <2>2 DEF AuditTypes
  <2>4. \A S : Newest(S)' = Newest(S)
    BY <2>1 DEF Newest, First
  <2>5. ListedAreTheTeams'
    BY <2>1, <2>2 DEF ListedAreTheTeams, AuditTypes, Both
  <2>6. lists' \in [Both -> {"loading", "ok", "failed"}] /\ seen' \subseteq Both
    BY <2>1, <2>2 DEF AuditTypes
  <2>7. CASE log' = log /\ (seen' = Both => listed' = log.of)
    <3>1. AuditTypes' /\ AskedOfTheListed' /\ RowsAreAskedFor'
      BY <2>1, <2>3, <2>6, <2>7 DEF AuditTypes, AskedOfTheListed, RowsAreAskedFor
    <3>2. NewestAreRead'
      BY <2>1, <2>4, <2>7 DEF NewestAreRead, EventsOf
    <3> QED BY <2>5, <3>1, <3>2
  <2>8. CASE log' = LoadAuditLog(listed')
    <3>1. /\ log'.of = listed' /\ log'.waits \subseteq listed' /\ log'.rows = {}
          /\ RowsAreAskedFor' /\ NewestAreRead'
      BY <2>1, <2>8, FreshLogIsRead
    <3>2. AuditTypes'
      BY <2>1, <2>3, <2>6, <2>8, <3>1 DEF AuditTypes, LoadAuditLog
    <3> QED BY <2>5, <3>1, <3>2 DEF AskedOfTheListed
  <2> QED BY <2>1, <2>7, <2>8
<1> QED BY <1>0, <1>1, <1>2, <1>3, <1>4, <1>5, <1>6 DEF AuditNext

LEMMA AuditIInvSuffices ==
  ASSUME AuditAssumption, AuditIInv PROVE LogIsTheOrganizations
<1> SUFFICES ASSUME AuditScreen = "table", lists["tickets"] = "ok"
             PROVE  /\ \A e \in log.rows : TeamOf[trail[e]] = team
                    /\ \A e \in 1 .. since :
                         trail[e] \in Newest(listed) \ log.lost => e \in log.rows
  BY DEF LogIsTheOrganizations
<1>1. seen = Both /\ log.waits = {}
  BY DEF AuditScreen
<1>2. log.of = listed
  BY <1>1 DEF AuditIInv, AskedOfTheListed
<1>3. \A e \in log.rows : TeamOf[trail[e]] = team
  BY <1>2 DEF AuditIInv, RowsAreAskedFor, ListedAreTheTeams
<1>4. ASSUME NEW e \in 1 .. since, trail[e] \in Newest(listed), trail[e] \notin log.lost
      PROVE  e \in log.rows
  <2>1. e \in EventsOf(trail[e]) /\ e <= since
    BY DEF EventsOf, AuditIInv, AuditTypes
  <2> QED BY <1>1, <1>2, <1>4, <2>1 DEF AuditIInv, NewestAreRead
<1> QED BY <1>3, <1>4

-----------------------------------------------------------------------------
(* The forgot-password dialog.                                             *)

ResetCall == [st: {"none", "asked", "matched", "ok", "failed"}, to: Address,
              val: 0..MaxCodes, shown: Address]

ResetTypes ==
  /\ code \in [Accounts -> 0..MaxCodes] /\ codes \in 0..MaxCodes
  /\ open \in BOOLEAN /\ closes \in Nat /\ closing \in Nat /\ due \in Nat
  /\ step \in {"email", "otp", "reset", "done"} /\ email \in Address /\ token \in Address
  /\ send \in ResetCall /\ verify \in ResetCall /\ submit \in ResetCall
  /\ changed \subseteq Address \X Address /\ late \in BOOLEAN

\* While no token was late: the token the dialog holds is of the address in it, and
\* at its first step, where the address can be typed, it holds none.
TokenIsHome ==
  ~late => /\ step = "email" => token = NoAccount
           /\ token # NoAccount => token = email
           /\ step = "reset" => token = email

\* A new password is asked for, and so set, for the account of the address it is shown with.
SubmitsAgree ==
  ~late => /\ submit.st # "none" => submit.to = submit.shown
           /\ \A pair \in changed : pair[1] = pair[2]

ResetIInv == ResetTypes /\ TokenIsHome /\ SubmitsAgree

LEMMA NoCallIsCall == NoCall \in ResetCall
  BY PasswordResetAssumption DEF NoCall, ResetCall, Address

LEMMA ResetInitInv == ResetInit => ResetIInv
<1> SUFFICES ASSUME ResetInit PROVE ResetIInv
  OBVIOUS
<1>1. ResetTypes
  <2>1. [a \in Accounts |-> 0] \in [Accounts -> 0..MaxCodes] /\ 0 \in 0..MaxCodes
    BY PasswordResetAssumption
  <2>2. TRUE \in BOOLEAN /\ FALSE \in BOOLEAN /\ NoAccount \in Address
    BY DEF Address
  <2> QED BY <2>1, <2>2, NoCallIsCall DEF ResetInit, ResetTypes
<1>2. TokenIsHome /\ SubmitsAgree
  BY DEF ResetInit, TokenIsHome, SubmitsAgree, NoCall
<1> QED BY <1>1, <1>2 DEF ResetIInv

LEMMA ResetStepInv == ResetIInv /\ [ResetNext]_resetVars => ResetIInv'
<1> SUFFICES ASSUME ResetTypes, TokenIsHome, SubmitsAgree, [ResetNext]_resetVars
             PROVE  ResetTypes' /\ TokenIsHome' /\ SubmitsAgree'
  BY DEF ResetIInv
<1> USE PasswordResetAssumption
<1>1. ASSUME NEW a \in Address, TypeEmail(a)
      PROVE  ResetTypes' /\ TokenIsHome' /\ SubmitsAgree'
  <2>1. ResetTypes'
    BY <1>1 DEF TypeEmail, requests, history, ResetTypes
  <2>2. TokenIsHome' /\ SubmitsAgree'
    BY <1>1 DEF TypeEmail, requests, history, TokenIsHome, SubmitsAgree
  <2> QED BY <2>1, <2>2
<1>2. ASSUME CloseDialog \/ Cancel \/ CloseEvent \/ OpenDialog
      PROVE  ResetTypes' /\ TokenIsHome' /\ SubmitsAgree'
  <2>1. open' \in BOOLEAN /\ UNCHANGED <<code, codes, step, email, token, requests, history>>
    BY <1>2 DEF CloseDialog, Cancel, Shut, CloseEvent, OpenDialog, ResetTypes
  <2>2. closes' \in Nat /\ due' \in Nat /\ closing' \in Nat
    <3>1. closes \in Nat /\ due \in Nat /\ closing \in Nat
      BY DEF ResetTypes
    <3> QED BY <1>2, <3>1 DEF CloseDialog, Cancel, Shut, CloseEvent, OpenDialog
  <2>3. ResetTypes'
    BY <2>1, <2>2 DEF requests, history, ResetTypes
  <2>4. TokenIsHome' /\ SubmitsAgree'
    BY <2>1 DEF requests, history, TokenIsHome, SubmitsAgree
  <2> QED BY <2>3, <2>4
<1>3. ASSUME Reset
      PROVE  ResetTypes' /\ TokenIsHome' /\ SubmitsAgree'
  <2>1. ResetTypes'
    BY <1>3 DEF Reset, requests, history, ResetTypes, Address
  <2>2. TokenIsHome' /\ SubmitsAgree'
    BY <1>3 DEF Reset, requests, history, TokenIsHome, SubmitsAgree
  <2> QED BY <2>1, <2>2
<1>4. ASSUME SendCode
      PROVE  ResetTypes' /\ TokenIsHome' /\ SubmitsAgree'
  <2>1. NewCall(email, 0) \in ResetCall
    BY DEF NewCall, ResetCall, ResetTypes
  <2>2. ResetTypes'
    BY <1>4, <2>1 DEF SendCode, dialog, history, ResetTypes
  <2>3. TokenIsHome' /\ SubmitsAgree'
    BY <1>4 DEF SendCode, dialog, history, TokenIsHome, SubmitsAgree
  <2> QED BY <2>2, <2>3
<1>5. ASSUME NEW c \in 0..MaxCodes, VerifyCode(c)
      PROVE  ResetTypes' /\ TokenIsHome' /\ SubmitsAgree'
  <2>1. NewCall(email, c) \in ResetCall
    BY DEF NewCall, ResetCall, ResetTypes
  <2>2. ResetTypes'
    BY <1>5, <2>1 DEF VerifyCode, dialog, history, ResetTypes
  <2>3. TokenIsHome' /\ SubmitsAgree'
    BY <1>5 DEF VerifyCode, NewCall, dialog, history, TokenIsHome, SubmitsAgree
  <2> QED BY <2>2, <2>3
<1>6. ASSUME SetPassword
      PROVE  ResetTypes' /\ TokenIsHome' /\ SubmitsAgree'
  <2>1. NewCall(token, 0) \in ResetCall
    BY DEF NewCall, ResetCall, ResetTypes
  <2>2. ResetTypes'
    BY <1>6, <2>1 DEF SetPassword, dialog, history, ResetTypes
  <2>3. TokenIsHome' /\ SubmitsAgree'
    BY <1>6 DEF SetPassword, NewCall, dialog, history, TokenIsHome, SubmitsAgree
  <2> QED BY <2>2, <2>3
<1>7. ASSUME ServeSend
      PROVE  ResetTypes' /\ TokenIsHome' /\ SubmitsAgree'
  <2>1. \A st \in {"ok", "failed"} : [send EXCEPT !.st = st] \in ResetCall
    BY DEF ResetTypes, ResetCall
  <2>2. ResetTypes'
    BY <1>7, <2>1 DEF ServeSend, dialog, history, ResetTypes
  <2>3. TokenIsHome' /\ SubmitsAgree'
    BY <1>7, <2>1 DEF ServeSend, dialog, history, TokenIsHome, SubmitsAgree
  <2> QED BY <2>2, <2>3
<1>8. ASSUME CompareCode \/ DeleteCode
      PROVE  ResetTypes' /\ TokenIsHome' /\ SubmitsAgree'
  <2>1. \A st \in {"matched", "ok", "failed"} :
          /\ [verify EXCEPT !.st = st] \in ResetCall
          /\ [verify EXCEPT !.st = st].to = verify.to
    BY DEF ResetTypes, ResetCall
  <2>2. ResetTypes'
    BY <1>8, <2>1 DEF CompareCode, DeleteCode, dialog, history, ResetTypes
  <2>3. TokenIsHome' /\ SubmitsAgree'
    BY <1>8, <2>1 DEF CompareCode, DeleteCode, dialog, history, TokenIsHome, SubmitsAgree
  <2> QED BY <2>2, <2>3
<1>9. ASSUME NEW a \in Accounts, Lapse(a)
      PROVE  ResetTypes' /\ TokenIsHome' /\ SubmitsAgree'
  <2>1. ResetTypes'
    BY <1>9 DEF Lapse, dialog, requests, history, ResetTypes
  <2>2. TokenIsHome' /\ SubmitsAgree'
    BY <1>9 DEF Lapse, dialog, requests, history, TokenIsHome, SubmitsAgree
  <2> QED BY <2>1, <2>2
<1>10. ASSUME ServeSubmit
       PROVE  ResetTypes' /\ TokenIsHome' /\ SubmitsAgree'
  <2>1. /\ submit.to \in Address /\ submit.shown \in Address
        /\ \A st \in {"ok", "failed"} : /\ [submit EXCEPT !.st = st] \in ResetCall
                                        /\ [submit EXCEPT !.st = st].to = submit.to
                                        /\ [submit EXCEPT !.st = st].shown = submit.shown
    BY DEF ResetTypes, ResetCall
  <2>2. ResetTypes'
    BY <1>10, <2>1 DEF ServeSubmit, dialog, ResetTypes
  <2>3. TokenIsHome' /\ SubmitsAgree'
    <3>1. ~late => \A pair \in changed' : pair[1] = pair[2]
      BY <1>10 DEF ServeSubmit, SubmitsAgree
    <3>2. submit' \in ResetCall /\ submit.st = "asked"
          /\ submit'.to = submit.to /\ submit'.shown = submit.shown
      BY <1>10, <2>1 DEF ServeSubmit
    <3>3. UNCHANGED <<dialog, send, verify, late>>
      BY <1>10 DEF ServeSubmit
    <3> QED BY <3>1, <3>2, <3>3 DEF dialog, TokenIsHome, SubmitsAgree
  <2> QED BY <2>2, <2>3
<1>11. ASSUME CodeSent
       PROVE  ResetTypes' /\ TokenIsHome' /\ SubmitsAgree'
  <2>1. ResetTypes'
    BY <1>11, NoCallIsCall DEF CodeSent, Answered, ResetTypes, ResetCall
  <2>2. TokenIsHome' /\ SubmitsAgree'
    BY <1>11 DEF CodeSent, Answered, NoCall, ResetTypes, ResetCall, TokenIsHome, SubmitsAgree
  <2> QED BY <2>1, <2>2
<1>12. ASSUME CodeVerified
       PROVE  ResetTypes' /\ TokenIsHome' /\ SubmitsAgree'
  <2>1. ResetTypes'
    BY <1>12, NoCallIsCall DEF CodeVerified, Answered, ResetTypes, ResetCall
  <2>2. TokenIsHome' /\ SubmitsAgree'
    BY <1>12 DEF CodeVerified, Answered, NoCall, ResetTypes, ResetCall, TokenIsHome, SubmitsAgree
  <2> QED BY <2>1, <2>2
<1>13. ASSUME PasswordSet
       PROVE  ResetTypes' /\ TokenIsHome' /\ SubmitsAgree'
  <2>1. ResetTypes'
    BY <1>13, NoCallIsCall DEF PasswordSet, Answered, ResetTypes, ResetCall
  <2>2. TokenIsHome' /\ SubmitsAgree'
    BY <1>13 DEF PasswordSet, Answered, NoCall, ResetTypes, ResetCall, TokenIsHome, SubmitsAgree
  <2> QED BY <2>1, <2>2
<1>14. CASE UNCHANGED resetVars
  BY <1>14 DEF resetVars, ResetTypes, TokenIsHome, SubmitsAgree
<1> QED BY <1>1, <1>2, <1>3, <1>4, <1>5, <1>6, <1>7, <1>8, <1>9, <1>10, <1>11, <1>12, <1>13, <1>14
        DEF ResetNext

LEMMA ResetIInvSuffices == ResetIInv => PasswordsGoToTheAddress
  BY DEF ResetIInv, ResetTypes, SubmitsAgree, PasswordsGoToTheAddress

-----------------------------------------------------------------------------
(* The dispatches of webhooks.                                             *)

Entry  == [event: Events, ok: BOOLEAN]
Todos == UNION {[S -> Nat] : S \in SUBSET Hooks}
Endpoint == [st: {"new", "up", "gone"}, active: BOOLEAN, failures: Nat]
Dispatch == [st: {"none", "queued", "running", "done", "lost"}, left: Nat, todo: Todos]

DeliveryTypes ==
  /\ endpoint \in [Hooks -> Endpoint]
  /\ deliveries \in [Hooks -> Seq(Entry)]
  /\ dispatch \in [Events -> Dispatch]
  /\ paused \subseteq Hooks /\ owed \in [Events -> SUBSET Hooks]

\* No counter runs ahead of the log: neither one that is stored nor one that a
\* dispatch has loaded and goes on from.
CountersAreLogged ==
  /\ \A h \in Hooks : endpoint[h].failures <= FailedTo(h)
  /\ \A e \in Events : \A h \in DOMAIN dispatch[e].todo :
       endpoint[h].st # "gone" => dispatch[e].todo[h] <= FailedTo(h)

\* An endpoint that its owner did not switch off is off for its failures.
OffForFailures ==
  \A h \in Hooks \ paused :
    endpoint[h].st = "up" /\ ~endpoint[h].active => FailedTo(h) >= FailureLimit

OnlyUpIsActive == \A h \in Hooks : endpoint[h].active => endpoint[h].st = "up"

Tried(tries, e) == \E i \in DOMAIN tries : tries[i].event = e
TriedFor(e, h) == Tried(deliveries[h], e)

\* What is owed is active, and a dispatch under way has it before it or behind it.
OwedIsAhead ==
  \A e \in Events : \A h \in owed[e] :
    /\ endpoint[h].active /\ h \in Subscribers[e]
    /\ dispatch[e].st = "running" => TriedFor(e, h) \/ h \in DOMAIN dispatch[e].todo
    /\ dispatch[e].st = "done" => TriedFor(e, h)

DeliveryIInv ==
  DeliveryTypes /\ CountersAreLogged /\ OffForFailures /\ OnlyUpIsActive /\ OwedIsAhead

-----------------------------------------------------------------------------
\* Failures in a log.
Failures(tries) == Cardinality({i \in DOMAIN tries : ~tries[i].ok})

LEMMA FailuresOfNone == Failures(<<>>) = 0
<1>1. {i \in DOMAIN <<>> : ~(<<>>)[i].ok} = {}
  OBVIOUS
<1> QED BY <1>1, FS_EmptySet DEF Failures

LEMMA FailuresIsNat ==
  ASSUME NEW tries \in Seq(Entry)
  PROVE  Failures(tries) \in Nat
<1>1. IsFiniteSet(1..Len(tries)) /\ DOMAIN tries = 1..Len(tries)
  BY FS_Interval, LenProperties
<1>2. {i \in DOMAIN tries : ~tries[i].ok} \subseteq 1..Len(tries)
  BY <1>1
<1> QED BY <1>1, <1>2, FS_Subset, FS_CardinalityType DEF Failures

\* A failed delivery adds one to them, another leaves them.
LEMMA FailuresAppend ==
  ASSUME NEW tries \in Seq(Entry), NEW entry \in Entry
  PROVE  Failures(Append(tries, entry)) = IF entry.ok THEN Failures(tries) ELSE Failures(tries) + 1
<1> DEFINE S == {i \in DOMAIN tries : ~tries[i].ok}
           T == {i \in DOMAIN Append(tries, entry) : ~Append(tries, entry)[i].ok}
           n == Len(tries) + 1
<1>1. /\ DOMAIN tries = 1..Len(tries) /\ Len(tries) \in Nat
      /\ DOMAIN Append(tries, entry) = 1..n
      /\ \A i \in 1..Len(tries) : Append(tries, entry)[i] = tries[i]
      /\ Append(tries, entry)[n] = entry
  BY LenProperties, AppendProperties
<1>2. T = IF entry.ok THEN S ELSE S \cup {n}
  BY <1>1
<1>3. IsFiniteSet(S) /\ n \notin S
  <2>1. S \subseteq 1..Len(tries) /\ IsFiniteSet(1..Len(tries))
    BY <1>1, FS_Interval
  <2> QED BY <2>1, <1>1, FS_Subset
<1>4. Cardinality(T) = IF entry.ok THEN Cardinality(S) ELSE Cardinality(S) + 1
  BY <1>2, <1>3, FS_AddElement
<1> QED BY <1>4 DEF Failures

\* An event that was tried is tried in every longer log.
LEMMA TriedAppend ==
  ASSUME NEW tries \in Seq(Entry), NEW entry \in Entry
  PROVE  /\ \A e \in Events : Tried(tries, e) => Tried(Append(tries, entry), e)
         /\ Tried(Append(tries, entry), entry.event)
  BY LenProperties, AppendProperties DEF Tried

LEMMA TodosArePartial ==
  /\ NoLoaded \in Todos /\ DOMAIN NoLoaded = {}
  /\ \A todo \in Todos : DOMAIN todo \subseteq Hooks /\ \A h \in DOMAIN todo : todo[h] \in Nat
  /\ \A S \in SUBSET Hooks : \A f \in [S -> Nat] : f \in Todos
<1>1. NoLoaded \in [{} -> Nat] /\ DOMAIN NoLoaded = {}
  BY DEF NoLoaded
<1> QED BY <1>1 DEF Todos

\* A call that fails leaves the event queued again, or lost.
LEMMA AfterErrorIsChange ==
  ASSUME DeliveryTypes, WebhookAssumption, NEW e \in Events
  PROVE  /\ AfterError(e) \in [Events -> Dispatch]
         /\ AfterError(e)[e].st \in {"queued", "lost"} /\ AfterError(e)[e].todo = NoLoaded
         /\ \A g \in Events : g # e => AfterError(e)[g] = dispatch[g]
<1>1. dispatch[e] \in Dispatch /\ NoLoaded \in Todos
  BY TodosArePartial DEF DeliveryTypes
<1>2. AfterError(e)[e] = [dispatch[e] EXCEPT !.st = IF dispatch[e].left > 0 THEN "queued" ELSE "lost",
                                              !.left = IF @ > 0 THEN @ - 1 ELSE 0,
                                              !.todo = NoLoaded]
  BY DEF AfterError, DeliveryTypes
<1>3. AfterError(e)[e] \in Dispatch
  <2>1. dispatch[e].left \in Nat
    BY <1>1 DEF Dispatch
  <2>2. (IF dispatch[e].left > 0 THEN dispatch[e].left - 1 ELSE 0) \in Nat
    BY <2>1
  <2> QED BY <1>1, <1>2, <2>2 DEF Dispatch
<1>4. AfterError(e)[e].st \in {"queued", "lost"} /\ AfterError(e)[e].todo = NoLoaded
  BY <1>1, <1>2 DEF Dispatch
<1>5. AfterError(e) \in [Events -> Dispatch] /\ \A g \in Events : g # e => AfterError(e)[g] = dispatch[g]
  BY <1>3 DEF AfterError, DeliveryTypes
<1> QED BY <1>4, <1>5

LEMMA DeliveryInitInv == WebhookAssumption /\ DeliveryInit => DeliveryIInv
<1> SUFFICES ASSUME WebhookAssumption, DeliveryInit PROVE DeliveryIInv
  OBVIOUS
<1>1. DeliveryTypes
  <2>1. [st |-> "none", left |-> 0, todo |-> NoLoaded] \in Dispatch
        /\ [st |-> "new", active |-> FALSE, failures |-> 0] \in Endpoint /\ <<>> \in Seq(Entry)
    BY TodosArePartial DEF Dispatch, Endpoint
  <2> QED BY <2>1 DEF DeliveryInit, DeliveryTypes
<1>2. CountersAreLogged
  <2>1. \A h \in Hooks : endpoint[h].failures = 0 /\ FailedTo(h) = 0
    BY FailuresOfNone DEF DeliveryInit, FailedTo, Failures
  <2>2. \A e \in Events : DOMAIN dispatch[e].todo = {}
    BY TodosArePartial DEF DeliveryInit
  <2> QED BY <2>1, <2>2 DEF CountersAreLogged
<1>3. OffForFailures /\ OnlyUpIsActive /\ OwedIsAhead
  BY DEF DeliveryInit, OffForFailures, OnlyUpIsActive, OwedIsAhead
<1> QED BY <1>1, <1>2, <1>3 DEF DeliveryIInv

\* Steps of a dispatch that post nothing.
LEMMA DispatchStepInv ==
  ASSUME DeliveryIInv, WebhookAssumption, NEW e \in Events, NEW d \in Dispatch,
         dispatch' \in [Events -> Dispatch], dispatch'[e] = d,
         \A g \in Events : g # e => dispatch'[g] = dispatch[g],
         UNCHANGED <<endpoint, deliveries, paused>>,
         owed' \in [Events -> SUBSET Hooks],
         \A g \in Events : g # e => owed'[g] = owed[g],
         \A h \in owed'[e] : endpoint[h].active /\ h \in Subscribers[e]
                             /\ (d.st = "running" => h \in DOMAIN d.todo),
         d.st = "done" => owed'[e] = {},
         \A h \in DOMAIN d.todo : endpoint[h].st # "gone" => d.todo[h] <= FailedTo(h)
  PROVE  DeliveryIInv'
<1>2. DeliveryTypes'
  BY DEF DeliveryIInv, DeliveryTypes
<1>3. \A h \in Hooks : FailedTo(h)' = FailedTo(h)
  BY DEF FailedTo
<1>4. \A h \in DOMAIN d.todo : h \in Hooks
  BY TodosArePartial DEF Dispatch
<1>5. CountersAreLogged'
  <2>1. \A h \in Hooks : endpoint'[h].failures <= FailedTo(h)'
    BY <1>3 DEF DeliveryIInv, CountersAreLogged
  <2>2. \A h \in DOMAIN d.todo : endpoint'[h].st # "gone" => d.todo[h] <= FailedTo(h)'
    BY <1>3, <1>4
  <2>3. \A g \in Events : g # e => \A h \in DOMAIN dispatch[g].todo : h \in Hooks
    BY TodosArePartial DEF DeliveryIInv, DeliveryTypes, Dispatch
  <2>4. \A g \in Events : g # e => \A h \in DOMAIN dispatch'[g].todo :
          endpoint'[h].st # "gone" => dispatch'[g].todo[h] <= FailedTo(h)'
    <3> SUFFICES ASSUME NEW g \in Events, g # e, NEW h \in DOMAIN dispatch'[g].todo,
                        endpoint'[h].st # "gone"
                 PROVE  dispatch'[g].todo[h] <= FailedTo(h)'
      OBVIOUS
    <3>1. dispatch'[g] = dispatch[g] /\ h \in DOMAIN dispatch[g].todo /\ endpoint[h].st # "gone"
      OBVIOUS
    <3>2. FailedTo(h)' = FailedTo(h)
      BY <2>3, <3>1, <1>3
    <3> QED BY <3>1, <3>2 DEF DeliveryIInv, CountersAreLogged
  <2> QED BY <2>1, <2>2, <2>4 DEF CountersAreLogged
<1>6. OffForFailures' /\ OnlyUpIsActive'
  BY <1>3 DEF DeliveryIInv, OffForFailures, OnlyUpIsActive
<1>7. OwedIsAhead'
  BY DEF DeliveryIInv, OwedIsAhead, TriedFor
<1> QED BY <1>2, <1>5, <1>6, <1>7 DEF DeliveryIInv

\* What switching an endpoint off or deleting it takes from what is owed.
LEMMA ExcuseTakes ==
  ASSUME DeliveryTypes, NEW h \in Hooks, Excuse(h)
  PROVE  /\ owed' \in [Events -> SUBSET Hooks]
         /\ \A e \in Events : owed'[e] = owed[e] \ {h}
  BY DEF DeliveryTypes, Excuse

\* Changes of one endpoint by its owner.
LEMMA OwnerStepInv ==
  ASSUME DeliveryIInv, WebhookAssumption, NEW h \in Hooks,
         RegisterEndpoint(h) \/ (\E on \in BOOLEAN : SetActive(h, on)) \/ RemoveEndpoint(h)
  PROVE  DeliveryIInv'
<1> USE DEF DeliveryIInv
<1>0. \A g \in Hooks : /\ FailedTo(g) = Failures(deliveries[g]) /\ FailedTo(g) \in Nat
                       /\ FailedTo(g)' = Failures(deliveries'[g])
  BY FailuresIsNat DEF DeliveryTypes, FailedTo, Failures
<1>00. \A e \in Events : dispatch[e].todo \in Todos /\ DOMAIN dispatch[e].todo \subseteq Hooks
  BY TodosArePartial DEF DeliveryTypes, Dispatch
<1>1. CASE RegisterEndpoint(h)
  <2>1. /\ endpoint[h].st = "new" /\ UNCHANGED <<deliveries, dispatch, paused, owed>>
        /\ endpoint' = [endpoint EXCEPT ![h] = [st |-> "up", active |-> TRUE, failures |-> 0]]
    BY <1>1 DEF RegisterEndpoint
  <2>2. [st |-> "up", active |-> TRUE, failures |-> 0] \in Endpoint
    BY DEF Endpoint
  <2>3. DeliveryTypes'
    BY <2>1, <2>2 DEF DeliveryTypes
  <2>4. \A g \in Hooks : endpoint'[g] = IF g = h THEN [st |-> "up", active |-> TRUE, failures |-> 0]
                                        ELSE endpoint[g]
    BY <2>1 DEF DeliveryTypes
  <2>5. CountersAreLogged'
    <3>1. \A g \in Hooks : /\ FailedTo(g)' = FailedTo(g)
                           /\ endpoint'[g].failures = IF g = h THEN 0 ELSE endpoint[g].failures
                           /\ endpoint[g].st = "gone" => endpoint'[g].st = "gone"
      BY <2>1, <2>4, <1>0
    <3>2. \A g \in Hooks : endpoint'[g].st # "gone" /\ g # h => endpoint[g].st # "gone"
      BY <2>4
    <3>3. endpoint[h].st # "gone"
      BY <2>1
    <3>4. \A g \in Hooks : endpoint'[g].failures <= FailedTo(g)'
      BY <3>1, <1>0 DEF CountersAreLogged
    <3>5. \A g \in Hooks : endpoint'[g].st # "gone" => endpoint[g].st # "gone"
      BY <3>2, <3>3
    <3> QED BY <2>1, <3>1, <3>4, <3>5, <1>00 DEF CountersAreLogged
  <2>6. OffForFailures' /\ OnlyUpIsActive'
    BY <2>1, <2>4, <1>0 DEF OffForFailures, OnlyUpIsActive
  <2>7. OwedIsAhead'
    BY <2>1, <2>4 DEF OwedIsAhead, TriedFor, DeliveryTypes
  <2> QED BY <2>3, <2>5, <2>6, <2>7
<1>2. ASSUME NEW on \in BOOLEAN, SetActive(h, on) PROVE DeliveryIInv'
  <2>1. /\ endpoint[h].st = "up" /\ UNCHANGED <<deliveries, dispatch>>
        /\ endpoint' = [endpoint EXCEPT ![h].active = on]
        /\ IF on THEN paused' = paused \ {h} /\ UNCHANGED owed
                 ELSE paused' = paused \cup {h} /\ Excuse(h)
    BY <1>2 DEF SetActive
  <2>2. /\ endpoint' \in [Hooks -> Endpoint]
        /\ \A g \in Hooks : /\ endpoint'[g].st = endpoint[g].st
                            /\ endpoint'[g].failures = endpoint[g].failures
                            /\ endpoint'[g].active = IF g = h THEN on ELSE endpoint[g].active
    BY <2>1 DEF DeliveryTypes, Endpoint
  <2>3. /\ owed' \in [Events -> SUBSET Hooks]
        /\ \A e \in Events : owed'[e] = IF on THEN owed[e] ELSE owed[e] \ {h}
    BY <2>1, ExcuseTakes DEF DeliveryTypes
  <2>4. DeliveryTypes'
    BY <2>1, <2>2, <2>3 DEF DeliveryTypes
  <2>5. CountersAreLogged'
    BY <2>1, <2>2, <1>0, <1>00 DEF CountersAreLogged
  <2>6. OffForFailures' /\ OnlyUpIsActive'
    BY <2>1, <2>2, <1>0 DEF OffForFailures, OnlyUpIsActive
  <2>7. OwedIsAhead'
    BY <2>1, <2>2, <2>3 DEF OwedIsAhead, TriedFor, DeliveryTypes
  <2> QED BY <2>4, <2>5, <2>6, <2>7
<1>3. CASE RemoveEndpoint(h)
  <2>1. /\ endpoint' = [endpoint EXCEPT ![h] = [st |-> "gone", active |-> FALSE, failures |-> 0]]
        /\ deliveries' = [deliveries EXCEPT ![h] = <<>>]
        /\ Excuse(h) /\ UNCHANGED <<dispatch, paused>>
    BY <1>3 DEF RemoveEndpoint
  <2>2. [st |-> "gone", active |-> FALSE, failures |-> 0] \in Endpoint /\ <<>> \in Seq(Entry)
    BY DEF Endpoint
  <2>3. /\ owed' \in [Events -> SUBSET Hooks] /\ \A e \in Events : owed'[e] = owed[e] \ {h}
    BY <2>1, ExcuseTakes
  <2>4. DeliveryTypes'
    BY <2>1, <2>2, <2>3 DEF DeliveryTypes
  <2>5. \A g \in Hooks : /\ endpoint'[g] = IF g = h THEN [st |-> "gone", active |-> FALSE, failures |-> 0]
                                           ELSE endpoint[g]
                         /\ deliveries'[g] = IF g = h THEN <<>> ELSE deliveries[g]
    BY <2>1 DEF DeliveryTypes
  <2>6. FailedTo(h)' = 0 /\ \A g \in Hooks : g # h => FailedTo(g)' = FailedTo(g)
    BY <1>0, <2>5, FailuresOfNone
  <2>7. CountersAreLogged'
    <3>1. \A g \in Hooks : /\ endpoint'[g].failures = IF g = h THEN 0 ELSE endpoint[g].failures
                           /\ endpoint'[g].st # "gone" => g # h /\ endpoint[g].st # "gone"
      <4>0. endpoint'[h] = [st |-> "gone", active |-> FALSE, failures |-> 0]
        BY <2>5
      <4>1. endpoint'[h].failures = 0 /\ endpoint'[h].st = "gone"
        BY <4>0
      <4>2. \A g \in Hooks : g # h => endpoint'[g] = endpoint[g]
        BY <2>5
      <4> QED BY <4>1, <4>2
    <3>2. ASSUME NEW g \in Hooks PROVE endpoint'[g].failures <= FailedTo(g)'
      <4>1. CASE g = h
        BY <3>1, <2>6, <4>1
      <4>2. CASE g # h
        <5>1. endpoint'[g].failures = endpoint[g].failures /\ FailedTo(g)' = FailedTo(g)
          BY <3>1, <2>6, <4>2
        <5> QED BY <5>1 DEF CountersAreLogged
      <4> QED BY <4>1, <4>2
    <3>3. \A e \in Events : \A g \in DOMAIN dispatch[e].todo :
            endpoint'[g].st # "gone" => dispatch[e].todo[g] <= FailedTo(g)'
      BY <3>1, <2>6, <1>00 DEF CountersAreLogged
    <3> QED BY <2>1, <3>2, <3>3 DEF CountersAreLogged
  <2>8. OffForFailures' /\ OnlyUpIsActive'
    BY <2>1, <2>5, <2>6 DEF OffForFailures, OnlyUpIsActive
  <2>9. OwedIsAhead'
    BY <2>1, <2>3, <2>5 DEF OwedIsAhead, TriedFor, DeliveryTypes
  <2> QED BY <2>4, <2>7, <2>8, <2>9
<1> QED BY <1>1, <1>2, <1>3

\* A delivery: its record, the counter, the rest of the dispatch.
LEMMA PostStepInv ==
  ASSUME DeliveryIInv, WebhookAssumption, NEW e \in Events, NEW ok \in BOOLEAN,
         NEW h \in DOMAIN dispatch[e].todo, PostTo(e, h, ok)
  PROVE  DeliveryIInv'
<1> DEFINE loaded == dispatch[e].todo[h]
           rest   == DOMAIN dispatch[e].todo \ {h}
           row    == IF ok THEN ResetFailures(endpoint[h], loaded)
                           ELSE IncrementFailure(endpoint[h], loaded)
           entry  == [event |-> e, ok |-> ok]
<1> USE DEF DeliveryIInv
<1>1. /\ \A g \in Events : dispatch[g].todo \in Todos /\ DOMAIN dispatch[g].todo \subseteq Hooks
      /\ h \in Hooks /\ loaded \in Nat /\ rest \in SUBSET Hooks
  BY TodosArePartial DEF DeliveryTypes, Dispatch
<1>2. \A g \in Hooks : /\ FailedTo(g) = Failures(deliveries[g]) /\ FailedTo(g) \in Nat
                       /\ FailedTo(g)' = Failures(deliveries'[g])
  BY FailuresIsNat DEF DeliveryTypes, FailedTo, Failures
<1>3. dispatch[e].st = "running" /\ UNCHANGED paused
  BY DEF PostTo
<1>4. CASE endpoint[h].st = "gone"
  <2>1. dispatch' = AfterError(e) /\ UNCHANGED <<endpoint, deliveries, owed, paused>>
    BY <1>4 DEF PostTo
  <2>2. \A g \in owed[e] : endpoint[g].active /\ g \in Subscribers[e]
    BY DEF OwedIsAhead
  <2> QED BY <2>1, <2>2, AfterErrorIsChange, DispatchStepInv, TodosArePartial DEF DeliveryTypes
<1>5. CASE endpoint[h].st # "gone"
  <2>1. /\ endpoint' = [endpoint EXCEPT ![h] = row]
        /\ deliveries' = [deliveries EXCEPT ![h] = Append(@, entry)]
        /\ dispatch' = [dispatch EXCEPT ![e].st = IF rest = {} THEN "done" ELSE "running",
                                       ![e].todo = [g \in rest |-> dispatch[e].todo[g]]]
        /\ IF row.active THEN UNCHANGED owed ELSE Excuse(h)
    BY <1>5 DEF PostTo
  <2>2. endpoint[h] \in Endpoint
    BY <1>1 DEF DeliveryTypes
  <2>3. /\ row \in Endpoint /\ row.st = endpoint[h].st
        /\ row.active => endpoint[h].active
        /\ ok => row.active = endpoint[h].active /\ row.failures \in {0, endpoint[h].failures}
        /\ ~ok => row.failures = loaded + 1
        /\ ~ok /\ ~row.active => ~endpoint[h].active \/ loaded + 1 >= FailureLimit
    <3>1. CASE ok
      BY <3>1, <2>2 DEF ResetFailures, Endpoint
    <3>2. CASE ~ok
      <4>1. row = [endpoint[h] EXCEPT !.failures = loaded + 1, !.active = @ /\ loaded + 1 < FailureLimit]
        BY <3>2 DEF IncrementFailure
      <4>0. row.active = (endpoint[h].active /\ loaded + 1 < FailureLimit)
        BY <4>1, <2>2, Zenon DEF Endpoint
      <4>00. row.st = endpoint[h].st /\ row.failures = loaded + 1
        BY <4>1, <2>2 DEF Endpoint
      <4>2. /\ row.st = endpoint[h].st /\ row.failures = loaded + 1 /\ loaded + 1 \in Nat
            /\ row.active = (endpoint[h].active /\ loaded + 1 < FailureLimit)
        BY <4>0, <4>00, <1>1
      <4>3. row \in Endpoint
        BY <4>1, <4>2, <2>2 DEF Endpoint
      <4>4. loaded + 1 < FailureLimit \/ loaded + 1 >= FailureLimit
        BY <1>1 DEF WebhookAssumption
      <4> QED BY <3>2, <4>2, <4>3, <4>4
    <3> QED BY <3>1, <3>2
  <2> HIDE DEF row
  <2>4. \A g \in Hooks : endpoint'[g] = IF g = h THEN row ELSE endpoint[g]
    BY <2>1 DEF DeliveryTypes
  <2>5. entry \in Entry /\ deliveries[h] \in Seq(Entry) /\ entry.ok = ok /\ entry.event = e
    BY <1>1 DEF Entry, DeliveryTypes
  <2> HIDE DEF entry
  <2>6. /\ Append(deliveries[h], entry) \in Seq(Entry)
        /\ \A g \in Hooks : deliveries'[g] = IF g = h THEN Append(deliveries[h], entry) ELSE deliveries[g]
    BY <2>1, <2>5, AppendProperties DEF DeliveryTypes
  <2>7. /\ FailedTo(h)' = IF ok THEN FailedTo(h) ELSE FailedTo(h) + 1
        /\ \A g \in Hooks : g # h => FailedTo(g)' = FailedTo(g)
        /\ \A g \in Hooks : FailedTo(g) <= FailedTo(g)'
    <3>1. FailedTo(h)' = IF ok THEN FailedTo(h) ELSE FailedTo(h) + 1
      <4>1. Failures(Append(deliveries[h], entry))
              = IF entry.ok THEN Failures(deliveries[h]) ELSE Failures(deliveries[h]) + 1
        BY <2>5, FailuresAppend
      <4>2. deliveries'[h] = Append(deliveries[h], entry)
        BY <1>1, <2>6
      <4>3. FailedTo(h)' = Failures(deliveries'[h]) /\ FailedTo(h) = Failures(deliveries[h])
        BY <1>1, <1>2
      <4>4. entry.ok = ok
        BY <2>5
      <4>5. FailedTo(h)' = Failures(Append(deliveries[h], entry))
        BY <4>2, <4>3, Zenon
      <4> QED BY <4>1, <4>3, <4>4, <4>5, Zenon
    <3>2. \A g \in Hooks : g # h => FailedTo(g)' = FailedTo(g)
      BY <1>2, <2>6
    <3> QED BY <3>1, <3>2, <1>1, <1>2
  <2>8. [g \in rest |-> dispatch[e].todo[g]] \in Todos
    <3>1. [g \in rest |-> dispatch[e].todo[g]] \in [rest -> Nat]
      BY <1>1, TodosArePartial
    <3> QED BY <3>1, <1>1, TodosArePartial
  <2>9. /\ dispatch' \in [Events -> Dispatch]
        /\ dispatch'[e].st = (IF rest = {} THEN "done" ELSE "running")
        /\ dispatch'[e].todo = [g \in rest |-> dispatch[e].todo[g]]
        /\ \A g \in Events : g # e => dispatch'[g] = dispatch[g]
    BY <2>1, <2>8 DEF DeliveryTypes, Dispatch
  <2>10. /\ owed' \in [Events -> SUBSET Hooks]
         /\ \A g \in Events : owed'[g] = IF row.active THEN owed[g] ELSE owed[g] \ {h}
    BY <2>1, <1>1, ExcuseTakes DEF DeliveryTypes
  <2>11. DeliveryTypes'
    BY <2>1, <2>3, <2>6, <2>9, <2>10, <1>3 DEF DeliveryTypes
  <2>12. CountersAreLogged'
    <3>1. loaded <= FailedTo(h)
      BY <1>5 DEF CountersAreLogged
    <3>2. ASSUME NEW g \in Hooks PROVE endpoint'[g].failures <= FailedTo(g)'
      <4>1. CASE g # h
        BY <4>1, <2>4, <2>7 DEF CountersAreLogged
      <4>2. CASE g = h
        <5>1. endpoint'[g] = row /\ endpoint[h].failures <= FailedTo(h)
          BY <4>2, <2>4 DEF CountersAreLogged
        <5>2. row.failures <= FailedTo(h)'
          BY <5>1, <2>3, <2>7, <3>1, <1>1, <1>2
        <5> QED BY <4>2, <5>1, <5>2
      <4> QED BY <4>1, <4>2
    <3>3. ASSUME NEW d \in Events, NEW g \in DOMAIN dispatch'[d].todo, endpoint'[g].st # "gone"
          PROVE  dispatch'[d].todo[g] <= FailedTo(g)'
      <4>1. /\ g \in DOMAIN dispatch[d].todo /\ dispatch'[d].todo[g] = dispatch[d].todo[g]
        BY <2>9
      <4>2. g \in Hooks /\ endpoint[g].st # "gone" /\ dispatch[d].todo[g] \in Nat
        BY <4>1, <1>1, <2>3, <2>4, <3>3, TodosArePartial
      <4>3. dispatch[d].todo[g] <= FailedTo(g)
        BY <4>1, <4>2 DEF CountersAreLogged
      <4>4. FailedTo(g) <= FailedTo(g)' /\ FailedTo(g) \in Nat /\ FailedTo(g)' \in Nat
        BY <4>2, <1>2, <2>7
      <4> QED BY <4>1, <4>2, <4>3, <4>4
    <3> QED BY <3>2, <3>3 DEF CountersAreLogged
  <2>13. OffForFailures'
    <3> SUFFICES ASSUME NEW g \in Hooks \ paused, endpoint'[g].st = "up", ~endpoint'[g].active
                 PROVE  FailedTo(g)' >= FailureLimit
      BY <1>3 DEF OffForFailures
    <3>1. CASE ~endpoint[g].active
      <4>1. endpoint[g].st = "up"
        BY <2>3, <2>4
      <4>2. FailedTo(g) >= FailureLimit
        BY <3>1, <4>1 DEF OffForFailures
      <4> QED BY <4>2, <2>7, <1>2 DEF WebhookAssumption
    <3>2. CASE endpoint[g].active
      <4>1. g = h /\ ~row.active /\ ~ok /\ loaded + 1 >= FailureLimit
        BY <3>2, <2>3, <2>4
      <4>2. loaded <= FailedTo(h)
        BY <1>5 DEF CountersAreLogged
      <4> QED BY <4>1, <4>2, <2>7, <1>1, <1>2 DEF WebhookAssumption
    <3> QED BY <3>1, <3>2
  <2>14. OnlyUpIsActive'
    BY <2>3, <2>4 DEF OnlyUpIsActive
  <2>15. OwedIsAhead'
    <3>0. /\ \A d \in Events : Tried(deliveries[h], d) => Tried(deliveries'[h], d)
          /\ Tried(deliveries'[h], e)
          /\ \A g \in Hooks : g # h => deliveries'[g] = deliveries[g]
      BY <2>5, <2>6, <1>1, TriedAppend
    <3>1. \A d \in Events, g \in Hooks : TriedFor(d, g) => TriedFor(d, g)'
      BY <3>0 DEF TriedFor
    <3>2. TriedFor(e, h)'
      BY <3>0 DEF TriedFor
    <3> SUFFICES ASSUME NEW d \in Events, NEW g \in owed'[d]
                 PROVE  /\ endpoint'[g].active /\ g \in Subscribers[d]
                        /\ dispatch'[d].st = "running" => TriedFor(d, g)' \/ g \in DOMAIN dispatch'[d].todo
                        /\ dispatch'[d].st = "done" => TriedFor(d, g)'
      BY DEF OwedIsAhead
    <3>3. g \in owed[d] /\ g \in Hooks /\ (g = h => row.active)
      BY <2>10 DEF DeliveryTypes
    <3>4. endpoint'[g].active /\ g \in Subscribers[d]
      BY <3>3, <2>4 DEF OwedIsAhead
    <3>5. CASE d # e
      BY <3>1, <3>3, <3>4, <3>5, <2>9 DEF OwedIsAhead
    <3>6. CASE d = e
      <4>1. TriedFor(e, g) \/ g \in DOMAIN dispatch[e].todo
        BY <3>3, <3>6, <1>3 DEF OwedIsAhead
      <4>2. TriedFor(e, g)' \/ g \in rest
        BY <4>1, <3>1, <3>2, <3>3
      <4> QED BY <3>4, <3>6, <4>2, <2>9
    <3> QED BY <3>5, <3>6
  <2> QED BY <2>11, <2>12, <2>13, <2>14, <2>15
<1> QED BY <1>4, <1>5

LEMMA DeliveryStepInv ==
  ASSUME WebhookAssumption, DeliveryIInv, [DeliveryNext]_deliveryVars
  PROVE  DeliveryIInv'
<1>1. ASSUME NEW h \in Hooks, RegisterEndpoint(h) \/ RemoveEndpoint(h) PROVE DeliveryIInv'
  BY <1>1, OwnerStepInv
<1>2. ASSUME NEW h \in Hooks, NEW on \in BOOLEAN, SetActive(h, on) PROVE DeliveryIInv'
  BY <1>2, OwnerStepInv
<1>3. ASSUME NEW e \in Events, FireEvent(e) PROVE DeliveryIInv'
  <2>1. /\ dispatch[e].st = "none" /\ UNCHANGED <<endpoint, deliveries, paused>>
        /\ owed' = [owed EXCEPT ![e] = ActiveFor(e)]
    BY <1>3 DEF FireEvent
  <2>2. PICK left \in {Retries, 0} : dispatch' = [dispatch EXCEPT ![e].st = "queued", ![e].left = left]
    BY <1>3 DEF FireEvent
  <2>3. dispatch[e] \in Dispatch /\ left \in Nat
    BY DEF DeliveryIInv, DeliveryTypes, WebhookAssumption
  <2> DEFINE d == [dispatch[e] EXCEPT !.st = "queued", !.left = left]
  <2>4. d \in Dispatch /\ d.st = "queued" /\ d.todo = dispatch[e].todo
    BY <2>3 DEF Dispatch
  <2>5. /\ dispatch' \in [Events -> Dispatch] /\ dispatch'[e] = d
        /\ \A g \in Events : g # e => dispatch'[g] = dispatch[g]
    BY <2>2, <2>4 DEF DeliveryIInv, DeliveryTypes
  <2> HIDE DEF d
  <2>6. ActiveFor(e) \subseteq Hooks /\ \A h \in ActiveFor(e) : endpoint[h].active /\ h \in Subscribers[e]
    BY DEF ActiveFor, WebhookAssumption
  <2>7. /\ owed' \in [Events -> SUBSET Hooks] /\ owed'[e] = ActiveFor(e)
        /\ \A g \in Events : g # e => owed'[g] = owed[g]
    BY <2>1, <2>6 DEF DeliveryIInv, DeliveryTypes
  <2>8. \A h \in DOMAIN d.todo : endpoint[h].st # "gone" => d.todo[h] <= FailedTo(h)
    BY <2>4 DEF DeliveryIInv, CountersAreLogged
  <2> QED BY <2>1, <2>4, <2>5, <2>6, <2>7, <2>8, DispatchStepInv
<1>4. ASSUME NEW e \in Events, LoadEndpoints(e) PROVE DeliveryIInv'
  <2>1. /\ UNCHANGED <<endpoint, deliveries, paused, owed>>
        /\ dispatch' = [dispatch EXCEPT ![e].st = IF ActiveFor(e) = {} THEN "done" ELSE "running",
                                       ![e].todo = [h \in ActiveFor(e) |-> endpoint[h].failures]]
    BY <1>4 DEF LoadEndpoints
  <2>2. ActiveFor(e) \subseteq Hooks
    BY DEF ActiveFor, WebhookAssumption
  <2> DEFINE todo == [h \in ActiveFor(e) |-> endpoint[h].failures]
             d == [dispatch[e] EXCEPT !.st = IF ActiveFor(e) = {} THEN "done" ELSE "running", !.todo = todo]
  <2>3. todo \in Todos
    <3>1. \A h \in ActiveFor(e) : endpoint[h].failures \in Nat
      BY <2>2 DEF DeliveryIInv, DeliveryTypes, Endpoint
    <3>2. todo \in [ActiveFor(e) -> Nat]
      BY <3>1
    <3> QED BY <2>2, <3>2, TodosArePartial
  <2>4. DOMAIN todo = ActiveFor(e) /\ \A h \in ActiveFor(e) : todo[h] = endpoint[h].failures
    OBVIOUS
  <2> HIDE DEF todo
  <2>5. /\ d \in Dispatch /\ d.todo = todo
        /\ d.st = (IF ActiveFor(e) = {} THEN "done" ELSE "running")
    BY <2>3 DEF DeliveryIInv, DeliveryTypes, Dispatch
  <2>6. /\ dispatch' \in [Events -> Dispatch] /\ dispatch'[e] = d
        /\ \A g \in Events : g # e => dispatch'[g] = dispatch[g]
    BY <2>1, <2>5 DEF todo, DeliveryIInv, DeliveryTypes
  <2> HIDE DEF d
  <2>7. owed[e] \subseteq ActiveFor(e) /\ \A h \in owed[e] : endpoint[h].active /\ h \in Subscribers[e]
    BY DEF DeliveryIInv, OwedIsAhead, ActiveFor
  <2>8. \A h \in DOMAIN d.todo : endpoint[h].st # "gone" => d.todo[h] <= FailedTo(h)
    BY <2>2, <2>4, <2>5 DEF DeliveryIInv, CountersAreLogged
  <2>9. /\ d.st = "running" => \A h \in owed[e] : h \in DOMAIN d.todo
        /\ d.st = "done" => owed[e] = {}
    BY <2>4, <2>5, <2>7
  <2> QED BY <2>1, <2>5, <2>6, <2>7, <2>8, <2>9, DispatchStepInv DEF DeliveryIInv, DeliveryTypes
<1>5. ASSUME NEW e \in Events, DispatchRaises(e) PROVE DeliveryIInv'
  <2>1. dispatch' = AfterError(e) /\ UNCHANGED <<endpoint, deliveries, paused, owed>>
    BY <1>5 DEF DispatchRaises
  <2>2. \A h \in owed[e] : endpoint[h].active /\ h \in Subscribers[e]
    BY DEF DeliveryIInv, OwedIsAhead
  <2>3. /\ DeliveryTypes /\ AfterError(e) \in [Events -> Dispatch]
        /\ AfterError(e)[e].st \in {"queued", "lost"} /\ AfterError(e)[e].todo = NoLoaded
        /\ \A g \in Events : g # e => AfterError(e)[g] = dispatch[g]
    BY AfterErrorIsChange DEF DeliveryIInv
  <2>4. /\ dispatch' \in [Events -> Dispatch] /\ dispatch'[e].st \in {"queued", "lost"}
        /\ DOMAIN dispatch'[e].todo = {} /\ \A g \in Events : g # e => dispatch'[g] = dispatch[g]
    BY <2>1, <2>3, TodosArePartial
  <2>5. owed' = owed /\ owed \in [Events -> SUBSET Hooks] /\ dispatch'[e] \in Dispatch
    BY <2>1, <2>3, <2>4 DEF DeliveryTypes
  <2> QED BY <2>1, <2>2, <2>4, <2>5, DispatchStepInv
<1>6. ASSUME NEW e \in Events, WorkerDies(e) PROVE DeliveryIInv'
  <2>1. /\ dispatch' = [dispatch EXCEPT ![e].st = "lost", ![e].todo = NoLoaded]
        /\ UNCHANGED <<endpoint, deliveries, paused, owed>>
    BY <1>6 DEF WorkerDies
  <2> DEFINE d == [dispatch[e] EXCEPT !.st = "lost", !.todo = NoLoaded]
  <2>2. d \in Dispatch /\ d.st = "lost" /\ d.todo = NoLoaded
    BY TodosArePartial DEF DeliveryIInv, DeliveryTypes, Dispatch
  <2>3. /\ dispatch' \in [Events -> Dispatch] /\ dispatch'[e] = d
        /\ \A g \in Events : g # e => dispatch'[g] = dispatch[g]
    BY <2>1, <2>2 DEF DeliveryIInv, DeliveryTypes
  <2> HIDE DEF d
  <2>4. \A h \in owed[e] : endpoint[h].active /\ h \in Subscribers[e]
    BY DEF DeliveryIInv, OwedIsAhead
  <2> QED BY <2>1, <2>2, <2>3, <2>4, DispatchStepInv, TodosArePartial DEF DeliveryIInv, DeliveryTypes
<1>7. ASSUME NEW e \in Events, NEW ok \in BOOLEAN, NEW h \in DOMAIN dispatch[e].todo, PostTo(e, h, ok)
      PROVE  DeliveryIInv'
  BY <1>7, PostStepInv
<1>8. CASE UNCHANGED deliveryVars
  <2>1. \A h \in Hooks : FailedTo(h)' = FailedTo(h)
    BY <1>8 DEF deliveryVars, FailedTo
  <2>2. \A e \in Events : \A h \in DOMAIN dispatch[e].todo : h \in Hooks
    BY TodosArePartial DEF DeliveryIInv, DeliveryTypes, Dispatch
  <2>3. UNCHANGED <<endpoint, deliveries, dispatch, paused, owed>>
    BY <1>8 DEF deliveryVars
  <2>4. DeliveryTypes' /\ OnlyUpIsActive'
    BY <2>3 DEF DeliveryIInv, DeliveryTypes, OnlyUpIsActive
  <2>5. CountersAreLogged' /\ OffForFailures'
    BY <2>1, <2>2, <2>3 DEF DeliveryIInv, CountersAreLogged, OffForFailures
  <2>6. OwedIsAhead'
    BY <2>3 DEF DeliveryIInv, OwedIsAhead, TriedFor
  <2> QED BY <2>4, <2>5, <2>6 DEF DeliveryIInv
<1> QED BY <1>1, <1>2, <1>3, <1>4, <1>5, <1>6, <1>7, <1>8 DEF DeliveryNext

LEMMA DeliveryIInvSuffices == DeliveryIInv => DeliveriesAreTried
  BY DEF DeliveryIInv, OffForFailures, OwedIsAhead, TriedFor, Tried, DeliveriesAreTried

-----------------------------------------------------------------------------
(* The delivery log in its dialog.                                         *)

EnquiryRow == [of: Hooks, same: BOOLEAN, st: {"asked", "served", "failed"}, live: BOOLEAN, rows: Nat]
Entries    == [of: Hooks \cup {NoHook}, same: BOOLEAN, st: {"null", "data", "error"}, rows: Nat]

DialogTypes ==
  /\ dialogOf \in Hooks \cup {NoHook} /\ activeKey \in Hooks \cup {NoHook} /\ atOpen \in Nat
  /\ entries \in Entries /\ enquiries \in Seq(EnquiryRow)

\* The endpoint of the open dialog is the active key, and its log has not shrunk
\* unless the endpoint was deleted.
DialogHoldsItsKey ==
  dialogOf # NoHook =>
    /\ activeKey = dialogOf /\ endpoint[dialogOf].st # "new"
    /\ endpoint[dialogOf].st = "up" => Len(deliveries[dialogOf]) >= atOpen

\* A request that was not cancelled is the open dialog's.
ForTheDialog(q) ==
  /\ dialogOf # NoHook /\ q.of = dialogOf /\ q.same
  /\ q.st = "served" => q.rows >= atOpen
LiveIsTheDialogs == \A i \in DOMAIN enquiries : enquiries[i].live => ForTheDialog(enquiries[i])

\* The open dialog waits for an answer, or has one.
AnswerIsTheDialogs ==
  /\ entries.of = dialogOf /\ entries.same /\ entries.st # "null"
  /\ entries.st = "data" => entries.rows >= atOpen
WaitsOrHasAnswer ==
  dialogOf # NoHook => (\E i \in DOMAIN enquiries : enquiries[i].live) \/ AnswerIsTheDialogs

DialogIInv == DialogTypes /\ DialogHoldsItsKey /\ LiveIsTheDialogs /\ WaitsOrHasAnswer

-----------------------------------------------------------------------------
\* RemoveAt takes out one place and keeps what is at the others.
LEMMA RemoveAtKeeps ==
  ASSUME NEW S, NEW s \in Seq(S), NEW i \in DOMAIN s
  PROVE  /\ RemoveAt(s, i) \in Seq(S)
         /\ \A j \in DOMAIN RemoveAt(s, i) : \E k \in DOMAIN s : k # i /\ RemoveAt(s, i)[j] = s[k]
         /\ \A k \in DOMAIN s : k # i => \E j \in DOMAIN RemoveAt(s, i) : RemoveAt(s, i)[j] = s[k]
<1> DEFINE n == Len(s)
           a == SubSeq(s, 1, i - 1)
           b == SubSeq(s, i + 1, n)
<1>1. n \in Nat /\ DOMAIN s = 1..n /\ i \in 1..n /\ \A j \in 1..n : s[j] \in S
  BY LenProperties, ElementOfSeq
<1>2. /\ a \in Seq(S) /\ Len(a) = i - 1 /\ \A j \in 1..i - 1 : a[j] = s[j]
  <2>1. /\ a \in Seq(S) /\ Len(a) = IF 1 <= i - 1 THEN i - 1 - 1 + 1 ELSE 0
        /\ \A j \in 1..i - 1 - 1 + 1 : a[j] = s[1 + j - 1]
    BY <1>1, SubSeqProperties
  <2> QED BY <1>1, <2>1
<1>3. /\ b \in Seq(S) /\ Len(b) = n - i /\ \A j \in 1..n - i : b[j] = s[i + j]
  <2>1. /\ b \in Seq(S) /\ Len(b) = IF i + 1 <= n THEN n - (i + 1) + 1 ELSE 0
        /\ \A j \in 1..n - (i + 1) + 1 : b[j] = s[i + 1 + j - 1]
    BY <1>1, SubSeqProperties
  <2>2. n - (i + 1) + 1 = n - i /\ (IF i + 1 <= n THEN n - (i + 1) + 1 ELSE 0) = n - i
    BY <1>1
  <2>3. \A j \in 1..n - i : i + 1 + j - 1 = i + j
    BY <1>1
  <2> QED BY <2>1, <2>2, <2>3
<1> HIDE DEF a, b
<1> DEFINE r == a \o b
<1>4. /\ r \in Seq(S) /\ Len(r) = n - 1
      /\ \A j \in 1..n - 1 : r[j] = IF j <= i - 1 THEN a[j] ELSE b[j - (i - 1)]
  <2>1. /\ r \in Seq(S) /\ Len(r) = Len(a) + Len(b)
        /\ \A j \in 1..Len(a) + Len(b) : r[j] = IF j <= Len(a) THEN a[j] ELSE b[j - Len(a)]
    BY <1>2, <1>3, ConcatProperties
  <2>2. Len(a) = i - 1 /\ Len(a) + Len(b) = n - 1
    BY <1>1, <1>2, <1>3
  <2> QED BY <2>1, <2>2
<1>5. RemoveAt(s, i) = r
  BY DEF RemoveAt, a, b
<1> HIDE DEF r
<1>6. DOMAIN r = 1..n - 1
  BY <1>4, LenProperties
<1>7. \A j \in 1..n - 1 : r[j] = IF j <= i - 1 THEN s[j] ELSE s[j + 1]
  <2> SUFFICES ASSUME NEW j \in 1..n - 1 PROVE r[j] = IF j <= i - 1 THEN s[j] ELSE s[j + 1]
    OBVIOUS
  <2>1. CASE j <= i - 1
    BY <1>1, <1>2, <1>4, <2>1
  <2>2. CASE ~(j <= i - 1)
    <3>1. j - (i - 1) \in 1..n - i /\ i + (j - (i - 1)) = j + 1
      BY <1>1, <2>2
    <3> QED BY <1>3, <1>4, <2>2, <3>1
  <2> QED BY <2>1, <2>2
<1>8. \A j \in DOMAIN r : \E k \in DOMAIN s : k # i /\ r[j] = s[k]
  <2> SUFFICES ASSUME NEW j \in 1..n - 1 PROVE \E k \in 1..n : k # i /\ r[j] = s[k]
    BY <1>1, <1>6
  <2>1. CASE j <= i - 1
    BY <1>1, <1>7, <2>1
  <2>2. CASE ~(j <= i - 1)
    <3>1. j + 1 \in 1..n /\ j + 1 # i
      BY <1>1, <2>2
    <3> QED BY <1>7, <2>2, <3>1
  <2> QED BY <2>1, <2>2
<1>9. \A k \in DOMAIN s : k # i => \E j \in DOMAIN r : r[j] = s[k]
  <2> SUFFICES ASSUME NEW k \in 1..n, k # i PROVE \E j \in 1..n - 1 : r[j] = s[k]
    BY <1>1, <1>6
  <2>1. CASE k < i
    <3>1. k \in 1..n - 1 /\ k <= i - 1
      BY <1>1, <2>1
    <3> QED BY <1>7, <3>1
  <2>2. CASE k > i
    <3>1. k - 1 \in 1..n - 1 /\ ~(k - 1 <= i - 1) /\ k - 1 + 1 = k
      BY <1>1, <2>2
    <3> QED BY <1>7, <3>1
  <2> QED BY <1>1, <2>1, <2>2
<1> QED BY <1>4, <1>5, <1>8, <1>9

\* What the rest of the backend does to the logs while a dialog is open.
LEMMA LogsGrow ==
  ASSUME DeliveryTypes, WebhookAssumption, [DeliveryNext]_deliveryVars, NEW h \in Hooks,
         endpoint[h].st # "new"
  PROVE  /\ endpoint'[h].st # "new"
         /\ endpoint'[h].st = "up" => endpoint[h].st = "up" /\ Len(deliveries'[h]) >= Len(deliveries[h])
<1> USE DEF DeliveryTypes
<1>0. Len(deliveries[h]) \in Nat /\ endpoint[h] \in Endpoint
  BY LenProperties
<1>1. ASSUME NEW g \in Hooks, RegisterEndpoint(g)
      PROVE  endpoint'[h] = endpoint[h] /\ deliveries'[h] = deliveries[h]
  BY <1>1 DEF RegisterEndpoint
<1>2. ASSUME NEW g \in Hooks, NEW on \in BOOLEAN, SetActive(g, on)
      PROVE  endpoint'[h].st = endpoint[h].st /\ deliveries'[h] = deliveries[h]
  BY <1>2 DEF SetActive, Endpoint
<1>3. ASSUME NEW g \in Hooks, RemoveEndpoint(g)
      PROVE  \/ endpoint'[h].st = "gone"
             \/ endpoint'[h] = endpoint[h] /\ deliveries'[h] = deliveries[h]
  BY <1>3 DEF RemoveEndpoint
<1>4. ASSUME NEW e \in Events, FireEvent(e) \/ LoadEndpoints(e) \/ DispatchRaises(e) \/ WorkerDies(e)
      PROVE  endpoint' = endpoint /\ deliveries' = deliveries
  BY <1>4 DEF FireEvent, LoadEndpoints, DispatchRaises, WorkerDies
<1>5. ASSUME NEW e \in Events, NEW ok \in BOOLEAN, NEW g \in DOMAIN dispatch[e].todo, PostTo(e, g, ok)
      PROVE  /\ endpoint'[h].st = endpoint[h].st
             /\ Len(deliveries'[h]) \in {Len(deliveries[h]), Len(deliveries[h]) + 1}
  <2>1. g \in Hooks /\ endpoint[g] \in Endpoint
    BY TodosArePartial DEF Dispatch
  <2>2. CASE endpoint[g].st = "gone"
    BY <1>5, <2>2 DEF PostTo
  <2>3. CASE endpoint[g].st # "gone"
    <3> DEFINE row == IF ok THEN ResetFailures(endpoint[g], dispatch[e].todo[g])
                            ELSE IncrementFailure(endpoint[g], dispatch[e].todo[g])
               entry == [event |-> e, ok |-> ok]
    <3>1. /\ endpoint' = [endpoint EXCEPT ![g] = row]
          /\ deliveries' = [deliveries EXCEPT ![g] = Append(@, entry)]
      BY <1>5, <2>3 DEF PostTo
    <3>2. row.st = endpoint[g].st
      BY <2>1 DEF ResetFailures, IncrementFailure, Endpoint
    <3>3. Len(Append(deliveries[g], entry)) = Len(deliveries[g]) + 1
      BY <2>1, AppendProperties DEF Entry
    <3> HIDE DEF row, entry
    <3>4. endpoint'[h].st = endpoint[h].st
      BY <3>1, <3>2, <2>1
    <3>5. deliveries'[h] = IF h = g THEN Append(deliveries[g], entry) ELSE deliveries[h]
      BY <3>1, <2>1
    <3> QED BY <3>3, <3>4, <3>5
  <2> QED BY <2>2, <2>3
<1>6. CASE UNCHANGED deliveryVars
  BY <1>0, <1>6 DEF deliveryVars
<1> QED
  <2>1. CASE UNCHANGED deliveryVars
    BY <1>0, <1>6, <2>1
  <2>2. CASE \E g \in Hooks : RegisterEndpoint(g) \/ RemoveEndpoint(g)
    BY <1>0, <1>1, <1>3, <2>2
  <2>3. CASE \E g \in Hooks, on \in BOOLEAN : SetActive(g, on)
    BY <1>0, <1>2, <2>3
  <2>4. CASE \E e \in Events : FireEvent(e) \/ LoadEndpoints(e) \/ DispatchRaises(e) \/ WorkerDies(e)
    BY <1>0, <1>4, <2>4
  <2>5. CASE \E e \in Events, ok \in BOOLEAN : \E g \in DOMAIN dispatch[e].todo : PostTo(e, g, ok)
    BY <1>0, <1>5, <2>5
  <2> QED BY <2>1, <2>2, <2>3, <2>4, <2>5 DEF DeliveryNext

LEMMA DialogInitInv == DialogAssumption /\ DialogInit => DialogIInv
<1> SUFFICES ASSUME DialogAssumption, DialogInit PROVE DialogIInv
  OBVIOUS
<1>1. DialogTypes
  BY DEF DialogInit, DialogTypes, Entries
<1> QED BY <1>1 DEF DialogInit, DialogIInv, DialogHoldsItsKey, LiveIsTheDialogs, WaitsOrHasAnswer

\* The requests once the effect has cleaned up behind the one before.
LEMMA CancelledIsNotLive ==
  ASSUME NEW qs \in Seq(EnquiryRow)
  PROVE  /\ Cancelled(qs) \in Seq(EnquiryRow)
         /\ \A i \in DOMAIN Cancelled(qs) : ~Cancelled(qs)[i].live
<1>1. /\ Len(qs) \in Nat /\ DOMAIN qs = 1..Len(qs) /\ \A i \in 1..Len(qs) : qs[i] \in EnquiryRow
  BY LenProperties, ElementOfSeq
<1>2. \A i \in 1..Len(qs) : [qs[i] EXCEPT !.live = FALSE] \in EnquiryRow /\ ~[qs[i] EXCEPT !.live = FALSE].live
  BY <1>1 DEF EnquiryRow
<1> DEFINE c(i) == [qs[i] EXCEPT !.live = FALSE]
<1>3. [i \in 1..Len(qs) |-> c(i)] \in Seq(EnquiryRow)
  <2> HIDE DEF c
  <2>1. [i \in 1..Len(qs) |-> c(i)] \in [1..Len(qs) -> EnquiryRow]
    BY <1>2 DEF c
  <2> QED BY <2>1, <1>1, SeqDef
<1>4. Cancelled(qs) = [i \in 1..Len(qs) |-> c(i)]
  BY <1>1 DEF Cancelled
<1> QED BY <1>2, <1>3, <1>4

\* After a request is added to cancelled ones, it is the one that is live.
LEMMA OneLiveEnquiry ==
  ASSUME NEW qs \in Seq(EnquiryRow), \A i \in DOMAIN qs : ~qs[i].live, NEW h \in Hooks
  PROVE  /\ Append(qs, Enquiry(h)) \in Seq(EnquiryRow)
         /\ \A i \in DOMAIN Append(qs, Enquiry(h)) :
              Append(qs, Enquiry(h))[i].live => Append(qs, Enquiry(h))[i] = Enquiry(h)
         /\ \E i \in DOMAIN Append(qs, Enquiry(h)) : Append(qs, Enquiry(h))[i].live
<1>1. Enquiry(h) \in EnquiryRow /\ Enquiry(h).live
  BY DEF Enquiry, EnquiryRow
<1>2. /\ Len(qs) \in Nat /\ DOMAIN qs = 1..Len(qs)
      /\ Append(qs, Enquiry(h)) \in Seq(EnquiryRow)
      /\ DOMAIN Append(qs, Enquiry(h)) = 1..Len(qs) + 1
      /\ \A i \in 1..Len(qs) : Append(qs, Enquiry(h))[i] = qs[i]
      /\ Append(qs, Enquiry(h))[Len(qs) + 1] = Enquiry(h)
  BY <1>1, LenProperties, AppendProperties
<1>3. \A i \in 1..Len(qs) + 1 : i \in 1..Len(qs) \/ i = Len(qs) + 1
  BY <1>2
<1>4. Len(qs) + 1 \in 1..Len(qs) + 1
  BY <1>2
<1> HIDE DEF Enquiry
<1> QED BY <1>1, <1>2, <1>3, <1>4

LEMMA DialogStepInv ==
  ASSUME WebhookAssumption, DialogAssumption, DeliveryTypes, DialogIInv, [WebhooksNext]_webhookVars
  PROVE  DialogIInv'
<1> USE DEF DialogIInv
<1>0. /\ Len(enquiries) \in Nat /\ DOMAIN enquiries = 1..Len(enquiries)
      /\ \A i \in DOMAIN enquiries : enquiries[i] \in EnquiryRow
  BY LenProperties, ElementOfSeq DEF DialogTypes
<1>1. CASE [DeliveryNext]_deliveryVars /\ UNCHANGED dialogVars
  <2>1. UNCHANGED <<dialogOf, entries, enquiries, activeKey, atOpen>>
    BY <1>1 DEF dialogVars
  <2>2. DialogTypes' /\ LiveIsTheDialogs' /\ WaitsOrHasAnswer'
    BY <2>1 DEF DialogTypes, LiveIsTheDialogs, ForTheDialog, WaitsOrHasAnswer, AnswerIsTheDialogs
  <2>3. DialogHoldsItsKey'
    <3> SUFFICES ASSUME dialogOf # NoHook
                 PROVE  /\ activeKey = dialogOf /\ endpoint'[dialogOf].st # "new"
                        /\ endpoint'[dialogOf].st = "up" => Len(deliveries'[dialogOf]) >= atOpen
      BY <2>1 DEF DialogHoldsItsKey
    <3>1. /\ dialogOf \in Hooks /\ activeKey = dialogOf /\ endpoint[dialogOf].st # "new"
          /\ endpoint[dialogOf].st = "up" => Len(deliveries[dialogOf]) >= atOpen
      BY DEF DialogTypes, DialogHoldsItsKey
    <3>2. /\ endpoint'[dialogOf].st # "new"
          /\ endpoint'[dialogOf].st = "up"
             => endpoint[dialogOf].st = "up" /\ Len(deliveries'[dialogOf]) >= Len(deliveries[dialogOf])
      BY <1>1, <3>1, LogsGrow
    <3>3. atOpen \in Nat /\ Len(deliveries[dialogOf]) \in Nat /\ DeliveryTypes
      BY <3>1, LenProperties DEF DialogTypes, DeliveryTypes
    <3> QED BY <3>1, <3>2, <3>3
  <2> QED BY <2>2, <2>3
<1>2. ASSUME NEW h \in Hooks, OpenDeliveries(h), UNCHANGED deliveryVars PROVE DialogIInv'
  <2>1. /\ endpoint[h].st # "new" /\ dialogOf' = h /\ activeKey' = h /\ atOpen' = Len(deliveries[h])
        /\ enquiries' = Append(Cancelled(enquiries), Enquiry(h)) /\ UNCHANGED <<entries, endpoint, deliveries>>
    BY <1>2 DEF OpenDeliveries, deliveryVars
  <2>2. h # NoHook /\ Len(deliveries[h]) \in Nat
    BY LenProperties DEF DialogAssumption, DeliveryTypes
  <2>3. /\ enquiries' \in Seq(EnquiryRow)
        /\ \A i \in DOMAIN enquiries' : enquiries'[i].live => enquiries'[i] = Enquiry(h)
        /\ \E i \in DOMAIN enquiries' : enquiries'[i].live
    <3>1. Cancelled(enquiries) \in Seq(EnquiryRow) /\ \A i \in DOMAIN Cancelled(enquiries) : ~Cancelled(enquiries)[i].live
      BY CancelledIsNotLive DEF DialogTypes
    <3> QED BY <2>1, <3>1, OneLiveEnquiry
  <2>4. Enquiry(h).of = h /\ Enquiry(h).same /\ Enquiry(h).st = "asked"
    BY DEF Enquiry
  <2>5. DialogTypes'
    BY <2>1, <2>2, <2>3 DEF DialogTypes
  <2>6. DialogHoldsItsKey'
    BY <2>1, <2>2 DEF DialogHoldsItsKey
  <2>7. LiveIsTheDialogs'
    BY <2>1, <2>2, <2>3, <2>4 DEF LiveIsTheDialogs, ForTheDialog
  <2>8. WaitsOrHasAnswer'
    BY <2>3 DEF WaitsOrHasAnswer
  <2> QED BY <2>5, <2>6, <2>7, <2>8
<1>3. ASSUME CloseDeliveries, UNCHANGED deliveryVars PROVE DialogIInv'
  <2>1. /\ dialogOf' = NoHook /\ enquiries' = Cancelled(enquiries) /\ UNCHANGED <<entries, activeKey, atOpen>>
    BY <1>3 DEF CloseDeliveries
  <2>2. enquiries' \in Seq(EnquiryRow) /\ \A i \in DOMAIN enquiries' : ~enquiries'[i].live
    BY <2>1, CancelledIsNotLive DEF DialogTypes
  <2> QED BY <2>1, <2>2 DEF DialogTypes, DialogHoldsItsKey, LiveIsTheDialogs, WaitsOrHasAnswer
<1>4. ASSUME NEW i \in DOMAIN enquiries, ServeDeliveries(i), UNCHANGED deliveryVars PROVE DialogIInv'
  <2>1. /\ UNCHANGED <<dialogOf, entries, activeKey, atOpen, endpoint, deliveries>>
        /\ \/ /\ endpoint[enquiries[i].of].st = "up"
              /\ enquiries' = [enquiries EXCEPT ![i].st = "served",
                                               ![i].rows = Len(deliveries[enquiries[i].of])]
           \/ enquiries' = [enquiries EXCEPT ![i].st = "failed"]
    BY <1>4 DEF ServeDeliveries, deliveryVars
  <2>2. enquiries[i].of \in Hooks /\ Len(deliveries[enquiries[i].of]) \in Nat
    BY <1>0, LenProperties DEF EnquiryRow, DeliveryTypes
  <2>3. \E q \in EnquiryRow :
          /\ enquiries' = [enquiries EXCEPT ![i] = q]
          /\ q.live = enquiries[i].live /\ q.same = enquiries[i].same /\ q.of = enquiries[i].of
          /\ q.st # "asked"
          /\ q.st = "served" => /\ endpoint[q.of].st = "up" /\ q.rows = Len(deliveries[q.of])
    <3>1. CASE /\ endpoint[enquiries[i].of].st = "up"
               /\ enquiries' = [enquiries EXCEPT ![i].st = "served",
                                                ![i].rows = Len(deliveries[enquiries[i].of])]
      <4> DEFINE q == [enquiries[i] EXCEPT !.st = "served", !.rows = Len(deliveries[enquiries[i].of])]
      <4>1. /\ q \in EnquiryRow /\ q.live = enquiries[i].live /\ q.same = enquiries[i].same
            /\ q.of = enquiries[i].of /\ q.st = "served" /\ q.rows = Len(deliveries[enquiries[i].of])
        BY <1>0, <2>2 DEF EnquiryRow
      <4>2. enquiries' = [enquiries EXCEPT ![i] = q]
        BY <3>1
      <4> QED BY <3>1, <4>1, <4>2
    <3>2. CASE enquiries' = [enquiries EXCEPT ![i].st = "failed"]
      <4> DEFINE q == [enquiries[i] EXCEPT !.st = "failed"]
      <4>1. /\ q \in EnquiryRow /\ q.live = enquiries[i].live /\ q.same = enquiries[i].same
            /\ q.of = enquiries[i].of /\ q.st = "failed"
        BY <1>0, <2>2 DEF EnquiryRow
      <4>2. enquiries' = [enquiries EXCEPT ![i] = q]
        BY <3>2
      <4> QED BY <4>1, <4>2
    <3> QED BY <2>1, <3>1, <3>2
  <2>4. PICK q \in EnquiryRow :
          /\ enquiries' = [enquiries EXCEPT ![i] = q]
          /\ q.live = enquiries[i].live /\ q.same = enquiries[i].same /\ q.of = enquiries[i].of
          /\ q.st # "asked"
          /\ q.st = "served" => /\ endpoint[q.of].st = "up" /\ q.rows = Len(deliveries[q.of])
    BY <2>3
  <2>5. /\ enquiries' \in Seq(EnquiryRow) /\ DOMAIN enquiries' = DOMAIN enquiries
        /\ \A j \in DOMAIN enquiries : enquiries'[j] = IF j = i THEN q ELSE enquiries[j]
    BY <1>0, <2>4, ExceptSeq DEF DialogTypes
  <2>6. DialogTypes' /\ DialogHoldsItsKey'
    BY <2>1, <2>5 DEF DialogTypes, DialogHoldsItsKey
  <2>7. q.live => ForTheDialog(q)
    BY <2>4 DEF LiveIsTheDialogs, ForTheDialog, DialogHoldsItsKey
  <2>8. LiveIsTheDialogs'
    BY <2>1, <2>5, <2>7 DEF LiveIsTheDialogs, ForTheDialog
  <2>9. WaitsOrHasAnswer'
    BY <2>1, <2>4, <2>5 DEF WaitsOrHasAnswer, AnswerIsTheDialogs
  <2> QED BY <2>6, <2>8, <2>9
<1>5. ASSUME NEW i \in DOMAIN enquiries, ArriveDeliveries(i), UNCHANGED deliveryVars PROVE DialogIInv'
  <2> DEFINE q == enquiries[i]
  <2>1. /\ q.st # "asked" /\ enquiries' = RemoveAt(enquiries, i)
        /\ entries' = IF ~MayStore(q) THEN entries
                      ELSE [of |-> q.of, same |-> TRUE, rows |-> q.rows,
                            st |-> IF q.st = "served" THEN "data" ELSE "error"]
        /\ UNCHANGED <<dialogOf, activeKey, atOpen, endpoint, deliveries>>
    BY <1>5 DEF ArriveDeliveries, deliveryVars
  <2>2. /\ enquiries' \in Seq(EnquiryRow)
        /\ \A j \in DOMAIN enquiries' : \E k \in DOMAIN enquiries : k # i /\ enquiries'[j] = enquiries[k]
        /\ \A k \in DOMAIN enquiries : k # i => \E j \in DOMAIN enquiries' : enquiries'[j] = enquiries[k]
    BY <2>1, RemoveAtKeeps DEF DialogTypes
  <2>3. q \in EnquiryRow
    BY <1>0
  <2>4. [of |-> q.of, same |-> TRUE, rows |-> q.rows, st |-> IF q.st = "served" THEN "data" ELSE "error"] \in Entries
    BY <2>3 DEF EnquiryRow, Entries
  <2>5. DialogTypes' /\ DialogHoldsItsKey'
    BY <2>1, <2>2, <2>4 DEF DialogTypes, DialogHoldsItsKey
  <2>6. LiveIsTheDialogs'
    BY <2>1, <2>2 DEF LiveIsTheDialogs, ForTheDialog
  <2>7. WaitsOrHasAnswer'
    <3> SUFFICES ASSUME dialogOf # NoHook
                 PROVE  (\E j \in DOMAIN enquiries' : enquiries'[j].live) \/ AnswerIsTheDialogs'
      BY <2>1 DEF WaitsOrHasAnswer
    <3>1. CASE q.live
      <4>1. ForTheDialog(q) /\ MayStore(q)
        BY <3>1 DEF LiveIsTheDialogs, ForTheDialog, DialogHoldsItsKey, MayStore
      <4>2. entries' = [of |-> q.of, same |-> TRUE, rows |-> q.rows,
                        st |-> IF q.st = "served" THEN "data" ELSE "error"]
        BY <2>1, <4>1
      <4>3. AnswerIsTheDialogs'
        BY <2>1, <4>1, <4>2 DEF ForTheDialog, AnswerIsTheDialogs
      <4> QED BY <4>3
    <3>2. CASE ~q.live
      <4>1. entries' = entries
        BY <2>1, <3>2 DEF MayStore
      <4>2. (\E k \in DOMAIN enquiries : k # i /\ enquiries[k].live) \/ AnswerIsTheDialogs
        BY <3>2 DEF WaitsOrHasAnswer
      <4> QED BY <2>1, <2>2, <4>1, <4>2 DEF AnswerIsTheDialogs
    <3> QED BY <3>1, <3>2
  <2> QED BY <2>5, <2>6, <2>7
<1>6. ASSUME RetryDeliveries, UNCHANGED deliveryVars PROVE DialogIInv'
  <2> DEFINE older == [i \in DOMAIN enquiries |-> [Cancelled(enquiries)[i] EXCEPT !.same = FALSE]]
  <2>1. /\ dialogOf # NoHook /\ enquiries' = Append(older, Enquiry(dialogOf))
        /\ entries' = [entries EXCEPT !.same = FALSE]
        /\ UNCHANGED <<dialogOf, activeKey, atOpen, endpoint, deliveries>>
    BY <1>6 DEF RetryDeliveries, deliveryVars
  <2>2. older \in Seq(EnquiryRow) /\ \A i \in DOMAIN older : ~older[i].live
    <3>1. /\ Cancelled(enquiries) \in Seq(EnquiryRow) /\ DOMAIN Cancelled(enquiries) = DOMAIN enquiries
          /\ \A i \in DOMAIN enquiries : ~Cancelled(enquiries)[i].live
      BY CancelledIsNotLive DEF DialogTypes, Cancelled
    <3>2. \A i \in DOMAIN enquiries : Cancelled(enquiries)[i] \in EnquiryRow
      BY <3>1, <1>0, ElementOfSeq, LenProperties
    <3>3. \A i \in DOMAIN enquiries : /\ [Cancelled(enquiries)[i] EXCEPT !.same = FALSE] \in EnquiryRow
                                      /\ ~[Cancelled(enquiries)[i] EXCEPT !.same = FALSE].live
      BY <3>1, <3>2 DEF EnquiryRow
    <3> DEFINE c(i) == [Cancelled(enquiries)[i] EXCEPT !.same = FALSE]
    <3>4. [i \in 1..Len(enquiries) |-> c(i)] \in Seq(EnquiryRow)
      <4> HIDE DEF c
      <4>1. [i \in 1..Len(enquiries) |-> c(i)] \in [1..Len(enquiries) -> EnquiryRow]
        BY <1>0, <3>3 DEF c
      <4> QED BY <4>1, <1>0, SeqDef
    <3> QED BY <1>0, <3>3, <3>4
  <2> HIDE DEF older
  <2>3. dialogOf \in Hooks
    BY <2>1 DEF DialogTypes
  <2>4. /\ enquiries' \in Seq(EnquiryRow)
        /\ \A i \in DOMAIN enquiries' : enquiries'[i].live => enquiries'[i] = Enquiry(dialogOf)
        /\ \E i \in DOMAIN enquiries' : enquiries'[i].live
    BY <2>1, <2>2, <2>3, OneLiveEnquiry
  <2>5. Enquiry(dialogOf).of = dialogOf /\ Enquiry(dialogOf).same /\ Enquiry(dialogOf).st = "asked"
    BY DEF Enquiry
  <2>6. entries' \in Entries
    BY <2>1 DEF DialogTypes, Entries
  <2>7. DialogTypes' /\ DialogHoldsItsKey'
    BY <2>1, <2>4, <2>6 DEF DialogTypes, DialogHoldsItsKey
  <2>8. LiveIsTheDialogs'
    BY <2>1, <2>4, <2>5 DEF LiveIsTheDialogs, ForTheDialog
  <2>9. WaitsOrHasAnswer'
    BY <2>4 DEF WaitsOrHasAnswer
  <2> QED BY <2>7, <2>8, <2>9
<1> QED
  <2>1. CASE UNCHANGED webhookVars
    BY <1>1, <2>1 DEF webhookVars
  <2>2. CASE DialogNext /\ UNCHANGED deliveryVars
    BY <1>2, <1>3, <1>4, <1>5, <1>6, <2>2 DEF DialogNext
  <2> QED BY <1>1, <2>1, <2>2 DEF WebhooksNext

LEMMA DialogIInvSuffices == DialogIInv => DialogIsCurrent
  BY DEF DialogIInv, WaitsOrHasAnswer, AnswerIsTheDialogs, DialogIsCurrent, DialogScreen

-----------------------------------------------------------------------------
(* All the screens.                                                        *)

ScreensIInv ==
  /\ ListIInv /\ ControlsIInv /\ ThreadIInv /\ InboxIInv /\ SettingsIInv
  /\ FeedIInv /\ MetricsIInv /\ BoardIInv /\ AuditIInv /\ ResetIInv /\ DeliveryIInv /\ DialogIInv

\* The controls and the thread of a ticket leave each other alone.
LEMMA PaneIsTwo ==
  /\ ControlsNext => UNCHANGED threadVars
  /\ ThreadNext => UNCHANGED controlVars
<1>1. ControlsNext => UNCHANGED threadVars
  BY DEF ControlsNext, Escalate, Update, DeleteTicket, Elsewhere, ServeUp, FinishUp
<1>2. ThreadNext => UNCHANGED controlVars
  BY DEF ThreadNext, ServeLoad, ArriveLoad, RetryLoad, Write, Post, ServePost, FinishPost
<1> QED BY <1>1, <1>2

\* A step of Screens is, for each screen, a step of it or none.
LEMMA StepsAreLocal ==
  ASSUME [Next]_vars
  PROVE  /\ [ListNext]_listVars /\ [ControlsNext]_controlVars /\ [ThreadNext]_threadVars
         /\ [InboxNext]_inboxVars /\ [SettingsNext]_settingsVars /\ [FeedNext]_feedVars
         /\ [MetricsNext]_metricsVars /\ [BoardNext]_boardVars
         /\ [AuditNext]_auditVars /\ [ResetNext]_resetVars /\ [WebhooksNext]_webhookVars
BY PaneIsTwo DEF Next, vars

LEMMA ScreensInitInv == Init => ScreensIInv
<1> SUFFICES ASSUME Init PROVE ScreensIInv
  OBVIOUS
<1>1. /\ ListInit /\ ControlsInit /\ ThreadInit /\ InboxInit /\ SettingsInit /\ FeedInit
      /\ MetricsInit /\ BoardInit /\ AuditInit /\ ResetInit /\ DeliveryInit /\ DialogInit
  BY DEF Init
<1>2. ListIInv /\ ControlsIInv /\ ThreadIInv
  BY <1>1, ListInitInv, ControlsInitInv, ThreadInitInv, TicketListAssumption, TicketPaneAssumption
<1>3. InboxIInv /\ SettingsIInv /\ FeedIInv
  BY <1>1, InboxInitInv, SettingsInitInv, FeedInitInv, FeedAssumption
<1>4. AuditIInv /\ ResetIInv
  BY <1>1, AuditInitInv, ResetInitInv, AuditAssumption
<1>5. DeliveryIInv /\ DialogIInv
  BY <1>1, DeliveryInitInv, DialogInitInv, WebhookAssumption, DialogAssumption
<1>6. MetricsIInv /\ BoardIInv
  BY <1>1, MetricsInitInv, BoardInitInv, BoardAssumption
<1> QED BY <1>2, <1>3, <1>4, <1>5, <1>6 DEF ScreensIInv

LEMMA ScreensStepInv == ScreensIInv /\ [Next]_vars => ScreensIInv'
<1> SUFFICES ASSUME ScreensIInv, [Next]_vars PROVE ScreensIInv'
  OBVIOUS
<1>1. /\ ListIInv /\ ControlsIInv /\ ThreadIInv /\ InboxIInv /\ SettingsIInv
      /\ FeedIInv /\ MetricsIInv /\ BoardIInv /\ AuditIInv /\ ResetIInv /\ DeliveryIInv /\ DialogIInv
  BY DEF ScreensIInv
<1>2. /\ [ListNext]_listVars /\ [ControlsNext]_controlVars /\ [ThreadNext]_threadVars
      /\ [InboxNext]_inboxVars /\ [SettingsNext]_settingsVars /\ [FeedNext]_feedVars
      /\ [MetricsNext]_metricsVars /\ [BoardNext]_boardVars
      /\ [AuditNext]_auditVars /\ [ResetNext]_resetVars /\ [WebhooksNext]_webhookVars
  BY StepsAreLocal
<1>3. ListIInv' /\ ControlsIInv' /\ ThreadIInv'
  BY <1>1, <1>2, ListStepInv, ControlsStepInv, ThreadStepInv, TicketListAssumption,
     TicketPaneAssumption
<1>4. InboxIInv' /\ SettingsIInv' /\ FeedIInv'
  BY <1>1, <1>2, InboxStepInv, SettingsStepInv, FeedStepInv, FeedAssumption
<1>5. AuditIInv' /\ ResetIInv'
  BY <1>1, <1>2, AuditStepInv, ResetStepInv, AuditAssumption
<1>6. [DeliveryNext]_deliveryVars
  BY <1>2 DEF WebhooksNext, webhookVars
<1>7. DeliveryTypes
  BY <1>1 DEF DeliveryIInv
<1>8. DeliveryIInv' /\ DialogIInv'
  BY <1>1, <1>2, <1>6, <1>7, DeliveryStepInv, DialogStepInv, WebhookAssumption, DialogAssumption
<1>9. MetricsIInv' /\ BoardIInv'
  BY <1>1, <1>2, MetricsStepInv, BoardStepInv, BoardAssumption
<1> QED BY <1>3, <1>4, <1>5, <1>8, <1>9 DEF ScreensIInv

\* The inductive invariant of all the screens.
LEMMA ScreensAreKept == Spec => []ScreensIInv
BY ScreensInitInv, ScreensStepInv, PTL DEF Spec

\* The variables of the settings forms keep their types.
THEOREM SettingsTypes == Spec => []SettingsTypeOK
<1>1. ScreensIInv => SettingsTypeOK
  BY SettingsIInvSuffices DEF ScreensIInv
<1> QED BY <1>1, ScreensAreKept, PTL

\* Whatever filters and organizations are chosen, tickets opened, raised by the check
\* of the very answer, changed and deleted, and pages asked for: the rows of the list
\* of escalations pass its filter, or are one above it, and those of the first page are
\* of the organization.  Unless a cursor was used for another list than its own, the
\* further pages are of one organization and no row is there twice; where a ticket has
\* left a list whose first page was read again under further ones, the first may
\* repeat one of them.
THEOREM ListsAreSound == Spec => []ListIsSound
<1>1. ScreensIInv => ListIsSound
  BY ListIInvSuffices, TicketListAssumption DEF ScreensIInv
<1> QED BY <1>1, ScreensAreKept, PTL

\* However changes of a ticket are answered, refused, or made and their answers lost,
\* and whatever colleagues, the AI and the SLA do to it: one at a time, each answer
\* brings the screen up to the ticket there is, until that changes again unanswered.
THEOREM ScreensShowTheTicket == Spec => []ScreenIsTheTicket
<1>1. ScreensIInv => ScreenIsTheTicket
  BY ControlsIInvSuffices DEF ScreensIInv
<1> QED BY <1>1, ScreensAreKept, PTL

\* However many replies are under way together, once they have all been answered or
\* have failed, the thread of the inbox shows each as often as it was posted, less the
\* times it was stored and its answer lost.
THEOREM ThreadsAreWhole == Spec => []InboxThreadIsWhole
<1>1. ScreensIInv => InboxThreadIsWhole
  BY ThreadIInvSuffices DEF ScreensIInv
<1> QED BY <1>1, ScreensAreKept, PTL

\* No list that was read before a change of this page's own and arrives after it
\* takes the change back.
THEOREM ChangesStay == Spec => []OwnChangesStay
<1>1. ScreensIInv => OwnChangesStay
  BY InboxIInvSuffices DEF ScreensIInv
<1> QED BY <1>1, ScreensAreKept, PTL

\* No sequence of switches, edits, saves and late or failed answers puts the
\* settings of one organization, read or typed, into another's, but the two that
\* strayed names.
THEOREM StayHome == Spec => []SettingsStayHome
<1>1. ScreensIInv => SettingsStayHome
  BY SettingsIInvSuffices DEF ScreensIInv
<1> QED BY <1>1, ScreensAreKept, PTL

\* For any cap and any number of tabs of which one at a time is open, the device
\* remembers the latest notifications that were marked as read.
THEOREM MarksAreKept == Spec => []LatestMarksAreKept
<1>1. ScreensIInv => LatestMarksAreKept
  BY DEF ScreensIInv, FeedIInv
<1> QED BY <1>1, ScreensAreKept, PTL

\* The audit log, once it is there, is its organization's, and the deliveries in the
\* open dialog are its endpoint's, whatever was asked before and answers late.
THEOREM LogsStayTheirOwn == Spec => []LogsAreTheirOwn
<1>1. ScreensIInv => LogsAreTheirOwn
  BY AuditIInvSuffices, DialogIInvSuffices, AuditAssumption DEF ScreensIInv, LogsAreTheirOwn
<1> QED BY <1>1, ScreensAreKept, PTL

\* However often the dialog is closed and opened again, by whichever event and timer it
\* is shut and cleared, and whatever answers come late but a token for an address that
\* has been replaced: a password is set only for the address the viewer sees.
THEOREM PasswordsGoHome == Spec => []PasswordsGoToTheAddress
<1>1. ScreensIInv => PasswordsGoToTheAddress
  BY ResetIInvSuffices DEF ScreensIInv
<1> QED BY <1>1, ScreensAreKept, PTL

\* However dispatches, retries and changes by the owner interleave, an endpoint that
\* should have had an event was tried.
THEOREM EndpointsAreTried == Spec => []DeliveriesAreTried
<1>1. ScreensIInv => DeliveriesAreTried
  BY DeliveryIInvSuffices, WebhookAssumption DEF ScreensIInv
<1> QED BY <1>1, ScreensAreKept, PTL

\* Wherever the viewer is, at whatever hour and for any length of the window: unless
\* the clocks changed in it, each conversation and ticket is counted on its own local
\* day and on no other, and the last bucket is today's.
THEOREM ChartsCountDays ==
  Spec => [](fresh /\ Steady =>
    \A k \in 1..Days :
      /\ chart[k].label = LocalDay(now) - (Days - k)
      /\ chart[k].touched = Quantify(Present, LAMBDA x : LocalDay(items[x].changed) = chart[k].label)
      /\ chart[k].created = Quantify(Present, LAMBDA x : LocalDay(items[x].opened) = chart[k].label)
      /\ chart[k].resolved =
           Quantify(Present, LAMBDA x : items[x].closed /\ LocalDay(items[x].changed) = chart[k].label))
<1> DEFINE Day(k) ==
      /\ chart[k].label = LocalDay(now) - (Days - k)
      /\ chart[k].touched = Quantify(Present, LAMBDA x : LocalDay(items[x].changed) = chart[k].label)
      /\ chart[k].created = Quantify(Present, LAMBDA x : LocalDay(items[x].opened) = chart[k].label)
      /\ chart[k].resolved =
           Quantify(Present, LAMBDA x : items[x].closed /\ LocalDay(items[x].changed) = chart[k].label)
<1>1. ScreensIInv => (fresh /\ Steady => \A k \in 1..Days : Day(k))
  <2> SUFFICES ASSUME ScreensIInv, fresh, Steady, NEW k \in 1..Days PROVE Day(k)
    OBVIOUS
  <2>1. /\ chart[k].label = ShownDay(k)
        /\ chart[k].touched = Quantify(Present, LAMBDA x : LocalDay(items[x].changed) = ShownDay(k))
        /\ chart[k].created = Quantify(Present, LAMBDA x : LocalDay(items[x].opened) = ShownDay(k))
        /\ chart[k].resolved = Quantify(Present, LAMBDA x : items[x].closed /\ LocalDay(items[x].changed) = ShownDay(k))
    BY BucketCountsDay, MetricsAssumption DEF ScreensIInv
  <2> QED BY <2>1 DEF ShownDay, Quantify
<1> QED BY <1>1, ScreensAreKept, PTL

\* For any titles, subjects and order in which the lists are read: while nothing
\* moves between the first and the last, the shares of conversations that never
\* became a ticket and of those that did are true, and so by specialist.
THEOREM SharesAreTheOrganizations == Spec => [](Whole /\ ~moved => SharesAreTrue)
<1>1. ScreensIInv => (Whole /\ ~moved => SharesAreTrue)
  BY SharesOfOneMoment DEF ScreensIInv
<1> QED BY <1>1, ScreensAreKept, PTL

-----------------------------------------------------------------------------
(* The types of the screens, beyond what their invariants needed.          *)

LEMMA PendingStepInv ==
  ASSUME pending \in Fields \cup {None}, [ControlsNext]_controlVars
  PROVE  pending' \in Fields \cup {None}
<1>1. CASE UNCHANGED controlVars
  BY <1>1 DEF controlVars
<1>2. ASSUME NEW f \in Fields, NEW v \in Values, Update(f, v) PROVE pending' \in Fields \cup {None}
  BY <1>2 DEF Update
<1>3. ASSUME NEW u \in ups, FinishUp(u) PROVE pending' \in Fields \cup {None}
  BY <1>3 DEF FinishUp
<1>4. CASE DeleteTicket \/ Elsewhere \/ (\E v \in Values : Escalate(v)) \/ \E u \in ups : ServeUp(u)
  BY <1>4 DEF DeleteTicket, Elsewhere, Escalate, ServeUp
<1> QED BY <1>1, <1>2, <1>3, <1>4 DEF ControlsNext

LEMMA MaxIsOne ==
  ASSUME NEW a \in Nat, NEW b \in Nat
  PROVE  Max({a, b}) \in {a, b}
<1>1. CASE a <= b
  BY <1>1, MaxOfTwo
<1>2. CASE ~(a <= b)
  <2>1. {a, b} = {b, a} /\ b <= a
    BY <1>2
  <2> QED BY <2>1, MaxOfTwo
<1> QED BY <1>1, <1>2

LEMMA AskedBothIsBounded ==
  ASSUME InboxAssumption
  PROVE  /\ None0 \in Versions
         /\ AskedBoth \in [Lists -> [st: {"none", "asked", "ok", "failed", "error"},
                                     convs: SUBSET Convs, vers: Versions]]
<1>1. None0 \in Versions
  BY DEF InboxAssumption, None0, Versions
<1> QED BY <1>1 DEF AskedBoth

LEMMA InboxTypesInit ==
  ASSUME InboxAssumption, InboxInit PROVE InboxTypeOK
<1>1. changes \in 0..MaxChanges /\ version \in Versions
  BY DEF InboxAssumption, InboxInit, Versions
<1> QED BY <1>1, AskedBothIsBounded DEF InboxInit, InboxTypeOK

LEMMA InboxTypesStep ==
  ASSUME InboxAssumption, InboxTypeOK, [InboxNext]_inboxVars
  PROVE  InboxTypeOK'
<1> DEFINE Fetch == [st: {"none", "asked", "ok", "failed", "error"}, convs: SUBSET Convs, vers: Versions]
<1>0. None0 \in Versions /\ AskedBoth \in [Lists -> Fetch]
  BY AskedBothIsBounded
<1>t. reads \in [Lists -> Fetch]
  BY DEF InboxTypeOK
<1>1. ASSUME NEW l \in Lists, ServeRead(l) PROVE InboxTypeOK'
  <2>1. reads[l] \in Fetch /\ exists \in SUBSET Convs /\ version \in Versions
    BY DEF InboxTypeOK
  <2>2. [st |-> "ok", convs |-> exists, vers |-> version] \in Fetch
    BY <2>1
  <2>3. [reads[l] EXCEPT !.st = "failed"] \in Fetch
    BY <2>1
  <2>4. reads' \in [Lists -> Fetch]
    BY <1>1, <1>t, <2>2, <2>3 DEF ServeRead
  <2> QED BY <1>1, <2>4 DEF ServeRead, InboxTypeOK
<1>2. ASSUME NEW l \in Lists, ArriveRead(l) PROVE InboxTypeOK'
  <2>1. reads[l] \in Fetch
    BY <1>t
  <2>2. [st |-> IF reads[l].st = "ok" THEN "none" ELSE "error", convs |-> {}, vers |-> None0] \in Fetch
    BY <1>0
  <2>3. reads' \in [Lists -> Fetch]
    BY <1>2, <1>t, <2>2 DEF ArriveRead
  <2>4. rows' \subseteq Convs /\ ticketsOf' \in Versions
    BY <1>2, <2>1 DEF ArriveRead, InboxTypeOK
  <2> QED BY <1>2, <2>3, <2>4 DEF ArriveRead, InboxTypeOK
<1>3. CASE RetryReads
  BY <1>0, <1>3 DEF RetryReads, InboxTypeOK
<1>4. ASSUME NEW c \in Convs \cup {Nobody}, Select(c) PROVE InboxTypeOK'
  BY <1>4 DEF Select, InboxTypeOK
<1>5. ASSUME NEW op \in {"change", "remove"}, Start(op) PROVE InboxTypeOK'
  <2> DEFINE call == [op |-> op, of |-> selected, st |-> "asked", ver |-> 0]
  <2>1. call \in Call
    BY <1>5 DEF Start, InboxTypeOK, InboxAssumption, Call
  <2>2. calls' = calls \cup {call}
    BY <1>5 DEF Start
  <2>3. tangled' \in BOOLEAN
    BY <1>5, Zenon DEF Start, InboxTypeOK
  <2> HIDE DEF call
  <2> QED BY <1>5, <2>1, <2>2, <2>3 DEF Start, InboxTypeOK
<1>6. ASSUME NEW c \in Convs, Colleague(c) PROVE InboxTypeOK'
  <2>1. changes' \in 0..MaxChanges /\ version' \in Versions
    BY <1>6 DEF Colleague, InboxTypeOK, InboxAssumption, Versions
  <2> QED BY <1>6, <2>1 DEF Colleague, InboxTypeOK
<1>7. ASSUME NEW call \in calls, ServeCall(call) PROVE InboxTypeOK'
  <2>1. call \in Call /\ call.of \in Convs /\ changes \in 0..MaxChanges
    BY DEF InboxTypeOK, Call
  <2>2. [call EXCEPT !.st = "ok"] \in Call /\ [call EXCEPT !.st = "failed"] \in Call
    BY <2>1 DEF Call
  <2>3. changes < MaxChanges => changes + 1 \in 0..MaxChanges
    BY <2>1 DEF InboxAssumption
  <2>4. changes < MaxChanges => [call EXCEPT !.st = "ok", !.ver = changes + 1] \in Call
    BY <2>1, <2>3 DEF Call
  <2>5. calls' \subseteq Call
    BY <1>7, <2>2, <2>4 DEF ServeCall, InboxTypeOK
  <2>6. changes' \in 0..MaxChanges /\ exists' \subseteq Convs
    BY <1>7, <2>1, <2>3 DEF ServeCall, InboxTypeOK
  <2>7. version' \in Versions
    BY <1>7, <2>1, <2>3 DEF ServeCall, InboxTypeOK, InboxAssumption, Versions
  <2> QED BY <1>7, <2>5, <2>6, <2>7 DEF ServeCall, InboxTypeOK
<1>8. ASSUME NEW call \in calls, FinishCall(call) PROVE InboxTypeOK'
  <2>1. call.of \in Convs /\ call.ver \in 0..MaxChanges /\ mine[call.of] \in 0..MaxChanges
    BY DEF InboxTypeOK, Call, Versions
  <2>2. Max({mine[call.of], call.ver}) \in 0..MaxChanges
    <3>1. mine[call.of] \in Nat /\ call.ver \in Nat
      BY <2>1
    <3> QED BY <2>1, <3>1, MaxIsOne
  <2>3. overrides' \in Versions
    BY <1>8, <2>1 DEF FinishCall, InboxTypeOK, Versions
  <2>4. mine' \in Versions
    BY <1>8, <2>1, <2>2 DEF FinishCall, InboxTypeOK, Versions
  <2>5. reads' \in [Lists -> Fetch] /\ selected' \in Convs \cup {Nobody}
    BY <1>0, <1>8, <1>t DEF FinishCall, InboxTypeOK
  <2>6. calls' \subseteq Call
    BY <1>8 DEF FinishCall, InboxTypeOK
  <2> QED BY <1>8, <2>3, <2>4, <2>5, <2>6 DEF FinishCall, InboxTypeOK
<1>9. CASE UNCHANGED inboxVars
  BY <1>9 DEF inboxVars, InboxTypeOK
<1> QED BY <1>1, <1>2, <1>3, <1>4, <1>5, <1>6, <1>7, <1>8, <1>9
        DEF InboxNext, ChangeTicket, RemoveConversation

\* What a tab of the notifications page has is what it read, or nothing.
TabsAreRead ==
  /\ desk \in Desk0
  /\ \A i \in Tabs : tabs[i].on \in BOOLEAN /\ tabs[i].list \in (IF tabs[i].on THEN Desk0 ELSE {<<>>})

LEMMA TabsStepInv ==
  ASSUME FeedTypes, TabsAreRead, [FeedNext]_feedVars
  PROVE  TabsAreRead'
<1> USE DEF TabsAreRead
<1>1. ASSUME NEW t \in Watched, Develop(t) PROVE TabsAreRead'
  <2>1. desk[t] \in [byAi: BOOLEAN, open: BOOLEAN, late: BOOLEAN, mine: BOOLEAN]
    BY DEF Desk0
  <2>2. PICK d \in [byAi: BOOLEAN, open: BOOLEAN, late: BOOLEAN, mine: BOOLEAN] :
          desk' = [desk EXCEPT ![t] = d]
    <3>1. /\ [desk[t] EXCEPT !.open = ~desk[t].open] \in [byAi: BOOLEAN, open: BOOLEAN, late: BOOLEAN, mine: BOOLEAN]
          /\ [desk[t] EXCEPT !.mine = TRUE] \in [byAi: BOOLEAN, open: BOOLEAN, late: BOOLEAN, mine: BOOLEAN]
          /\ [desk[t] EXCEPT !.late = TRUE] \in [byAi: BOOLEAN, open: BOOLEAN, late: BOOLEAN, mine: BOOLEAN]
      BY <2>1
    <3> QED BY <1>1, <3>1 DEF Develop
  <2>3. desk' \in Desk0 /\ tabs' = tabs
    BY <1>1, <2>2 DEF Develop, Desk0
  <2> QED BY <2>3
<1>2. ASSUME NEW i \in Tabs, Enter(i) PROVE TabsAreRead'
  <2>1. tabs' = [tabs EXCEPT ![i] = [on |-> TRUE, list |-> desk, read |-> store]] /\ desk' = desk
    BY <1>2 DEF Enter
  <2>2. \A j \in Tabs : tabs'[j] = IF j = i THEN [on |-> TRUE, list |-> desk, read |-> store] ELSE tabs[j]
    BY <2>1 DEF FeedTypes
  <2>3. tabs'[i].on = TRUE /\ tabs'[i].list \in Desk0
    BY <2>2
  <2>4. \A j \in Tabs \ {i} : tabs'[j] = tabs[j]
    BY <2>2
  <2> HIDE DEF TabsAreRead
  <2>5. desk' \in Desk0
    BY <2>1 DEF TabsAreRead
  <2>6. ASSUME NEW j \in Tabs
        PROVE  tabs'[j].on \in BOOLEAN /\ tabs'[j].list \in (IF tabs'[j].on THEN Desk0 ELSE {<<>>})
    <3>1. CASE j = i
      BY <2>3, <3>1
    <3>2. CASE j # i
      BY <2>4, <3>2 DEF TabsAreRead
    <3> QED BY <3>1, <3>2
  <2> QED BY <2>5, <2>6 DEF TabsAreRead
<1>3. ASSUME NEW i \in Tabs, Leave(i) PROVE TabsAreRead'
  <2>1. tabs' = [tabs EXCEPT ![i] = Closed] /\ desk' = desk
    BY <1>3 DEF Leave
  <2>2. \A j \in Tabs : tabs'[j] = IF j = i THEN Closed ELSE tabs[j]
    BY <2>1 DEF FeedTypes
  <2>3. tabs'[i].on = FALSE /\ tabs'[i].list = <<>>
    BY <2>2 DEF Closed
  <2>4. \A j \in Tabs \ {i} : tabs'[j] = tabs[j]
    BY <2>2
  <2> HIDE DEF TabsAreRead
  <2>5. ASSUME NEW j \in Tabs
        PROVE  tabs'[j].on \in BOOLEAN /\ tabs'[j].list \in (IF tabs'[j].on THEN Desk0 ELSE {<<>>})
    <3>1. CASE j = i
      BY <2>3, <3>1
    <3>2. CASE j # i
      BY <2>4, <3>2 DEF TabsAreRead
    <3> QED BY <3>1, <3>2
  <2> QED BY <2>1, <2>5 DEF TabsAreRead
<1>4. ASSUME NEW i \in Tabs, NEW ids \in Clicks(i), MarkRead(i, ids) PROVE TabsAreRead'
  <2>1. PICK next : tabs' = [tabs EXCEPT ![i].read = next]
    BY <1>4 DEF MarkRead
  <2>2. desk' = desk
    BY <1>4 DEF MarkRead
  <2>3. \A j \in Tabs : tabs'[j].on = tabs[j].on /\ tabs'[j].list = tabs[j].list
    <3>1. tabs[i] = [on |-> tabs[i].on, list |-> tabs[i].list, read |-> tabs[i].read]
      BY DEF FeedTypes
    <3>2. \A j \in Tabs : tabs'[j] = IF j = i THEN [tabs[i] EXCEPT !.read = next] ELSE tabs[j]
      BY <2>1 DEF FeedTypes
    <3>3. [tabs[i] EXCEPT !.read = next].on = tabs[i].on /\ [tabs[i] EXCEPT !.read = next].list = tabs[i].list
      BY <3>1
    <3> QED BY <3>2, <3>3
  <2> QED BY <2>2, <2>3
<1>5. CASE UNCHANGED feedVars
  BY <1>5 DEF feedVars
<1> QED BY <1>1, <1>2, <1>3, <1>4, <1>5 DEF FeedNext

\* The charts, once drawn, have a number for each day.
ChartIsNumbers ==
  /\ fresh \in BOOLEAN
  /\ chart \in {<<>>} \cup [1..Days -> [label: Int, touched: Nat, created: Nat, resolved: Nat]]

LEMMA BucketsAreNumbers ==
  ASSUME MetricsAssumption, IsFiniteSet(Items), MetricsTypes
  PROVE  Buckets \in [1..Days -> [label: Int, touched: Nat, created: Nat, resolved: Nat]]
<1> SUFFICES ASSUME NEW k \in 1..Days
             PROVE  /\ LocalDay(DayStarts[k]) \in Int
                    /\ Quantify(Present, LAMBDA x : InBucket(k, items[x].changed)) \in Nat
                    /\ Quantify(Present, LAMBDA x : InBucket(k, items[x].opened)) \in Nat
                    /\ Quantify(Present, LAMBDA x : items[x].closed /\ InBucket(k, items[x].changed)) \in Nat
  BY DEF Buckets
<1>0. zone.old \in Int /\ zone.new \in Int /\ now \in Int /\ DayLen \in Nat \ {0} /\ Days \in Int
  <2>1. DayLen \in Nat \ {0} /\ Days \in Nat /\ Horizon \in Nat /\ \A z \in Offsets : z \in Int
    BY DEF MetricsAssumption
  <2>2. zone.old \in Offsets /\ zone.new \in Offsets /\ now \in 0..Horizon
    BY DEF MetricsTypes, Instants
  <2>3. zone.old \in Int /\ zone.new \in Int
    BY <2>1, <2>2, Zenon
  <2>4. now \in Int /\ Days \in Int
    BY <2>1, <2>2
  <2> QED BY <2>1, <2>3, <2>4, Zenon
<1>1. ASSUME NEW i \in Int PROVE LocalDay(i) \in Int
  <2>1. i + (IF i < zone.at THEN zone.old ELSE zone.new) \in Int
    BY <1>0
  <2> QED BY <1>0, <2>1, DivIsDay DEF LocalDay
<1>2. DayStarts[k] \in Int
  <2>1. now \in Int /\ zone.old \in Int /\ zone.new \in Int /\ LocalDay(now) \in Int /\ DayLen \in Int /\ Days \in Int
    BY <1>0, <1>1
  <2>2. LocalDay(now) * DayLen \in Int /\ (Days - k) * DayLen \in Int
    BY <2>1
  <2>3. StartOfDay(now) \in Int
    BY <2>1, <2>2 DEF StartOfDay
  <2> QED BY <2>2, <2>3 DEF DayStarts
<1>3. \A S \in SUBSET Present : Cardinality(S) \in Nat
  <2>1. IsFiniteSet(Present)
    BY FS_Subset DEF Present
  <2> QED BY <2>1, FS_Subset, FS_CardinalityType
<1>4. /\ Cardinality({x \in Present : InBucket(k, items[x].changed)}) \in Nat
      /\ Cardinality({x \in Present : InBucket(k, items[x].opened)}) \in Nat
      /\ Cardinality({x \in Present : items[x].closed /\ InBucket(k, items[x].changed)}) \in Nat
  BY <1>3
<1> QED BY <1>1, <1>2, <1>4 DEF Quantify

LEMMA ChartStepInv ==
  ASSUME MetricsAssumption, IsFiniteSet(Items), MetricsTypes, ChartIsNumbers, [MetricsNext]_metricsVars
  PROVE  ChartIsNumbers'
<1>1. CASE Draw
  BY <1>1, BucketsAreNumbers DEF Draw, ChartIsNumbers
<1>2. CASE Pass
  BY <1>2 DEF Pass, ChartIsNumbers
<1>3. ASSUME NEW x \in Items, Happen(x) PROVE ChartIsNumbers'
  BY <1>3 DEF Happen, ChartIsNumbers
<1>4. CASE UNCHANGED metricsVars
  BY <1>4 DEF metricsVars, ChartIsNumbers
<1> QED BY <1>1, <1>2, <1>3, <1>4 DEF MetricsNext

\* Events were asked for of the newest tickets only.
NewestAreAsked == log.waits \cup log.lost \subseteq Newest(log.of)

LEMMA NewestAskedStep ==
  ASSUME AuditIInv, NewestAreAsked, [AuditNext]_auditVars
  PROVE  NewestAreAsked'
<1>1. ASSUME NEW c \in Cases, Record(c) PROVE NewestAreAsked'
  <2>1. log.of \in SUBSET Range(trail) /\ log' = log
    BY <1>1 DEF AuditIInv, AuditTypes, Record
  <2>2. Newest(log.of)' = Newest(log.of)
    <3>1. \A S \in SUBSET Range(trail) : Newest(S)' = Newest(S)
      BY <1>1, RecordKeepsNewest DEF AuditIInv
    <3> QED BY <2>1, <3>1
  <2> QED BY <2>1, <2>2 DEF NewestAreAsked
<1>2. ASSUME NEW S, log' = LoadAuditLog(S), trail' = trail PROVE NewestAreAsked'
  BY <1>2 DEF LoadAuditLog, NewestAreAsked, Newest, First
<1>3. ASSUME UNCHANGED <<trail, log>> PROVE NewestAreAsked'
  BY <1>3 DEF NewestAreAsked, Newest, First
<1>4. ASSUME NEW c \in Cases, ReadEvents(c) PROVE NewestAreAsked'
  <2>1. log = [of |-> log.of, waits |-> log.waits, lost |-> log.lost, rows |-> log.rows]
    BY DEF AuditIInv, AuditTypes
  <2>2. trail' = trail /\ c \in log.waits
    BY <1>4 DEF ReadEvents
  <2>3. log'.of = log.of /\ log'.waits \cup log'.lost \subseteq log.waits \cup log.lost
    BY <1>4, <2>1 DEF ReadEvents
  <2> QED BY <2>2, <2>3 DEF NewestAreAsked, Newest, First
<1>5. CASE OpenAudit
  BY <1>2, <1>5 DEF OpenAudit
<1>6. CASE RetryAudit \/ (\E o \in Teams : SwitchTeam(o)) \/ UNCHANGED auditVars
  BY <1>3, <1>6 DEF RetryAudit, SwitchTeam, auditVars
<1>7. ASSUME NEW l \in Both, ReadLists(l) PROVE NewestAreAsked'
  BY <1>2, <1>3, <1>7 DEF ReadLists
<1> QED BY <1>1, <1>4, <1>5, <1>6, <1>7 DEF AuditNext

\* Each closing has one event, and one timer or two; the dialog can only be closed
\* while it is open.
ClosesAreCounted ==
  /\ closes \in 0..MaxCloses /\ closing \in Nat /\ due \in Nat
  /\ closing + due <= 2 * closes
  /\ open => closes < MaxCloses

LEMMA ClosesStepInv ==
  ASSUME MaxCloses \in Nat, ClosesAreCounted, [ResetNext]_resetVars
  PROVE  ClosesAreCounted'
<1>1. CASE CloseDialog \/ Cancel
  BY <1>1 DEF CloseDialog, Cancel, Shut, ClosesAreCounted
<1>2. CASE CloseEvent
  BY <1>2 DEF CloseEvent, ClosesAreCounted
<1>3. CASE Reset \/ OpenDialog
  BY <1>3 DEF Reset, OpenDialog, ClosesAreCounted
<1>4. ASSUME UNCHANGED <<open, closes, closing, due>> PROVE ClosesAreCounted'
  BY <1>4 DEF ClosesAreCounted
<1>5. CASE \/ SendCode \/ SetPassword \/ ServeSend \/ CompareCode \/ DeleteCode
           \/ ServeSubmit \/ CodeSent \/ CodeVerified \/ PasswordSet
           \/ (\E a \in Address : TypeEmail(a)) \/ (\E a \in Accounts : Lapse(a))
           \/ (\E c \in 0..MaxCodes : VerifyCode(c)) \/ UNCHANGED resetVars
  BY <1>4, <1>5 DEF SendCode, SetPassword, ServeSend, CompareCode, DeleteCode, ServeSubmit,
     CodeSent, CodeVerified, PasswordSet, Answered, TypeEmail, Lapse, VerifyCode, dialog, resetVars
<1> QED BY <1>1, <1>2, <1>3, <1>5 DEF ResetNext

\* A dispatch posts to subscribers only, and is tried again so many times.
DispatchIsBounded ==
  \A e \in Events : /\ dispatch[e].left \in 0..Retries
                    /\ DOMAIN dispatch[e].todo \subseteq Subscribers[e]

LEMMA DispatchBoundsStep ==
  ASSUME WebhookAssumption, DeliveryTypes, DispatchIsBounded, [DeliveryNext]_deliveryVars
  PROVE  DispatchIsBounded'
<1>0. \A e \in Events : dispatch[e] \in Dispatch /\ Subscribers[e] \in SUBSET Hooks
  BY DEF DeliveryTypes, WebhookAssumption
<1>a. ASSUME NEW e \in Events, NEW d, dispatch' = [dispatch EXCEPT ![e] = d],
             d.left \in 0..Retries, DOMAIN d.todo \subseteq Subscribers[e]
      PROVE  DispatchIsBounded'
  <2>1. \A g \in Events : dispatch'[g] = IF g = e THEN d ELSE dispatch[g]
    BY <1>a DEF DeliveryTypes
  <2> QED BY <1>a, <2>1 DEF DispatchIsBounded
<1>b. ASSUME NEW e \in Events, dispatch' = AfterError(e) PROVE DispatchIsBounded'
  <2> DEFINE d == [dispatch[e] EXCEPT !.st = IF dispatch[e].left > 0 THEN "queued" ELSE "lost",
                                      !.left = IF dispatch[e].left > 0 THEN dispatch[e].left - 1 ELSE 0,
                                      !.todo = NoLoaded]
  <2>1. dispatch' = [dispatch EXCEPT ![e] = d]
    BY <1>b DEF AfterError
  <2>2. d.left = (IF dispatch[e].left > 0 THEN dispatch[e].left - 1 ELSE 0) /\ d.todo = NoLoaded
    BY <1>0 DEF Dispatch
  <2>3. dispatch[e].left \in 0..Retries /\ Retries \in Nat
    BY DEF DispatchIsBounded, WebhookAssumption
  <2>4. DOMAIN d.todo \subseteq Subscribers[e]
    BY <2>2, TodosArePartial
  <2> HIDE DEF d
  <2>5. d.left \in 0..Retries
    BY <2>2, <2>3
  <2> QED BY <1>a, <2>1, <2>4, <2>5
<1>1. ASSUME NEW e \in Events, FireEvent(e) PROVE DispatchIsBounded'
  <2>1. PICK left \in {Retries, 0} : dispatch' = [dispatch EXCEPT ![e].st = "queued", ![e].left = left]
    BY <1>1 DEF FireEvent
  <2> DEFINE d == [dispatch[e] EXCEPT !.st = "queued", !.left = left]
  <2>2. d.left = left /\ d.todo = dispatch[e].todo
    BY <1>0 DEF Dispatch
  <2>3. dispatch' = [dispatch EXCEPT ![e] = d]
    BY <2>1
  <2> HIDE DEF d
  <2>4. left \in 0..Retries /\ DOMAIN d.todo \subseteq Subscribers[e]
    BY <2>2 DEF WebhookAssumption, DispatchIsBounded
  <2> QED BY <1>a, <2>2, <2>3, <2>4
<1>2. ASSUME NEW e \in Events, LoadEndpoints(e) PROVE DispatchIsBounded'
  <2> DEFINE todo == [h \in ActiveFor(e) |-> endpoint[h].failures]
             d == [dispatch[e] EXCEPT !.st = IF ActiveFor(e) = {} THEN "done" ELSE "running", !.todo = todo]
  <2>1. dispatch' = [dispatch EXCEPT ![e] = d]
    BY <1>2 DEF LoadEndpoints
  <2>2. d.left = dispatch[e].left /\ d.todo = todo
    BY <1>0 DEF Dispatch
  <2>3. DOMAIN todo \subseteq Subscribers[e]
    BY DEF ActiveFor
  <2> HIDE DEF d, todo
  <2> QED BY <1>a, <2>1, <2>2, <2>3 DEF DispatchIsBounded
<1>3. ASSUME NEW e \in Events, DispatchRaises(e) PROVE DispatchIsBounded'
  BY <1>3, <1>b DEF DispatchRaises
<1>4. ASSUME NEW e \in Events, WorkerDies(e) PROVE DispatchIsBounded'
  <2> DEFINE d == [dispatch[e] EXCEPT !.st = "lost", !.todo = NoLoaded]
  <2>1. dispatch' = [dispatch EXCEPT ![e] = d]
    BY <1>4 DEF WorkerDies
  <2>2. d.left = dispatch[e].left /\ d.todo = NoLoaded
    BY <1>0 DEF Dispatch
  <2>3. DOMAIN d.todo \subseteq Subscribers[e]
    BY <2>2, TodosArePartial
  <2> HIDE DEF d
  <2> QED BY <1>a, <2>1, <2>2, <2>3 DEF DispatchIsBounded
<1>5. ASSUME NEW e \in Events, NEW ok \in BOOLEAN, NEW h \in DOMAIN dispatch[e].todo, PostTo(e, h, ok)
      PROVE  DispatchIsBounded'
  <2>1. CASE endpoint[h].st = "gone"
    BY <1>5, <1>b, <2>1 DEF PostTo
  <2>2. CASE endpoint[h].st # "gone"
    <3> DEFINE rest == DOMAIN dispatch[e].todo \ {h}
               todo == [g \in rest |-> dispatch[e].todo[g]]
               d == [dispatch[e] EXCEPT !.st = IF rest = {} THEN "done" ELSE "running", !.todo = todo]
    <3>1. dispatch' = [dispatch EXCEPT ![e] = d]
      BY <1>5, <2>2 DEF PostTo
    <3>2. d.left = dispatch[e].left /\ d.todo = todo
      BY <1>0 DEF Dispatch
    <3>3. DOMAIN todo \subseteq Subscribers[e]
      BY DEF DispatchIsBounded
    <3> HIDE DEF d, todo
    <3> QED BY <1>a, <3>1, <3>2, <3>3 DEF DispatchIsBounded
  <2> QED BY <2>1, <2>2
<1>6. ASSUME UNCHANGED dispatch PROVE DispatchIsBounded'
  BY <1>6 DEF DispatchIsBounded
<1>7. CASE \/ \E h \in Hooks : RegisterEndpoint(h) \/ RemoveEndpoint(h)
           \/ \E h \in Hooks, on \in BOOLEAN : SetActive(h, on)
           \/ UNCHANGED deliveryVars
  BY <1>6, <1>7 DEF RegisterEndpoint, RemoveEndpoint, SetActive, deliveryVars
<1> QED BY <1>1, <1>2, <1>3, <1>4, <1>5, <1>7 DEF DeliveryNext

-----------------------------------------------------------------------------
RestOfTypes ==
  /\ visit \in Visits /\ pending \in Fields \cup {None} /\ InboxTypeOK /\ TabsAreRead
  /\ ChartIsNumbers /\ NewestAreAsked /\ ClosesAreCounted /\ DispatchIsBounded

LEMMA RestInit == Init => RestOfTypes
<1> SUFFICES ASSUME Init PROVE RestOfTypes
  OBVIOUS
<1>1. /\ visit \in Visits /\ ControlsInit /\ InboxInit /\ FeedInit /\ MetricsInit /\ AuditInit
      /\ ResetInit /\ DeliveryInit
  BY DEF Init
<1>2. pending \in Fields \cup {None} /\ InboxTypeOK
  BY <1>1, InboxTypesInit, InboxAssumption DEF ControlsInit
<1>3. TabsAreRead
  BY <1>1 DEF FeedInit, TabsAreRead, Closed, Desk0
<1>4. ChartIsNumbers
  BY <1>1 DEF MetricsInit, ChartIsNumbers
<1>5. NewestAreAsked
  BY <1>1 DEF AuditInit, LoadAuditLog, NewestAreAsked
<1>6. ClosesAreCounted
  BY <1>1, PasswordResetAssumption DEF ResetInit, ClosesAreCounted, PasswordResetAssumption
<1>7. DispatchIsBounded
  <2>1. \A e \in Events : dispatch[e].left = 0 /\ dispatch[e].todo = NoLoaded
    BY <1>1 DEF DeliveryInit
  <2> QED BY <2>1, TodosArePartial, WebhookAssumption DEF DispatchIsBounded, WebhookAssumption
<1> QED BY <1>1, <1>2, <1>3, <1>4, <1>5, <1>6, <1>7 DEF RestOfTypes

LEMMA RestStep == ScreensIInv /\ RestOfTypes /\ [Next]_vars => RestOfTypes'
<1> SUFFICES ASSUME ScreensIInv, RestOfTypes, [Next]_vars PROVE RestOfTypes'
  OBVIOUS
<1>1. /\ [ControlsNext]_controlVars /\ [InboxNext]_inboxVars /\ [FeedNext]_feedVars
      /\ [MetricsNext]_metricsVars /\ [AuditNext]_auditVars /\ [ResetNext]_resetVars
      /\ [WebhooksNext]_webhookVars
  BY StepsAreLocal
<1>2. visit' = visit
  BY DEF Next, vars
<1>3. FeedTypes /\ MetricsTypes /\ AuditIInv /\ DeliveryTypes
  BY DEF ScreensIInv, FeedIInv, MetricsIInv, DeliveryIInv
<1>4. pending' \in Fields \cup {None} /\ InboxTypeOK' /\ TabsAreRead'
  BY <1>1, <1>3, PendingStepInv, InboxTypesStep, TabsStepInv, InboxAssumption DEF RestOfTypes
<1>5. ChartIsNumbers' /\ NewestAreAsked' /\ ClosesAreCounted'
  <2>1. IsFiniteSet(Items) /\ MaxCloses \in Nat
    BY MetricsAssumption, PasswordResetAssumption DEF MetricsAssumption, PasswordResetAssumption
  <2> QED BY <1>1, <1>3, <2>1, ChartStepInv, NewestAskedStep, ClosesStepInv, MetricsAssumption DEF RestOfTypes
<1>6. DispatchIsBounded'
  <2>1. [DeliveryNext]_deliveryVars
    BY <1>1 DEF WebhooksNext, webhookVars
  <2> QED BY <1>3, <2>1, DispatchBoundsStep, WebhookAssumption DEF RestOfTypes
<1> QED BY <1>2, <1>4, <1>5, <1>6 DEF RestOfTypes

LEMMA TypesFollow == ScreensIInv /\ RestOfTypes => TypeOK
<1> SUFFICES ASSUME ScreensIInv, RestOfTypes PROVE TypeOK
  OBVIOUS
<1>1. ListTypeOK
  BY DEF ScreensIInv, ListIInv, ListTypes, ListTypeOK
<1>2. PaneTypeOK
  BY DEF ScreensIInv, RestOfTypes, ControlsIInv, ThreadIInv, ControlsTypes, ThreadTypes, PaneTypeOK
<1>3. SettingsTypeOK /\ BoardTypeOK /\ InboxTypeOK
  BY DEF ScreensIInv, RestOfTypes, SettingsIInv, BoardIInv
<1>4. FeedTypeOK
  BY DEF ScreensIInv, RestOfTypes, FeedIInv, FeedTypes, TabsAreRead, FeedTypeOK
<1>5. MetricsTypeOK
  BY DEF ScreensIInv, RestOfTypes, MetricsIInv, MetricsTypes, ChartIsNumbers, MetricsTypeOK
<1>6. AuditTypeOK
  <2>1. AuditTypes /\ NewestAreAsked
    BY DEF ScreensIInv, RestOfTypes, AuditIInv
  <2>2. Range(trail) \subseteq Cases
    <3>1. trail \in Seq(Cases)
      BY <2>1 DEF AuditTypes
    <3> QED BY <3>1 DEF Range
  <2> QED BY <2>1, <2>2 DEF AuditTypes, NewestAreAsked, AuditTypeOK
<1>7. ResetTypeOK
  <2>1. ResetTypes /\ ClosesAreCounted
    BY DEF ScreensIInv, RestOfTypes, ResetIInv
  <2>2. closes \in 0..MaxCloses /\ closing \in 0..2 * MaxCloses /\ due \in 0..2 * MaxCloses
    BY <2>1, PasswordResetAssumption DEF ClosesAreCounted, PasswordResetAssumption
  <2>3. \A call \in {send, verify, submit} : call \in ResetCall
    BY <2>1 DEF ResetTypes
  <2>4. \A call \in {send, verify, submit} :
          /\ call.st \in {"none", "asked", "matched", "ok", "failed"}
          /\ {call.to, call.shown} \subseteq Address /\ call.val \in 0..MaxCodes
    BY <2>3 DEF ResetCall
  <2> QED BY <2>1, <2>2, <2>4 DEF ResetTypes, ResetTypeOK
<1>8. DeliveryTypeOK
  <2>1. DeliveryTypes /\ DispatchIsBounded
    BY DEF ScreensIInv, RestOfTypes, DeliveryIInv
  <2>2. \A h \in Hooks : deliveries[h] \in Seq([event: Events, ok: BOOLEAN])
    BY <2>1 DEF DeliveryTypes, Entry
  <2>3. \A e \in Events : dispatch[e].st \in {"none", "queued", "running", "done", "lost"}
    <3>1. \A e \in Events : dispatch[e] \in Dispatch
      BY <2>1 DEF DeliveryTypes
    <3> QED BY <3>1 DEF Dispatch
  <2> QED BY <2>1, <2>2, <2>3 DEF DeliveryTypes, Endpoint, DispatchIsBounded, DeliveryTypeOK
<1>9. DialogTypeOK
  <2>1. DialogTypes
    BY DEF ScreensIInv, DialogIInv
  <2>2. \A i \in DOMAIN enquiries : enquiries[i] \in EnquiryRow
    BY <2>1 DEF DialogTypes
  <2> QED BY <2>1, <2>2 DEF DialogTypes, Entries, EnquiryRow, DialogTypeOK
<1> QED BY <1>1, <1>2, <1>3, <1>4, <1>5, <1>6, <1>7, <1>8, <1>9 DEF RestOfTypes, TypeOK

\* The variables of every screen keep their types.
THEOREM TypesHold == Spec => []TypeOK
<1>1. Spec => []RestOfTypes
  <2>1. ScreensIInv /\ RestOfTypes /\ [Next]_vars => RestOfTypes'
    BY RestStep
  <2> QED BY RestInit, <2>1, ScreensAreKept, PTL DEF Spec
<1> QED BY <1>1, TypesFollow, ScreensAreKept, PTL

-----------------------------------------------------------------------------
(* Sums.  A fold over a finite set that adds, for each element, how many   *)
(* things are sorted under it counts the things sorted under any of them.  *)
(* The library states folds for every operator, which no prover can use;   *)
(* well-foundedness of the finite sets is enough for the two sums here.    *)

Pick(s) == CHOOSE x \in s : TRUE

\* The things of T whose key, by K, is in s.
Under(T, K, s) == {t \in T : K[t] \in s}

LEMMA UnderAdds ==
  ASSUME NEW T, IsFiniteSet(T), NEW K, NEW s, NEW x \in s
  PROVE  /\ Cardinality(Under(T, K, s \ {x})) \in Nat /\ Cardinality(Under(T, K, {x})) \in Nat
         /\ Cardinality(Under(T, K, s)) = Cardinality(Under(T, K, s \ {x})) + Cardinality(Under(T, K, {x}))
<1> DEFINE A == Under(T, K, s \ {x})  B == Under(T, K, {x})
<1>1. A \in SUBSET T /\ B \in SUBSET T /\ A \cap B = {} /\ Under(T, K, s) = A \cup B
  BY DEF Under
<1> HIDE DEF A, B
<1>2. IsFiniteSet(A) /\ IsFiniteSet(B)
  BY <1>1, FS_Subset
<1>3. Cardinality(A) \in Nat /\ Cardinality(B) \in Nat /\ Cardinality(A \cap B) = 0
  BY <1>1, <1>2, FS_CardinalityType, FS_EmptySet
<1>4. Cardinality(A \cup B) = Cardinality(A) + Cardinality(B)
  <2>1. Cardinality(A \cup B) = Cardinality(A) + Cardinality(B) - Cardinality(A \cap B)
    BY <1>2, FS_Union
  <2> QED BY <1>3, <2>1
<1> QED BY <1>1, <1>3, <1>4 DEF A, B

LEMMA UnderNothing ==
  ASSUME NEW T, NEW K
  PROVE  Cardinality(Under(T, K, {})) = 0
BY FS_EmptySet DEF Under

\* What a sum's equation says of every part of a finite set determines the sum,
\* in whichever order it adds.
LEMMA SumCounts ==
  ASSUME NEW S, IsFiniteSet(S), NEW T, IsFiniteSet(T), NEW K, NEW sum,
         sum[{}] = 0,
         \A s \in SUBSET S : s # {} =>
           \/ sum[s] = Cardinality(Under(T, K, {Pick(s)})) + sum[s \ {Pick(s)}]
           \/ sum[s] = sum[s \ {Pick(s)}] + Cardinality(Under(T, K, {Pick(s)}))
  PROVE  sum[S] = Cardinality(Under(T, K, S))
<1> DEFINE Wrong == {s \in SUBSET S : sum[s] # Cardinality(Under(T, K, s))}
<1>1. SUFFICES ASSUME Wrong # {} PROVE FALSE
  OBVIOUS
<1>2. Wrong \subseteq FiniteSubsetsOf(S)
  BY FS_FiniteSubsetsOfFinite
<1>3. PICK s \in Wrong : \A r \in Wrong : ~(<<r, s>> \in StrictSubsetOrdering(S))
  <2> HIDE DEF Wrong
  <2> QED BY <1>1, <1>2, FS_StrictSubsetOrderingWellFounded, WFMin
<1>4. s # {}
  <2>1. ASSUME s = {} PROVE FALSE
    <3>1. sum[s] = 0 /\ Cardinality(Under(T, K, s)) = 0
      BY <2>1, UnderNothing
    <3> QED BY <3>1
  <2> QED BY <2>1
<1> DEFINE r == s \ {Pick(s)}
<1>5. Pick(s) \in s
  BY <1>4 DEF Pick
<1>6. r \notin Wrong
  <2>1. r \subseteq s /\ r # s /\ r \in SUBSET S
    BY <1>5
  <2> HIDE DEF r
  <2>2. <<r, s>> \in StrictSubsetOrdering(S)
    BY <2>1 DEF StrictSubsetOrdering
  <2> QED BY <1>3, <2>2
<1>7. sum[r] = Cardinality(Under(T, K, r))
  BY <1>6
<1>8. \/ sum[s] = sum[r] + Cardinality(Under(T, K, {Pick(s)}))
      \/ sum[s] = Cardinality(Under(T, K, {Pick(s)})) + sum[r]
  BY <1>4
<1>9. Cardinality(Under(T, K, r)) \in Nat /\ Cardinality(Under(T, K, {Pick(s)})) \in Nat
  BY <1>5, UnderAdds
<1>10. Cardinality(Under(T, K, s)) = Cardinality(Under(T, K, r)) + Cardinality(Under(T, K, {Pick(s)}))
  BY <1>5, <1>9, UnderAdds
<1>11. sum[s] # Cardinality(Under(T, K, s))
  OBVIOUS
<1> HIDE DEF r, Wrong
<1> QED BY <1>7, <1>8, <1>9, <1>10, <1>11

\* The counts themselves are such a sum.
LEMMA CountsAdd ==
  ASSUME NEW T, IsFiniteSet(T), NEW K, NEW s, s # {}
  PROVE  /\ Pick(s) \in s
         /\ Cardinality(Under(T, K, s)) = Cardinality(Under(T, K, {Pick(s)})) + Cardinality(Under(T, K, s \ {Pick(s)}))
         /\ Cardinality(Under(T, K, s)) = Cardinality(Under(T, K, s \ {Pick(s)})) + Cardinality(Under(T, K, {Pick(s)}))
<1>1. Pick(s) \in s
  BY DEF Pick
<1>2. Cardinality(Under(T, K, s \ {Pick(s)})) \in Nat /\ Cardinality(Under(T, K, {Pick(s)})) \in Nat
  BY <1>1, UnderAdds
<1>3. Cardinality(Under(T, K, s)) = Cardinality(Under(T, K, s \ {Pick(s)})) + Cardinality(Under(T, K, {Pick(s)}))
  BY <1>1, <1>2, UnderAdds
<1>4. \A m, n \in Nat : m + n = n + m
  OBVIOUS
<1> QED BY <1>1, <1>2, <1>3, <1>4

\* Adding up a series of counts, from one index to another.
LEMMA TotalCounts ==
  ASSUME NEW a \in Int, NEW b \in Int, NEW values, NEW T, IsFiniteSet(T), NEW K,
         \A k \in a..b : values[k] = Cardinality(Under(T, K, {k}))
  PROVE  Total(values, a, b) = Cardinality(Under(T, K, a..b))
<1> DEFINE Sums(g) == g = [s \in SUBSET (a..b) |->
                             IF s = {} THEN 0 ELSE values[Pick(s)] + g[s \ {Pick(s)}]]
           sum == CHOOSE g : Sums(g)
           count == [s \in SUBSET (a..b) |-> Cardinality(Under(T, K, s))]
<1>1. Total(values, a, b) = sum[a..b]
  BY DEF Total, FoldFunctionOnSet, MapThenFoldSet, Pick
<1>2. Sums(count)
  <2>1. ASSUME NEW s \in SUBSET (a..b)
        PROVE  count[s] = IF s = {} THEN 0 ELSE values[Pick(s)] + count[s \ {Pick(s)}]
    <3>1. CASE s = {}
      BY <3>1, UnderNothing
    <3>2. CASE s # {}
      <4>1. Pick(s) \in a..b /\ s \ {Pick(s)} \in SUBSET (a..b)
        BY <3>2, CountsAdd
      <4>2. values[Pick(s)] = Cardinality(Under(T, K, {Pick(s)}))
        BY <4>1
      <4>3. count[s \ {Pick(s)}] = Cardinality(Under(T, K, s \ {Pick(s)})) /\ count[s] = Cardinality(Under(T, K, s))
        BY <4>1
      <4>4. Cardinality(Under(T, K, s)) = Cardinality(Under(T, K, {Pick(s)})) + Cardinality(Under(T, K, s \ {Pick(s)}))
        BY <3>2, CountsAdd
      <4> HIDE DEF count
      <4> QED BY <3>2, <4>2, <4>3, <4>4
    <3> QED BY <3>1, <3>2
  <2> QED BY <2>1
<1>3. Sums(sum)
  <2> HIDE DEF Sums, count
  <2> QED BY <1>2
<1>4. IsFiniteSet(a..b)
  BY FS_Interval
<1>5. ASSUME NEW s \in SUBSET (a..b)
      PROVE  sum[s] = IF s = {} THEN 0 ELSE values[Pick(s)] + sum[s \ {Pick(s)}]
  <2> HIDE DEF sum
  <2> QED BY <1>3
<1>6. sum[{}] = 0
  BY <1>5
<1>7. ASSUME NEW s \in SUBSET (a..b), s # {}
      PROVE  sum[s] = Cardinality(Under(T, K, {Pick(s)})) + sum[s \ {Pick(s)}]
  <2>1. sum[s] = values[Pick(s)] + sum[s \ {Pick(s)}]
    BY <1>5, <1>7
  <2>2. Pick(s) \in s
    BY <1>7 DEF Pick
  <2>3. values[Pick(s)] = Cardinality(Under(T, K, {Pick(s)}))
    BY <2>2
  <2> HIDE DEF sum
  <2> QED BY <2>1, <2>3
<1> HIDE DEF sum
<1> QED BY <1>1, <1>4, <1>6, <1>7, SumCounts

-----------------------------------------------------------------------------
(* The arrow: the buckets of a half, added up, count what happened in it.  *)

LEMMA LocalDayIsInt ==
  ASSUME MetricsAssumption, MetricsTypes, NEW i \in Int
  PROVE  LocalDay(i) \in Int
<1>1. /\ zone.old \in Int /\ zone.new \in Int /\ DayLen \in Nat \ {0}
  BY DEF MetricsTypes, MetricsAssumption
<1>2. i + zone.old \in Int /\ i + zone.new \in Int
  BY <1>1
<1>3. (i + zone.old) \div DayLen \in Int /\ (i + zone.new) \div DayLen \in Int
  BY <1>1, <1>2, DivIsDay
<1> QED BY <1>3 DEF LocalDay

\* The bucket a conversation or ticket is in: the last one is today's.
BucketOf == [x \in Present |-> Days - (LocalDay(now) - LocalDay(items[x].changed))]

LEMMA HalvesCount ==
  ASSUME MetricsAssumption, MetricsIInv, fresh, Steady,
         NEW a \in 1..Days, NEW b \in 1..Days
  PROVE  LET values == [k \in 1..Days |-> chart[k].touched]
             n == Quantify(Present, LAMBDA x : LocalDay(now) - LocalDay(items[x].changed) \in Days - b..Days - a)
         IN Total(values, a, b) = n /\ n \in Nat
<1> DEFINE values == [k \in 1..Days |-> chart[k].touched]
<1>1. IsFiniteSet(Present)
  BY FS_Subset DEF MetricsAssumption, Present
<1>2. Days \in Nat /\ \A x \in Present : BucketOf[x] = Days - (LocalDay(now) - LocalDay(items[x].changed))
  BY DEF BucketOf, MetricsAssumption
<1>3. LocalDay(now) \in Int /\ \A x \in Present : LocalDay(items[x].changed) \in Int
  <2>1. now \in Int /\ \A x \in Present : items[x].changed \in Int
    BY DEF MetricsIInv, MetricsTypes, Present, Item, Instants
  <2> QED BY <2>1, LocalDayIsInt DEF MetricsIInv
<1>4. ASSUME NEW k \in a..b PROVE values[k] = Cardinality(Under(Present, BucketOf, {k}))
  <2>1. k \in 1..Days
    BY <1>2
  <2>2. values[k] = Cardinality({x \in Present : LocalDay(items[x].changed) = ShownDay(k)})
    BY <2>1, BucketCountsDay DEF Quantify
  <2>3. \A x \in Present : LocalDay(items[x].changed) = ShownDay(k) <=> BucketOf[x] \in {k}
    BY <1>2, <1>3, <2>1 DEF ShownDay
  <2>4. {x \in Present : LocalDay(items[x].changed) = ShownDay(k)} = Under(Present, BucketOf, {k})
    BY <2>3 DEF Under
  <2> QED BY <2>2, <2>4
<1>5. Total(values, a, b) = Cardinality(Under(Present, BucketOf, a..b))
  <2> HIDE DEF values
  <2>1. a \in Int /\ b \in Int
    OBVIOUS
  <2> QED BY <1>1, <1>4, <2>1, TotalCounts
<1>6. \A x \in Present : LocalDay(now) - LocalDay(items[x].changed) \in Days - b..Days - a <=> BucketOf[x] \in a..b
  BY <1>2, <1>3
<1>7. Under(Present, BucketOf, a..b)
        = {x \in Present : LocalDay(now) - LocalDay(items[x].changed) \in Days - b..Days - a}
  BY <1>6 DEF Under
<1>8. Cardinality(Under(Present, BucketOf, a..b)) \in Nat
  BY <1>1, FS_Subset, FS_CardinalityType DEF Under
<1> QED BY <1>5, <1>7, <1>8 DEF Quantify

LEMMA ArrowSays ==
  ASSUME MetricsAssumption, MetricsIInv, fresh, Steady, Days >= 4
  PROVE  LET In(from, to) == Quantify(Present, LAMBDA x : LocalDay(now) - LocalDay(items[x].changed) \in from..to)
             recent  == In(0, Days - Days \div 2 - 1)
             before == In(Days - Days \div 2, Days - 1)
         IN Arrow = IF before = 0 \/ recent = before THEN "none" ELSE IF recent > before THEN "up" ELSE "down"
<1> DEFINE mid == Days \div 2
           values == [k \in 1..Days |-> chart[k].touched]
           In(from, to) == Quantify(Present, LAMBDA x : LocalDay(now) - LocalDay(items[x].changed) \in from..to)
           recent == In(0, Days - mid - 1)
           before == In(Days - mid, Days - 1)
           prev == Total(values, 1, mid)
           curr == Total(values, mid + 1, Days)
<1>1. Days \in Nat /\ mid \in 1..Days /\ mid + 1 \in 1..Days /\ 1 \in 1..Days /\ Days \in 1..Days
  BY DEF MetricsAssumption
<1>2. Days - (mid + 1) = Days - mid - 1 /\ Days - Days = 0
  BY <1>1
<1>3. prev = before /\ before \in Nat
  BY <1>1, HalvesCount
<1>4. curr = recent /\ recent \in Nat
  <2>1. curr = In(Days - Days, Days - (mid + 1)) /\ In(Days - Days, Days - (mid + 1)) \in Nat
    BY <1>1, HalvesCount
  <2> HIDE DEF mid, In, curr
  <2>2. In(Days - Days, Days - (mid + 1)) = In(0, Days - mid - 1)
    BY <1>2
  <2> QED BY <2>1, <2>2
<1>5. Trend = IF Days < 4 \/ (prev = 0 /\ curr > 0) THEN {} ELSE {[more |-> curr - prev, of |-> prev]}
  BY DEF Trend, TrendDelta
<1> HIDE DEF mid, values, recent, before, prev, curr
<1>6. ~(Days < 4)
  BY <1>1
<1> DEFINE only == [more |-> curr - prev, of |-> prev]
<1>7. only.more = curr - prev
  OBVIOUS
<1>8. Trend = IF prev = 0 /\ curr > 0 THEN {} ELSE {only}
  BY <1>5, <1>6
<1> HIDE DEF only
<1>9. Arrow = IF prev = 0 /\ curr > 0 THEN "none"
              ELSE IF curr - prev = 0 THEN "none" ELSE IF curr - prev > 0 THEN "up" ELSE "down"
  BY <1>7, <1>8 DEF Arrow
<1>10. Arrow = IF before = 0 \/ recent = before THEN "none" ELSE IF recent > before THEN "up" ELSE "down"
  BY <1>3, <1>4, <1>9
<1> QED BY <1>10 DEF before, recent, mid

-----------------------------------------------------------------------------
(* Team workload: the rows and the remainder make up the tickets.          *)

Holder == [i \in DOMAIN page.filed |-> page.filed[i].who]

LEMMA FiledIsFinite ==
  ASSUME BoardTypeOK
  PROVE  /\ IsFiniteSet(DOMAIN page.filed) /\ Len(page.filed) \in Nat
         /\ DOMAIN page.filed = 1..Len(page.filed) /\ Cardinality(DOMAIN page.filed) = Len(page.filed)
         /\ \A i \in DOMAIN page.filed : page.filed[i] \in Filed
<1>1. page.filed \in Seq(Filed)
  BY DEF BoardTypeOK
<1>2. /\ Len(page.filed) \in Nat /\ DOMAIN page.filed = 1..Len(page.filed)
      /\ \A i \in DOMAIN page.filed : page.filed[i] \in Filed
  BY <1>1
<1>3. IsFiniteSet(1..Len(page.filed)) /\ Cardinality(1..Len(page.filed)) = Len(page.filed)
  BY <1>2, FS_Interval
<1> QED BY <1>2, <1>3

LEMMA LoadIsCount ==
  ASSUME NEW p
  PROVE  Load(p) = Cardinality(Under(DOMAIN page.filed, Holder, {p}))
<1>1. {i \in DOMAIN page.filed : page.filed[i].who = p} = Under(DOMAIN page.filed, Holder, {p})
  BY DEF Under, Holder
<1> QED BY <1>1 DEF Load, Quantify

LEMMA RowsCount ==
  ASSUME NEW S, IsFiniteSet(S), IsFiniteSet(DOMAIN page.filed)
  PROVE  FoldSet(LAMBDA p, n : n + Load(p), 0, S) = Cardinality(Under(DOMAIN page.filed, Holder, S))
<1> DEFINE T == DOMAIN page.filed
           Sums(g) == g = [s \in SUBSET S |-> IF s = {} THEN 0 ELSE g[s \ {Pick(s)}] + Load(Pick(s))]
           sum == CHOOSE g : Sums(g)
           count == [s \in SUBSET S |-> Cardinality(Under(T, Holder, s))]
<1>1. FoldSet(LAMBDA p, n : n + Load(p), 0, S) = sum[S]
  BY DEF FoldSet, MapThenFoldSet, Pick
<1>2. Sums(count)
  <2>1. ASSUME NEW s \in SUBSET S
        PROVE  count[s] = IF s = {} THEN 0 ELSE count[s \ {Pick(s)}] + Load(Pick(s))
    <3>1. CASE s = {}
      BY <3>1, UnderNothing
    <3>2. CASE s # {}
      <4>1. s \ {Pick(s)} \in SUBSET S
        OBVIOUS
      <4>2. Load(Pick(s)) = Cardinality(Under(T, Holder, {Pick(s)}))
        BY LoadIsCount
      <4>3. count[s \ {Pick(s)}] = Cardinality(Under(T, Holder, s \ {Pick(s)})) /\ count[s] = Cardinality(Under(T, Holder, s))
        BY <4>1
      <4>4. Cardinality(Under(T, Holder, s)) = Cardinality(Under(T, Holder, s \ {Pick(s)})) + Cardinality(Under(T, Holder, {Pick(s)}))
        BY <3>2, CountsAdd
      <4> HIDE DEF count
      <4> QED BY <3>2, <4>2, <4>3, <4>4
    <3> QED BY <3>1, <3>2
  <2> QED BY <2>1
<1>3. Sums(sum)
  <2> HIDE DEF Sums, count
  <2> QED BY <1>2
<1>4. ASSUME NEW s \in SUBSET S
      PROVE  sum[s] = IF s = {} THEN 0 ELSE sum[s \ {Pick(s)}] + Load(Pick(s))
  <2> HIDE DEF sum
  <2> QED BY <1>3
<1>5. sum[{}] = 0
  BY <1>4
<1>6. ASSUME NEW s \in SUBSET S, s # {}
      PROVE  sum[s] = sum[s \ {Pick(s)}] + Cardinality(Under(T, Holder, {Pick(s)}))
  <2>1. sum[s] = sum[s \ {Pick(s)}] + Load(Pick(s))
    BY <1>4, <1>6
  <2> HIDE DEF sum
  <2> QED BY <2>1, LoadIsCount
<1> HIDE DEF sum
<1> QED BY <1>1, <1>5, <1>6, SumCounts

LEMMA WorkloadAdds ==
  ASSUME BoardAssumption, BoardTypeOK
  PROVE  WorkIsAccountedFor
<1> DEFINE T == DOMAIN page.filed
<1>0. IsFiniteSet(T) /\ Cardinality(T) = Len(page.filed) /\ \A i \in T : page.filed[i] \in Filed
  BY FiledIsFinite
<1>1. \A p \in Workload : \E i \in T : Holder[i] = p
  <2> SUFFICES ASSUME NEW p \in Workload, ~\E i \in T : Holder[i] = p PROVE FALSE
    OBVIOUS
  <2>1. Under(T, Holder, {p}) = {}
    BY DEF Under
  <2>2. Load(p) > 0 /\ Load(p) = 0
    BY <2>1, LoadIsCount, FS_EmptySet DEF Workload
  <2> QED BY <2>2
<1>2. IsFiniteSet(Workload)
  <2> DEFINE Whos == {Holder[i] : i \in T}
  <2>1. Holder \in Surjection(T, Whos)
    BY DEF Holder, Surjection
  <2>2. IsFiniteSet(Whos) /\ Workload \in SUBSET Whos
    BY <1>0, <1>1, <2>1, FS_Surjection
  <2> HIDE DEF Whos
  <2> QED BY <2>2, FS_Subset
<1>3. Unassigned \notin Workload /\ Workload \subseteq page.staff
  BY DEF Workload, BoardTypeOK, BoardAssumption
<1>4. SUFFICES ASSUME {page.filed[i].who : i \in DOMAIN page.filed} \subseteq page.staff \cup {Unassigned}
      PROVE  /\ Load(Unassigned) + FoldSet(LAMBDA p, n : n + Load(p), 0, Workload) = Len(page.filed)
             /\ NothingAssigned => Load(Unassigned) = Len(page.filed)
  BY DEF WorkIsAccountedFor
<1>5. \A i \in T : Holder[i] \in Workload \cup {Unassigned}
  <2> SUFFICES ASSUME NEW i \in T, Holder[i] # Unassigned PROVE Holder[i] \in Workload
    OBVIOUS
  <2>1. Holder[i] \in page.staff
    BY <1>4 DEF Holder
  <2>2. i \in Under(T, Holder, {Holder[i]})
    BY DEF Under
  <2>3. Load(Holder[i]) = Cardinality(Under(T, Holder, {Holder[i]}))
    BY LoadIsCount
  <2>4. IsFiniteSet(Under(T, Holder, {Holder[i]}))
    BY <1>0, FS_Subset DEF Under
  <2>5. Load(Holder[i]) \in Nat /\ Load(Holder[i]) # 0
    BY <2>2, <2>3, <2>4, FS_EmptySet, FS_CardinalityType
  <2> QED BY <2>1, <2>5 DEF Workload
<1> DEFINE A == Under(T, Holder, Workload)  B == Under(T, Holder, {Unassigned})
<1>6. A \cup B = T /\ A \cap B = {} /\ A \in SUBSET T /\ B \in SUBSET T
  BY <1>3, <1>5 DEF Under
<1>7. Cardinality(A) \in Nat /\ Cardinality(B) \in Nat /\ Cardinality(A) + Cardinality(B) = Len(page.filed)
  <2> HIDE DEF A, B
  <2>1. IsFiniteSet(A) /\ IsFiniteSet(B) /\ Cardinality(A \cap B) = 0
    BY <1>0, <1>6, FS_Subset, FS_EmptySet
  <2>2. Cardinality(A \cup B) = Cardinality(A) + Cardinality(B) - Cardinality(A \cap B)
    BY <2>1, FS_Union
  <2>3. Cardinality(A) \in Nat /\ Cardinality(B) \in Nat
    BY <2>1, FS_CardinalityType
  <2>4. Cardinality(A \cup B) = Len(page.filed)
    BY <1>0, <1>6
  <2> QED BY <2>1, <2>2, <2>3, <2>4
<1>8. Load(Unassigned) = Cardinality(B)
  BY LoadIsCount
<1> DEFINE rowSum == FoldSet(LAMBDA p, n : n + Load(p), 0, Workload)
<1>9. rowSum = Cardinality(A)
  BY <1>0, <1>2, RowsCount
<1>10. Load(Unassigned) + rowSum = Len(page.filed)
  <2> HIDE DEF rowSum, A, B
  <2> QED BY <1>7, <1>8, <1>9
<1>11. ASSUME NothingAssigned PROVE Load(Unassigned) = Len(page.filed)
  <2>1. Workload = {}
    BY <1>11 DEF NothingAssigned
  <2>2. Cardinality(A) = 0
    BY <2>1, UnderNothing
  <2> HIDE DEF A, B
  <2> QED BY <1>7, <1>8, <2>2
<1> QED BY <1>10, <1>11

-----------------------------------------------------------------------------
(* The overview's queue: the places of the open tickets in the order of    *)
(* precedence are the numbers from 0, each of them once.                   *)

OpenOnes  == {i \in DOMAIN page.filed : page.filed[i].open}
Before(i) == {j \in OpenOnes : Precedes(j, i)}
Place(i)  == Cardinality(Before(i))

LEMMA PrecedesOrders ==
  ASSUME BoardAssumption, BoardTypeOK,
         NEW i \in OpenOnes, NEW j \in OpenOnes, NEW k \in OpenOnes
  PROVE  /\ ~Precedes(i, i)
         /\ Precedes(i, j) /\ Precedes(j, k) => Precedes(i, k)
         /\ i # j => Precedes(i, j) \/ Precedes(j, i)
<1>1. \A x \in OpenOnes : x \in Nat /\ page.filed[x].rank \in Nat
  <2> TAKE x \in OpenOnes
  <2>1. x \in Nat /\ page.filed[x] \in Filed
    BY FiledIsFinite DEF OpenOnes
  <2>2. page.filed[x].rank \in Ranks
    BY <2>1 DEF Filed
  <2> QED BY <2>1, <2>2 DEF BoardAssumption
<1>2. /\ i \in Nat /\ page.filed[i].rank \in Nat /\ j \in Nat /\ page.filed[j].rank \in Nat
      /\ k \in Nat /\ page.filed[k].rank \in Nat
  BY <1>1
<1> QED BY <1>2 DEF Precedes

LEMMA PlaceGrows ==
  ASSUME BoardAssumption, BoardTypeOK, NEW i \in OpenOnes
  PROVE  /\ IsFiniteSet(OpenOnes) /\ Place(i) \in Nat /\ Place(i) < Cardinality(OpenOnes)
         /\ \A j \in OpenOnes : Precedes(i, j) <=> Place(i) < Place(j)
<1>1. IsFiniteSet(OpenOnes) /\ Cardinality(OpenOnes) \in Nat
  BY FiledIsFinite, FS_Subset, FS_CardinalityType DEF OpenOnes
<1>2. ASSUME NEW a \in SUBSET OpenOnes, NEW b \in SUBSET OpenOnes, a \subseteq b, NEW x \in b, x \notin a
      PROVE  Cardinality(a) \in Nat /\ Cardinality(b) \in Nat /\ Cardinality(a) < Cardinality(b)
  <2>1. IsFiniteSet(a) /\ IsFiniteSet(b)
    BY <1>1, <1>2, FS_Subset
  <2>2. Cardinality(a) <= Cardinality(b) /\ Cardinality(a) # Cardinality(b)
    BY <1>2, <2>1, FS_Subset
  <2> QED BY <2>1, <2>2, FS_CardinalityType
<1>3. Before(i) \in SUBSET OpenOnes /\ i \notin Before(i)
  BY PrecedesOrders DEF Before
<1>4. Place(i) \in Nat /\ Place(i) < Cardinality(OpenOnes)
  <2> HIDE DEF Before
  <2> QED BY <1>2, <1>3 DEF Place
<1>5. ASSUME NEW k \in OpenOnes, NEW j \in OpenOnes, Precedes(k, j)
      PROVE  Place(k) \in Nat /\ Place(j) \in Nat /\ Place(k) < Place(j)
  <2>1. Before(k) \in SUBSET OpenOnes /\ Before(j) \in SUBSET OpenOnes /\ k \in Before(j)
    BY <1>5 DEF Before
  <2>2. k \notin Before(k)
    BY PrecedesOrders DEF Before
  <2>3. Before(k) \subseteq Before(j)
    BY <1>5, PrecedesOrders DEF Before
  <2> QED BY <1>2, <2>1, <2>2, <2>3 DEF Place
<1>6. ASSUME NEW j \in OpenOnes, Place(i) < Place(j) PROVE Precedes(i, j)
  <2>1. CASE Precedes(j, i)
    BY <1>5, <1>6, <2>1
  <2>2. CASE i = j
    BY <1>4, <1>6, <2>2
  <2> QED BY <2>1, <2>2, PrecedesOrders
<1> QED BY <1>1, <1>4, <1>5, <1>6

LEMMA PlacesAreTaken ==
  ASSUME BoardAssumption, BoardTypeOK, NEW n \in 1..Cardinality(OpenOnes)
  PROVE  \E i \in OpenOnes : Place(i) = n - 1
<1> DEFINE size == Cardinality(OpenOnes)
           placeOf == [i \in OpenOnes |-> Place(i) + 1]
<1>1. IsFiniteSet(OpenOnes) /\ size \in Nat
  BY FiledIsFinite, FS_Subset, FS_CardinalityType DEF OpenOnes
<1>2. placeOf \in Injection(OpenOnes, 1..size)
  <2>1. \A i \in OpenOnes : Place(i) + 1 \in 1..size
    BY <1>1, PlaceGrows
  <2>2. ASSUME NEW i \in OpenOnes, NEW j \in OpenOnes, Place(i) + 1 = Place(j) + 1 PROVE i = j
    <3>1. Place(i) \in Nat /\ Place(j) \in Nat
      BY PlaceGrows
    <3>2. ~(Place(i) < Place(j)) /\ ~(Place(j) < Place(i))
      BY <2>2, <3>1
    <3>3. ~Precedes(i, j) /\ ~Precedes(j, i)
      BY <3>2, PlaceGrows
    <3> QED BY <3>3, PrecedesOrders
  <2>3. placeOf \in [OpenOnes -> 1..size]
    <3> HIDE DEF size
    <3> QED BY <2>1 DEF size
  <2>4. \A i, j \in OpenOnes : placeOf[i] = placeOf[j] => i = j
    BY <2>2
  <2> HIDE DEF placeOf, size
  <2> QED BY <2>3, <2>4 DEF Injection, IsInjective
<1>3. IsFiniteSet(1..size) /\ Cardinality(1..size) = size
  BY <1>1, FS_Interval
<1> HIDE DEF placeOf
<1>4. placeOf \in Surjection(OpenOnes, 1..size)
  BY <1>2, <1>3, FS_Injection
<1>5. PICK i \in OpenOnes : placeOf[i] = n
  BY <1>4 DEF Surjection
<1>6. placeOf[i] = Place(i) + 1 /\ Place(i) \in Nat
  BY PlaceGrows DEF placeOf
<1> QED BY <1>5, <1>6

LEMMA QueueIsUrgent ==
  ASSUME BoardAssumption, BoardTypeOK
  PROVE  QueueIsMostUrgent
<1> DEFINE size == Cardinality(OpenOnes)
           long == IF size < QueueLength THEN size ELSE QueueLength
           left == OpenOnes \ Range(Queue)
<1>1. size \in Nat /\ QueueLength \in Nat /\ long \in Nat
  BY FiledIsFinite, FS_Subset, FS_CardinalityType DEF OpenOnes, BoardAssumption
<1>2. Queue = [n \in 1..long |-> CHOOSE i \in OpenOnes : Place(i) = n - 1]
  BY DEF Queue, OpenOnes, Place, Before
<1> HIDE DEF size, long
<1>3. DOMAIN Queue = 1..long /\ Len(Queue) = long
  BY <1>1, <1>2
<1>4. ASSUME NEW n \in 1..long PROVE Queue[n] \in OpenOnes /\ Place(Queue[n]) = n - 1
  <2>1. n \in 1..size
    BY <1>1 DEF long
  <2>2. \E i \in OpenOnes : Place(i) = n - 1
    BY <2>1, PlacesAreTaken DEF size
  <2>3. Queue[n] = CHOOSE i \in OpenOnes : Place(i) = n - 1
    BY <1>2
  <2> QED BY <2>2, <2>3
<1>5. ASSUME NEW i \in OpenOnes, NEW j \in OpenOnes, Place(i) = Place(j) PROVE i = j
  <2>1. Place(i) \in Nat
    BY PlaceGrows
  <2>2. ~Precedes(i, j) /\ ~Precedes(j, i)
    BY <1>5, <2>1, PlaceGrows
  <2> QED BY <2>2, PrecedesOrders
<1>6. ASSUME NEW i \in OpenOnes, Place(i) < long PROVE i \in Range(Queue)
  <2>1. Place(i) \in Nat /\ Place(i) + 1 \in 1..long
    BY <1>1, <1>6, PlaceGrows
  <2>2. Place(i) + 1 - 1 = Place(i)
    BY <2>1
  <2>3. Queue[Place(i) + 1] \in OpenOnes /\ Place(Queue[Place(i) + 1]) = Place(i)
    BY <1>4, <2>1, <2>2
  <2>4. Queue[Place(i) + 1] = i
    BY <1>5, <2>3
  <2> QED BY <1>3, <2>1, <2>4 DEF Range
<1>7. ASSUME left # {} PROVE Len(Queue) = QueueLength
  <2>1. PICK i \in OpenOnes : i \notin Range(Queue)
    BY <1>7
  <2>2. Place(i) \in Nat /\ Place(i) < size
    BY PlaceGrows DEF size
  <2>3. ~(Place(i) < long)
    BY <1>6, <2>1
  <2> QED BY <1>1, <1>3, <2>2, <2>3 DEF long
<1>8. ASSUME NEW n \in 1..long, NEW j \in left \cup {Queue[k] : k \in n + 1..Len(Queue)}
      PROVE  Precedes(Queue[n], j)
  <2>1. j \in OpenOnes /\ n - 1 < Place(j)
    <3>1. CASE j \in left
      <4>1. j \in OpenOnes /\ ~(Place(j) < long) /\ Place(j) \in Nat
        BY <1>6, <3>1, PlaceGrows
      <4> QED BY <1>1, <4>1
    <3>2. ASSUME NEW k \in n + 1..long, j = Queue[k] PROVE j \in OpenOnes /\ n - 1 < Place(j)
      <4>1. k \in 1..long /\ n - 1 < k - 1
        BY <1>1
      <4> QED BY <1>4, <3>2, <4>1
    <3> QED BY <1>3, <1>8, <3>1, <3>2
  <2>2. Queue[n] \in OpenOnes /\ Place(Queue[n]) = n - 1
    BY <1>4
  <2> QED BY <2>1, <2>2, PlaceGrows
<1>9. left = {i \in DOMAIN page.filed : page.filed[i].open} \ Range(Queue)
  BY DEF OpenOnes
<1> HIDE DEF left
<1> QED BY <1>3, <1>7, <1>8, <1>9 DEF QueueIsMostUrgent, Precedes

-----------------------------------------------------------------------------
\* Whatever the organization's lists, the viewer's clock and the order of reading:
\* the charts count each thing on its own day and the arrow compares the halves of
\* the window, the queue leaves out no ticket that another should precede, the
\* workload's rows add up to the tickets, and the shares are those of one moment.
THEOREM FiguresHold == Spec => []FiguresAreTrue
<1>1. ASSUME ScreensIInv PROVE CountedOnItsDay
  <2>1. SUFFICES ASSUME fresh, Steady PROVE CountedOnItsDay
    BY DEF CountedOnItsDay
  <2>2. MetricsIInv
    BY <1>1 DEF ScreensIInv
  <2>3. ASSUME NEW k \in 1..Days
        PROVE  /\ chart[k].label = ShownDay(k)
               /\ chart[k].touched = Quantify(Present, LAMBDA x : LocalDay(items[x].changed) = ShownDay(k))
               /\ chart[k].created = Quantify(Present, LAMBDA x : LocalDay(items[x].opened) = ShownDay(k))
               /\ chart[k].resolved = Quantify(Present, LAMBDA x : items[x].closed /\ LocalDay(items[x].changed) = ShownDay(k))
    BY <2>1, <2>2, BucketCountsDay, MetricsAssumption
  <2> QED BY <2>1, <2>2, <2>3, ArrowSays, MetricsAssumption DEF CountedOnItsDay, ShownDay
<1>2. ASSUME ScreensIInv PROVE BoardHolds
  <2>1. BoardTypeOK /\ BoardIInv
    BY <1>2 DEF ScreensIInv, BoardIInv
  <2> QED BY <2>1, QueueIsUrgent, WorkloadAdds, SharesOfOneMoment, BoardAssumption DEF BoardHolds
<1>3. ScreensIInv => FiguresAreTrue
  BY <1>1, <1>2 DEF FiguresAreTrue
<1> QED BY <1>3, ScreensAreKept, PTL
=============================================================================
