---------------------------- MODULE ConsoleProofs ----------------------------
(***************************************************************************)
(* Proofs about Console, for any organizations, rows and number of         *)
(* requests.  The argument is about copies: the rows of the snapshot and   *)
(* those on their way in a fetch were all read by one query.  A copy is    *)
(* good when it holds rows of its organization only, and nothing that was  *)
(* gone when it was read.  Patching a copy takes rows away or changes      *)
(* their value, so it stays good; and only the last run of the effect, of  *)
(* which there is one, can replace it.                                     *)
(***************************************************************************)
EXTENDS Console, TLAPS

Good(x, gone, now) ==
  /\ x.asof <= now
  /\ \A r \in Rows : x.rows[r] # "no" => Home[r] = x.org /\ (gone[r] # 0 => gone[r] > x.asof)

CopiesAreGood == Good(snap, goneAt, clock) /\ \A f \in fetches : Good(f, goneAt, clock)

\* Only what is gone has a time at which it went.
OnlyTheGone == \A r \in Rows : row[r] # "gone" => goneAt[r] = 0

\* One fetch may still store, and it was read after what is stored.
LastRun ==
  /\ \A f, g \in fetches : ~f.cancelled /\ ~g.cancelled => f = g
  /\ \A f \in fetches : ~f.cancelled /\ f.st = "ok" => f.asof >= snap.asof

IInv == TypeOK /\ CopiesAreGood /\ OnlyTheGone /\ LastRun

-----------------------------------------------------------------------------
(* Copies.                                                                 *)

LEMMA NothingIsShown == Nothing \in Shown
  BY DEF Nothing, Shown

LEMMA AskedIsGood ==
  ASSUME NEW org \in Orgs, NEW gone, NEW now \in Nat
  PROVE  /\ AskRows(org) \in Fetch /\ Good(AskRows(org), gone, now)
         /\ AskRows(org).st = "asked" /\ ~AskRows(org).cancelled
  BY NothingIsShown DEF AskRows, Fetch, Good, Nothing

\* Whatever runs of the effect are kept, the next one leaves one fetch that may store.
LEMMA RerunIsGood ==
  ASSUME NEW kept \in SUBSET Fetch, NEW org \in Orgs, NEW gone, NEW now \in Nat,
         \A f \in kept : Good(f, gone, now)
  PROVE  /\ Rerun(kept, org) \subseteq Fetch
         /\ \A f \in Rerun(kept, org) : Good(f, gone, now)
         /\ \A f \in Rerun(kept, org) : ~f.cancelled => f = AskRows(org)
<1>1. ASSUME NEW f \in kept
      PROVE  LET g == [f EXCEPT !.cancelled = TRUE]
             IN g \in Fetch /\ g.cancelled /\ Good(g, gone, now)
  BY <1>1 DEF Fetch, Good
<1> QED BY <1>1, AskedIsGood DEF Rerun

\* setData() leaves a good snapshot good.
LEMMA PatchedIsGood ==
  ASSUME NEW a \in Act, snap \in Snap, NEW gone, NEW now \in Nat, Good(snap, gone, now)
  PROVE  /\ Patched(a) \in Snap /\ Good(Patched(a), gone, now)
         /\ Patched(a).asof = snap.asof
<1> DEFINE held == [r \in Rows |-> IF r # a.row \/ snap.rows[r] = "no" THEN snap.rows[r]
                                   ELSE IF a.op = "remove" THEN "no" ELSE a.val]
<1>1. Patched(a) = [snap EXCEPT !.st = "data", !.rows = held]
  BY DEF Patched, Snap
<1>2. held \in Shown
  BY DEF Act, Snap, Shown, Value
<1>3. /\ Patched(a) \in Snap /\ Patched(a).rows = held
      /\ Patched(a).asof = snap.asof /\ Patched(a).org = snap.org
  BY <1>1, <1>2 DEF Snap
<1>4. \A r \in Rows : held[r] # "no" => snap.rows[r] # "no"
  OBVIOUS
<1> QED BY <1>3, <1>4 DEF Good

\* A query is good when it is answered.
LEMMA ListedIsGood ==
  ASSUME TypeOK, OnlyTheGone, NEW org \in Orgs
  PROVE  /\ Listed(org) \in Shown
         /\ \A r \in Rows : Listed(org)[r] # "no" => Home[r] = org /\ goneAt[r] = 0
  BY DEF Listed, Shown, Value, TypeOK, OnlyTheGone

-----------------------------------------------------------------------------
LEMMA InitInv == Init => IInv
<1> SUFFICES ASSUME Init PROVE IInv
  OBVIOUS
<1>1. page.org \in Orgs /\ clock \in Nat /\ clock = 0
  BY DEF Init
<1>2. snap \in Snap /\ Good(snap, goneAt, clock) /\ snap.asof = 0
  BY <1>1, NothingIsShown DEF Init, Snap, Good, Nothing
<1>3. fetches \subseteq Fetch /\ \A f \in fetches : Good(f, goneAt, clock) /\ f.st = "asked"
  BY <1>1, AskedIsGood DEF Init
<1>4. TypeOK
  BY <1>1, <1>2, <1>3, ConsoleAssumption DEF Init, TypeOK, Value
<1>5. OnlyTheGone /\ LastRun
  BY <1>3 DEF Init, OnlyTheGone, LastRun
<1> QED BY <1>2, <1>3, <1>4, <1>5 DEF IInv, CopiesAreGood

\* The parts of the invariant that a step of the hook can disturb.
HookKept ==
  /\ page' \in [name: Pages, org: Orgs]
  /\ snap' \in Snap /\ fetches' \subseteq Fetch
  /\ Good(snap', goneAt, clock) /\ \A f \in fetches' : Good(f, goneAt, clock)
  /\ LastRun'

LEMMA HookStep ==
  ASSUME IInv, HookKept, UNCHANGED <<row, clock, goneAt>>, acts' \subseteq Act
  PROVE  IInv'
<1>1. TypeOK'
  BY DEF IInv, HookKept, TypeOK
<1>2. CopiesAreGood' /\ OnlyTheGone'
  BY DEF IInv, HookKept, CopiesAreGood, OnlyTheGone
<1> QED BY <1>1, <1>2 DEF IInv, HookKept

\* The effect runs again for a snapshot with the same rows.
LEMMA RerunStep ==
  ASSUME IInv, NEW kept \in SUBSET Fetch, \A f \in kept : Good(f, goneAt, clock),
         NEW org \in Orgs, fetches' = Rerun(kept, org),
         page' \in [name: Pages, org: Orgs],
         snap' \in Snap, Good(snap', goneAt, clock)
  PROVE  HookKept
<1>1. clock \in Nat
  BY ConsoleAssumption DEF IInv, TypeOK
<1>2. LastRun'
  BY <1>1, RerunIsGood, AskedIsGood DEF LastRun
<1> QED BY <1>1, <1>2, RerunIsGood DEF HookKept

LEMMA RefetchStep ==
  ASSUME IInv, Refetch, UNCHANGED page
  PROVE  HookKept
<1> DEFINE kept == {[f EXCEPT !.same = FALSE] : f \in fetches}
<1>1. kept \in SUBSET Fetch /\ \A f \in kept : Good(f, goneAt, clock)
  <2>1. ASSUME NEW f \in fetches
        PROVE  LET g == [f EXCEPT !.same = FALSE] IN g \in Fetch /\ Good(g, goneAt, clock)
    <3>1. f \in Fetch /\ Good(f, goneAt, clock)
      BY <2>1 DEF IInv, TypeOK, CopiesAreGood
    <3> QED BY <3>1 DEF Fetch, Good
  <2> QED BY <2>1
<1>2. snap' \in Snap /\ Good(snap', goneAt, clock)
  BY DEF IInv, TypeOK, CopiesAreGood, Snap, Good, Refetch
<1>3. page.org \in Orgs /\ page' \in [name: Pages, org: Orgs]
  BY DEF IInv, TypeOK
<1>4. fetches' = Rerun(kept, page.org)
  BY DEF Refetch
<1> QED BY <1>1, <1>2, <1>3, <1>4, RerunStep

\* An answer replaces the fetch it is the answer to.
LEMMA AnswerStep ==
  ASSUME IInv, NEW f \in fetches, NEW g \in Fetch, fetches' = (fetches \ {f}) \cup {g},
         f.st = "asked", g.cancelled = f.cancelled, Good(g, goneAt, clock),
         g.st = "ok" => g.asof = clock,
         UNCHANGED <<page, snap>>
  PROVE  HookKept
<1>1. snap.asof <= clock /\ clock \in Nat /\ snap.asof \in Nat
  BY ConsoleAssumption DEF IInv, CopiesAreGood, Good, TypeOK, Snap
<1>2. LastRun'
  BY <1>1 DEF IInv, LastRun
<1> QED BY <1>2 DEF IInv, TypeOK, CopiesAreGood, HookKept

LEMMA ArriveStep ==
  ASSUME IInv, NEW f \in fetches, Arrive(f)
  PROVE  /\ HookKept
         /\ snap'.org = snap.org /\ snap'.st = "data" => snap'.asof >= snap.asof
<1>1. f \in Fetch /\ snap \in Snap /\ page.org \in Orgs
  BY DEF IInv, TypeOK
<1>2. snap' \in Snap /\ Good(snap', goneAt, clock)
  <2>1. CASE ~Current(f)
    BY <2>1 DEF IInv, TypeOK, CopiesAreGood, Arrive
  <2>2. CASE Current(f)
    BY <1>1, <2>2 DEF IInv, TypeOK, CopiesAreGood, Arrive, Snap, Fetch, Good
  <2> QED BY <2>1, <2>2
<1>3. LastRun'
  <2>1. CASE ~Current(f)
    BY <2>1 DEF IInv, LastRun, Arrive
  <2>2. CASE Current(f)
    BY <2>2 DEF IInv, LastRun, Arrive, Current
  <2> QED BY <2>1, <2>2
<1>4. snap'.org = snap.org /\ snap'.st = "data" => snap'.asof >= snap.asof
  <2>1. CASE ~Current(f)
    BY <1>1, <2>1 DEF Arrive, Snap
  <2>2. CASE Current(f)
    BY <1>1, <2>2 DEF IInv, LastRun, Arrive, Current, Fetch
  <2> QED BY <2>1, <2>2
<1> QED BY <1>2, <1>3, <1>4 DEF IInv, TypeOK, CopiesAreGood, Arrive, HookKept

-----------------------------------------------------------------------------
(* Mutations.                                                              *)

\* A click or a dialog only adds a request.
LEMMA AskStep ==
  ASSUME IInv, NEW act \in Act, Ask(act)
  PROVE  IInv'
<1>1. HookKept /\ UNCHANGED <<row, clock, goneAt>> /\ acts' \subseteq Act
  BY DEF Ask, IInv, TypeOK, CopiesAreGood, LastRun, HookKept
<1> QED BY <1>1, HookStep

LEMMA AddStep ==
  ASSUME IInv, NEW name, NEW r \in Rows, NEW val \in Value, NEW more \in 0..1,
         Add(name, r, val, more)
  PROVE  IInv'
<1> DEFINE act == [op |-> "add", row |-> r, org |-> page.org, st |-> "asked", left |-> more, val |-> val]
<1>1. act \in Act /\ Ask(act)
  BY DEF Add, Act, Op, IInv, TypeOK
<1> QED BY <1>1, AskStep

LEMMA ClickStep ==
  ASSUME IInv, NEW name, NEW op \in Op, NEW r \in Rows, NEW val \in Value,
         Click(name, op, r, val)
  PROVE  IInv'
<1> DEFINE act == [op |-> op, row |-> r, org |-> page.org, st |-> "asked", left |-> 0, val |-> val]
<1>1. act \in Act /\ Ask(act)
  BY DEF Click, Act, IInv, TypeOK
<1> QED BY <1>1, AskStep

\* The backend's writes: a row that goes, goes after every copy was read.
LEMMA ServeActStep ==
  ASSUME IInv, NEW a \in acts, ServeAct(a)
  PROVE  IInv'
<1>1. a \in Act /\ a.row \in Rows /\ a.val \in Value /\ clock \in Nat
  BY ConsoleAssumption DEF IInv, TypeOK, Act
<1>2. acts' \subseteq Act
  BY <1>1 DEF ServeAct, IInv, TypeOK, Act
<1>3. CASE UNCHANGED <<row, clock, goneAt>>
  BY <1>2, <1>3, HookStep DEF ServeAct, IInv, TypeOK, CopiesAreGood, LastRun, HookKept
<1>4. CASE /\ Found(a) /\ clock < MaxWrites /\ clock' = clock + 1
           /\ row' = [row EXCEPT ![a.row] = CASE a.op \in {"add", "edit"} -> a.val
                                              [] a.op = "remove" -> "gone"
                                              [] OTHER -> @]
           /\ goneAt' = IF a.op = "remove" THEN [goneAt EXCEPT ![a.row] = clock + 1] ELSE goneAt
  <2>1. row' \in [Rows -> Value \cup {"none", "gone"}]
    BY <1>1, <1>4 DEF IInv, TypeOK
  <2>2. clock' \in 0..MaxWrites /\ goneAt' \in [Rows -> 0..MaxWrites]
    BY <1>1, <1>4, ConsoleAssumption DEF IInv, TypeOK
  <2>3. TypeOK'
    BY <1>2, <2>1, <2>2 DEF ServeAct, IInv, TypeOK
  <2>4. \A r \in Rows : goneAt'[r] = IF a.op = "remove" /\ r = a.row THEN clock + 1 ELSE goneAt[r]
    BY <1>4 DEF IInv, TypeOK
  <2>5. \A x : x.asof \in Nat /\ Good(x, goneAt, clock) => Good(x, goneAt', clock')
    BY <1>1, <1>4, <2>4 DEF Good
  <2>6. snap.asof \in Nat /\ \A f \in fetches : f.asof \in Nat
    BY DEF IInv, TypeOK, Snap, Fetch
  <2>7. CopiesAreGood' /\ LastRun'
    BY <2>5, <2>6 DEF ServeAct, IInv, CopiesAreGood, LastRun
  <2>8. row[a.row] # "gone"
    BY <1>4 DEF Found, Value
  <2>9. OnlyTheGone'
    <3> SUFFICES ASSUME NEW r \in Rows, row'[r] # "gone" PROVE goneAt'[r] = 0
      BY DEF OnlyTheGone
    <3>1. CASE r = a.row
      BY <1>1, <1>4, <2>4, <2>8, <3>1 DEF IInv, TypeOK, OnlyTheGone
    <3>2. CASE r # a.row
      BY <1>1, <1>4, <2>4, <3>2 DEF IInv, TypeOK, OnlyTheGone
    <3> QED BY <3>1, <3>2
  <2> QED BY <2>3, <2>7, <2>9 DEF IInv
<1> QED BY <1>3, <1>4 DEF ServeAct

LEMMA FinishStep ==
  ASSUME IInv, NEW a \in acts, Finish(a)
  PROVE  /\ IInv'
         /\ snap'.asof = snap.asof
<1>1. a \in Act /\ snap \in Snap
  BY DEF IInv, TypeOK
<1>2. acts' \subseteq Act
  <2> DEFINE again == {[a EXCEPT !.row = r, !.left = 0, !.st = "asked"] : r \in Rows}
  <2>1. again \subseteq Act
    <3> SUFFICES ASSUME NEW r \in Rows
                 PROVE  [a EXCEPT !.row = r, !.left = 0, !.st = "asked"] \in Act
      OBVIOUS
    <3>1. 0 \in 0..1
      OBVIOUS
    <3> QED BY <1>1, <3>1 DEF Act
  <2>2. \E next \in SUBSET again : acts' = (acts \ {a}) \cup next
    BY DEF Finish
  <2> QED BY <2>1, <2>2 DEF IInv, TypeOK
<1>3. CASE Refetch
  <2>1. HookKept
    BY <1>3, RefetchStep DEF Finish
  <2>2. snap'.asof = snap.asof
    BY <1>1, <1>3 DEF Refetch, Snap
  <2> QED BY <1>2, <2>1, <2>2, HookStep DEF Finish
<1>4. CASE snap' = Patched(a) /\ UNCHANGED fetches
  <2>1. clock \in Nat /\ Good(snap, goneAt, clock)
    BY ConsoleAssumption DEF IInv, TypeOK, CopiesAreGood
  <2>2. snap' \in Snap /\ Good(snap', goneAt, clock) /\ snap'.asof = snap.asof
    BY <1>1, <1>4, <2>1, PatchedIsGood
  <2>3. HookKept
    BY <1>4, <2>2 DEF Finish, IInv, TypeOK, CopiesAreGood, LastRun, HookKept
  <2> QED BY <1>2, <2>2, <2>3, HookStep DEF Finish
<1>5. CASE UNCHANGED <<snap, fetches>>
  <2>1. HookKept
    BY <1>5 DEF Finish, IInv, TypeOK, CopiesAreGood, LastRun, HookKept
  <2> QED BY <1>2, <1>5, <2>1, HookStep DEF Finish
<1> QED BY <1>3, <1>4, <1>5 DEF Finish

LEMMA IndexedStep ==
  ASSUME IInv, NEW r \in Rows, Indexed(r)
  PROVE  IInv'
<1>1. row' \in [Rows -> Value \cup {"none", "gone"}]
  BY DEF Indexed, IInv, TypeOK, Value
<1>2. TypeOK' /\ CopiesAreGood' /\ LastRun'
  BY <1>1 DEF Indexed, IInv, TypeOK, CopiesAreGood, LastRun
<1>3. OnlyTheGone'
  BY DEF Indexed, IInv, TypeOK, OnlyTheGone
<1> QED BY <1>2, <1>3 DEF IInv

\* What a page's own operations come down to.
PageStep(r) ==
  \/ Invite(r) \/ ChangeRole(r) \/ RemoveMember(r)
  \/ CreateKey(r) \/ RevokeKey(r)
  \/ AddEndpoint(r) \/ ToggleActive(r) \/ SendTest(r) \/ DeleteEndpoint(r)
  \/ CreateBase(r) \/ EditBase(r) \/ DeleteBase(r)
  \/ Upload(r) \/ DeleteDocument(r)

LEMMA PageStepAsks ==
  ASSUME IInv, NEW r \in Rows, PageStep(r)
  PROVE  IInv' /\ UNCHANGED snap
<1>1. Opposite(r) \in Value /\ "on" \in Value /\ "off" \in Value
  BY DEF Opposite, Value
<1>2. {"edit", "remove", "ping"} \subseteq Op /\ 0 \in 0..1
  BY DEF Op
<1>3. ASSUME NEW name, NEW val \in Value, NEW more \in 0..1, Add(name, r, val, more)
      PROVE  IInv' /\ UNCHANGED snap
  BY <1>3, AddStep DEF Add, Ask
<1>4. ASSUME NEW name, NEW op \in Op, NEW val \in Value, Click(name, op, r, val)
      PROVE  IInv' /\ UNCHANGED snap
  BY <1>4, ClickStep DEF Click, Ask
<1>5. CASE Invite(r) \/ CreateKey(r) \/ AddEndpoint(r) \/ CreateBase(r) \/ Upload(r)
  BY <1>1, <1>2, <1>3, <1>5 DEF Invite, CreateKey, AddEndpoint, CreateBase, Upload
<1>6. CASE ChangeRole(r) \/ RemoveMember(r) \/ RevokeKey(r) \/ ToggleActive(r)
           \/ SendTest(r) \/ DeleteEndpoint(r) \/ EditBase(r) \/ DeleteBase(r) \/ DeleteDocument(r)
  BY <1>1, <1>2, <1>4, <1>6 DEF ChangeRole, RemoveMember, RevokeKey, ToggleActive, SendTest,
     DeleteEndpoint, EditBase, DeleteBase, DeleteDocument
<1> QED BY <1>5, <1>6 DEF PageStep

-----------------------------------------------------------------------------
\* Every step keeps the invariant, and with it the order of the lists shown.
InOrder == snap'.org = snap.org /\ snap'.st = "data" => snap'.asof >= snap.asof

LEMMA StepInv == IInv /\ [Next]_vars => IInv' /\ InOrder
<1> SUFFICES ASSUME IInv, [Next]_vars PROVE IInv' /\ InOrder
  OBVIOUS
<1>1. snap \in Snap /\ snap.asof >= snap.asof
  BY DEF IInv, TypeOK, Snap
<1>2. ASSUME NEW f \in fetches, ServeFetch(f)
      PROVE  IInv' /\ InOrder
  <2> DEFINE g == [f EXCEPT !.st = "ok", !.rows = Listed(f.org), !.asof = clock]
  <2>1. f \in Fetch /\ f.org \in Orgs /\ clock \in Nat
    BY <1>2, ConsoleAssumption DEF IInv, TypeOK, Fetch
  <2>2. /\ Listed(f.org) \in Shown
        /\ \A r \in Rows : Listed(f.org)[r] # "no" => Home[r] = f.org /\ goneAt[r] = 0
    BY <2>1, ListedIsGood DEF IInv
  <2>3. /\ g \in Fetch /\ g.cancelled = f.cancelled
        /\ g.asof = clock /\ g.org = f.org /\ g.rows = Listed(f.org)
    BY <2>1, <2>2 DEF Fetch
  <2>4. Good(g, goneAt, clock)
    BY <2>1, <2>2, <2>3 DEF Good
  <2>5. HookKept
    BY <1>2, <2>3, <2>4, AnswerStep DEF ServeFetch
  <2> QED BY <1>1, <1>2, <2>5, HookStep DEF ServeFetch, InOrder, IInv, TypeOK
<1>3. ASSUME NEW f \in fetches, FailFetch(f)
      PROVE  IInv' /\ InOrder
  <2> DEFINE g == [f EXCEPT !.st = "failed"]
  <2>1. f \in Fetch /\ Good(f, goneAt, clock)
    BY <1>3 DEF IInv, TypeOK, CopiesAreGood
  <2>2. g \in Fetch /\ Good(g, goneAt, clock) /\ g.cancelled = f.cancelled /\ g.st = "failed"
    BY <2>1 DEF Fetch, Good
  <2>3. HookKept
    BY <1>3, <2>2, AnswerStep DEF FailFetch
  <2> QED BY <1>1, <1>3, <2>3, HookStep DEF FailFetch, InOrder, IInv, TypeOK
<1>4. ASSUME NEW f \in fetches, Arrive(f)
      PROVE  IInv' /\ InOrder
  <2>1. HookKept /\ InOrder
    BY <1>4, ArriveStep DEF InOrder
  <2> QED BY <1>4, <2>1, HookStep DEF Arrive, IInv, TypeOK
<1>5. ASSUME NEW org \in Orgs, Switch(org)
      PROVE  IInv' /\ InOrder
  <2>1. /\ fetches \in SUBSET Fetch /\ \A f \in fetches : Good(f, goneAt, clock)
        /\ page' \in [name: Pages, org: Orgs]
        /\ snap' \in Snap /\ Good(snap', goneAt, clock)
    BY <1>5 DEF Switch, IInv, TypeOK, CopiesAreGood
  <2>2. HookKept
    BY <1>5, <2>1, RerunStep DEF Switch
  <2> QED BY <1>1, <1>5, <2>2, HookStep DEF Switch, InOrder, IInv, TypeOK
<1>6. CASE Retry \/ Tick
  <2>1. Refetch /\ UNCHANGED <<page, row, clock, goneAt, acts>>
    BY <1>6 DEF Retry, Tick
  <2>2. snap'.asof = snap.asof
    BY <1>1, <2>1 DEF Refetch, Snap
  <2> QED BY <1>1, <2>1, <2>2, RefetchStep, HookStep DEF InOrder, IInv, TypeOK
<1>7. ASSUME NEW a \in acts, ServeAct(a)
      PROVE  IInv' /\ InOrder
  BY <1>1, <1>7, ServeActStep DEF ServeAct, InOrder
<1>8. ASSUME NEW a \in acts, Finish(a)
      PROVE  IInv' /\ InOrder
  BY <1>1, <1>8, FinishStep DEF InOrder, Snap
<1>9. ASSUME NEW r \in Rows, Indexed(r)
      PROVE  IInv' /\ InOrder
  BY <1>1, <1>9, IndexedStep DEF Indexed, InOrder
<1>10. ASSUME NEW r \in Rows, PageStep(r)
       PROVE  IInv' /\ InOrder
  BY <1>1, <1>10, PageStepAsks DEF InOrder
<1>11. CASE UNCHANGED vars
  BY <1>1, <1>11 DEF vars, IInv, TypeOK, CopiesAreGood, OnlyTheGone, LastRun, InOrder
<1> QED BY <1>2, <1>3, <1>4, <1>5, <1>6, <1>7, <1>8, <1>9, <1>10, <1>11 DEF Next, Network, PageStep

\* The variables of Console keep their types.
THEOREM TypesHold == Spec => []TypeOK
<1>1. IInv => TypeOK
  BY DEF IInv
<1> QED BY InitInv, StepInv, <1>1, PTL DEF Spec

\* Whatever is switched, asked for again and answered late: a page that is not
\* loading shows rows of the active organization only.
THEOREM RowsAreHome == Spec => []SettledRowsAreHome
<1>1. IInv => SettledRowsAreHome
  BY DEF IInv, CopiesAreGood, Good, SettledRowsAreHome, Settled
<1> QED BY InitInv, StepInv, <1>1, PTL DEF Spec

\* No late answer brings back a row that was gone when the list was read.
THEOREM GoneForGood == Spec => []DeletedStaysDeleted
<1>1. IInv => DeletedStaysDeleted
  BY DEF IInv, CopiesAreGood, Good, DeletedStaysDeleted
<1> QED BY InitInv, StepInv, <1>1, PTL DEF Spec

\* A list of an organization is replaced by a later one only.
THEOREM ListsInOrder == Spec => NeverOlder
<1>1. IInv /\ [Next]_vars =>
        [snap'.org = snap.org /\ snap'.st = "data" => snap'.asof >= snap.asof]_vars
  BY StepInv DEF InOrder
<1> QED BY InitInv, StepInv, <1>1, PTL DEF Spec, NeverOlder
=============================================================================
