-------------------------- MODULE MembershipProofs --------------------------
(***************************************************************************)
(* Proofs about Membership for every set of users and requests, every plan *)
(* and every set of roles callers may grant.                               *)
(***************************************************************************)
EXTENDS Membership, FiniteSetTheorems, TLAPS

\* What a request's position says about its arguments and about what it read.
RequestShape ==
  \A r \in Requests :
    /\ pc[r] # "idle" => job[r] \in Calls
    /\ pc[r] \in {"count", "exists", "insert"} => job[r].op = "invite"
    /\ pc[r] \in {"target", "evict", "commit"} => job[r].op \in {"change", "remove"}
    /\ pc[r] = "store" => seen[r] \in Allowed(job[r].op)

Typed == TypeOK /\ RequestShape

\* The founder's row is read as OWNER by everyone: no request that has passed
\* the target guard is about to write it.
FounderUntouched ==
  /\ FounderStaysOwner
  /\ \A r \in Requests : pc[r] \in {"evict", "commit"} => job[r].target # Founder

\* Committed, cached and about-to-be-cached roles were all held.
EveryRoleWasHeld ==
  /\ PrivilegesWereHeld
  /\ \A u \in Users : role[u] # Absent => role[u] \in held[u]
  /\ \A r \in Requests : pc[r] = "store" => seen[r] \in held[job[r].actor]

-----------------------------------------------------------------------------
LEMMA AllowedRoles ==
  ASSUME NEW op PROVE Allowed(op) \subseteq Roles
BY DEF Allowed, Roles

LEMMA InitTyped == Init => Typed
BY FounderIsUser DEF Init, Typed, TypeOK, RequestShape, Roles, Absent, Steps, Idle

LEMMA FinishTyped ==
  ASSUME Typed, NEW r \in Requests, Finish(r),
         role' \in [Users -> Roles \cup {Absent}],
         cache' \in [Users -> Roles \cup {Absent}],
         held' \in [Users -> SUBSET Roles]
  PROVE  Typed'
BY DEF Typed, TypeOK, RequestShape, Finish, GoTo, Steps, Idle

LEMMA ProceedTyped ==
  ASSUME Typed, NEW r \in Requests, Proceed(r), pc[r] # "idle",
         role' \in [Users -> Roles \cup {Absent}],
         cache' \in [Users -> Roles \cup {Absent}],
         held' \in [Users -> SUBSET Roles]
  PROVE  Typed'
<1>1. CASE job[r].op \in {"invite", "change", "remove"}
  BY <1>1 DEF Proceed, Typed, TypeOK, RequestShape, GoTo, Steps
<1>2. CASE job[r].op \notin {"invite", "change", "remove"}
  BY <1>2, FinishTyped DEF Proceed
<1> QED BY <1>1, <1>2

LEMMA WriteTyped ==
  ASSUME Typed, NEW u \in Users, NEW new \in Roles \cup {Absent}, Write(u, new)
  PROVE  /\ role' \in [Users -> Roles \cup {Absent}]
         /\ held' \in [Users -> SUBSET Roles]
BY DEF Typed, TypeOK, Write

LEMMA JobFields ==
  ASSUME Typed, NEW r \in Requests, pc[r] # "idle"
  PROVE  /\ job[r] \in Calls
         /\ job[r].actor \in Users
         /\ job[r].op \in {"invite", "change", "remove"} => job[r].target \in Users
         /\ job[r].op \in {"invite", "change"} => job[r].new \in Roles
BY GrantedAreRoles DEF Typed, RequestShape, Calls

LEMMA NextTyped == Typed /\ [Next]_vars => Typed'
<1> SUFFICES ASSUME Typed, [Next]_vars PROVE Typed'
  OBVIOUS
<1> USE DEF Typed
<1>1. ASSUME NEW r \in Requests, Begin(r) PROVE Typed'
  BY <1>1 DEF Begin, TypeOK, RequestShape, GoTo, Steps
<1>2. ASSUME NEW r \in Requests, LookupHit(r) PROVE Typed'
  BY <1>2, FinishTyped, ProceedTyped DEF LookupHit, TypeOK
<1>3. ASSUME NEW r \in Requests, LookupMiss(r) PROVE Typed'
  BY <1>3 DEF LookupMiss, TypeOK, RequestShape, GoTo, Steps
<1>4. ASSUME NEW r \in Requests, ReadActor(r) PROVE Typed'
  <2> DEFINE found == role[job[r].actor]
  <2>1. CASE found \in Allowed(job[r].op)
    BY <1>4, <2>1, AllowedRoles DEF ReadActor, TypeOK, RequestShape, GoTo, Steps
  <2>2. CASE found \notin Allowed(job[r].op)
    BY <1>4, <2>2, FinishTyped DEF ReadActor, TypeOK
  <2> QED BY <2>1, <2>2
<1>5. ASSUME NEW r \in Requests, StoreActor(r) PROVE Typed'
  <2>1. seen[r] \in Roles
    BY <1>5, AllowedRoles DEF StoreActor, RequestShape
  <2> QED BY <1>5, <2>1, ProceedTyped DEF StoreActor, TypeOK
<1>6. ASSUME NEW r \in Requests, CountSeats(r) PROVE Typed'
  <2>1. CASE Finish(r)
    BY <1>6, <2>1, FinishTyped DEF CountSeats, TypeOK
  <2>2. CASE GoTo(r, "exists") /\ UNCHANGED <<job, seen>>
    BY <1>6, <2>2 DEF CountSeats, TypeOK, RequestShape, GoTo, Steps
  <2> QED BY <1>6, <2>1, <2>2 DEF CountSeats
<1>7. ASSUME NEW r \in Requests, CheckInvitee(r) PROVE Typed'
  <2>1. CASE Finish(r)
    BY <1>7, <2>1, FinishTyped DEF CheckInvitee, TypeOK
  <2>2. CASE GoTo(r, "insert") /\ UNCHANGED <<job, seen>>
    BY <1>7, <2>2 DEF CheckInvitee, TypeOK, RequestShape, GoTo, Steps
  <2> QED BY <1>7, <2>1, <2>2 DEF CheckInvitee
<1>8. ASSUME NEW r \in Requests, InsertMember(r) PROVE Typed'
  <2>1. job[r].target \in Users /\ job[r].new \in Roles
    BY <1>8, JobFields DEF InsertMember, RequestShape
  <2> QED BY <1>8, <2>1, WriteTyped, FinishTyped DEF InsertMember, TypeOK
<1>9. ASSUME NEW r \in Requests, ReadTarget(r) PROVE Typed'
  <2>1. job[r].target \in Users
    BY <1>9, JobFields DEF ReadTarget, RequestShape
  <2>2. CASE Finish(r)
    BY <1>9, <2>2, FinishTyped DEF ReadTarget, TypeOK
  <2>3. CASE ~Finish(r)
    BY <1>9, <2>1, <2>3 DEF ReadTarget, TypeOK, RequestShape, GoTo, Steps
  <2> QED BY <2>2, <2>3
<1>10. ASSUME NEW r \in Requests, EvictTarget(r) PROVE Typed'
  BY <1>10 DEF EvictTarget, TypeOK, RequestShape, GoTo, Steps
<1>11. ASSUME NEW r \in Requests, CommitChange(r) PROVE Typed'
  <2>1. job[r].target \in Users /\ job[r].new \in Roles
    BY <1>11, JobFields DEF CommitChange
  <2> QED BY <1>11, <2>1, WriteTyped, FinishTyped DEF CommitChange, TypeOK
<1>12. ASSUME NEW r \in Requests, CommitRemove(r) PROVE Typed'
  <2>1. job[r].target \in Users
    BY <1>12, JobFields DEF CommitRemove
  <2> QED BY <1>12, <2>1, WriteTyped, FinishTyped DEF CommitRemove, TypeOK
<1>13. ASSUME NEW r \in Requests, Abort(r) PROVE Typed'
  BY <1>13, FinishTyped DEF Abort, TypeOK
<1>14. ASSUME NEW u \in Users, Expire(u) PROVE Typed'
  BY <1>14 DEF Expire, TypeOK, RequestShape
<1>15. CASE UNCHANGED vars
  BY <1>15 DEF vars, TypeOK, RequestShape
<1> QED
  BY <1>1, <1>2, <1>3, <1>4, <1>5, <1>6, <1>7, <1>8, <1>9, <1>10, <1>11, <1>12,
     <1>13, <1>14, <1>15 DEF Next, Guard, Operation

LEMMA TypedAlways == Spec => []Typed
BY InitTyped, NextTyped, PTL DEF Spec

\* Every variable stays in its domain (the guards of base.py and the member
\* operations of organization_service.py).
THEOREM TypeCorrect == Spec => []TypeOK
<1>1. Typed => TypeOK BY DEF Typed
<1> QED BY TypedAlways, <1>1, PTL

-----------------------------------------------------------------------------
LEMMA InitFounder == Init => FounderUntouched
BY FounderIsUser DEF Init, FounderUntouched, FounderStaysOwner

\* A step that moves requests without touching roles or the cache, keeping
\* the arguments of those still running, keeps the founder safe.
LEMMA NextFounder == Typed /\ FounderUntouched /\ [Next]_vars => FounderUntouched'
<1> SUFFICES ASSUME Typed, FounderUntouched, [Next]_vars PROVE FounderUntouched'
  OBVIOUS
<1> USE FounderIsUser DEF FounderUntouched, FounderStaysOwner
<1>0. /\ role \in [Users -> Roles \cup {Absent}]
      /\ cache \in [Users -> Roles \cup {Absent}]
      /\ pc \in [Requests -> Steps]
      /\ job \in [Requests -> Calls \cup {Idle}]
      /\ seen \in [Requests -> Roles \cup {Absent}]
  BY DEF Typed, TypeOK
<1>1. ASSUME NEW r \in Requests, Begin(r) PROVE FounderUntouched'
  BY <1>0, <1>1 DEF Begin, GoTo
<1>2. ASSUME NEW r \in Requests, LookupHit(r) PROVE FounderUntouched'
  BY <1>0, <1>2 DEF LookupHit, Proceed, Finish, GoTo
<1>3. ASSUME NEW r \in Requests, LookupMiss(r) PROVE FounderUntouched'
  BY <1>0, <1>3 DEF LookupMiss, GoTo
<1>4. ASSUME NEW r \in Requests, ReadActor(r) PROVE FounderUntouched'
  BY <1>0, <1>4 DEF ReadActor, Finish, GoTo
<1>5. ASSUME NEW r \in Requests, StoreActor(r) PROVE FounderUntouched'
  BY <1>0, <1>5 DEF StoreActor, Proceed, Finish, GoTo
<1>6. ASSUME NEW r \in Requests, CountSeats(r) \/ CheckInvitee(r) PROVE FounderUntouched'
  BY <1>0, <1>6 DEF CountSeats, CheckInvitee, Finish, GoTo
<1>7. ASSUME NEW r \in Requests, InsertMember(r) PROVE FounderUntouched'
  \* The founder has a row, so the insert is of someone else.
  BY <1>0, <1>7 DEF InsertMember, Write, Finish, GoTo, Absent
<1>8. ASSUME NEW r \in Requests, ReadTarget(r) PROVE FounderUntouched'
  \* The target's row is not OWNER, so the target is not the founder.
  BY <1>0, <1>8 DEF ReadTarget, Finish, GoTo
<1>9. ASSUME NEW r \in Requests, EvictTarget(r) PROVE FounderUntouched'
  BY <1>0, <1>9 DEF EvictTarget, GoTo
<1>10. ASSUME NEW r \in Requests, CommitChange(r) \/ CommitRemove(r) PROVE FounderUntouched'
  BY <1>0, <1>10 DEF CommitChange, CommitRemove, Write, Finish, GoTo
<1>11. ASSUME NEW r \in Requests, Abort(r) PROVE FounderUntouched'
  BY <1>0, <1>11 DEF Abort, Finish, GoTo
<1>12. ASSUME NEW u \in Users, Expire(u) PROVE FounderUntouched'
  BY <1>0, <1>12 DEF Expire
<1>13. CASE UNCHANGED vars
  BY <1>13 DEF vars
<1> QED
  BY <1>1, <1>2, <1>3, <1>4, <1>5, <1>6, <1>7, <1>8, <1>9, <1>10, <1>11, <1>12,
     <1>13 DEF Next, Guard, Operation

LEMMA FounderAlways == Spec => []FounderUntouched
BY TypedAlways, InitFounder, NextFounder, PTL DEF Spec

\* The organization always has an owner, and no cached or about-to-be-cached
\* role of its founder says otherwise: the OWNER guard of update_member_role
\* and remove_member suffices for the founder although it is checked on a row
\* read without a lock, because that row is never anything but OWNER.
THEOREM FounderSafe == Spec => []FounderStaysOwner
<1>1. FounderUntouched => FounderStaysOwner BY DEF FounderUntouched
<1> QED BY FounderAlways, <1>1, PTL

-----------------------------------------------------------------------------
LEMMA InitHeld == Init => EveryRoleWasHeld
BY DEF Init, EveryRoleWasHeld, PrivilegesWereHeld, Absent

\* A committed write only adds to what was held, and holds what it wrote.
LEMMA WriteHolds ==
  ASSUME Typed, NEW u \in Users, NEW new \in Roles \cup {Absent}, Write(u, new)
  PROVE  \A v \in Users :
           /\ held[v] \subseteq held'[v]
           /\ role'[v] # Absent => role'[v] = role[v] \/ role'[v] \in held'[v]
BY DEF Typed, TypeOK, Write

\* The end of a request that committed a write, or nothing, leaves the rest.
LEMMA CommitHolds ==
  ASSUME Typed, EveryRoleWasHeld, NEW r \in Requests, Finish(r), UNCHANGED cache,
         pc[r] # "idle",
         \A v \in Users :
           /\ held[v] \subseteq held'[v]
           /\ role'[v] # Absent => role'[v] = role[v] \/ role'[v] \in held'[v]
  PROVE  EveryRoleWasHeld'
<1>1. ASSUME NEW q \in Requests, pc'[q] # "idle"
      PROVE  q # r /\ pc'[q] = pc[q] /\ job'[q] = job[q] /\ seen'[q] = seen[q]
             /\ job[q].actor \in Users
  BY <1>1, JobFields DEF Typed, TypeOK, Finish, GoTo
<1>2. \A q \in Requests : pc'[q] = "store" => seen'[q] \in held'[job'[q].actor]
  BY <1>1 DEF EveryRoleWasHeld
<1>3. \A q \in Requests :
        pc'[q] \in {"count", "exists", "insert", "target", "evict", "commit"}
          => "OWNER" \in held'[job'[q].actor]
  BY <1>1 DEF EveryRoleWasHeld, PrivilegesWereHeld
<1>4. \A u \in Users : cache'[u] # Absent => cache'[u] \in held'[u]
  BY DEF EveryRoleWasHeld, PrivilegesWereHeld
<1>5. \A u \in Users : role'[u] # Absent => role'[u] \in held'[u]
  BY DEF EveryRoleWasHeld
<1> QED BY <1>2, <1>3, <1>4, <1>5 DEF EveryRoleWasHeld, PrivilegesWereHeld

LEMMA NextHeld == Typed /\ EveryRoleWasHeld /\ [Next]_vars => EveryRoleWasHeld'
<1> SUFFICES ASSUME Typed, EveryRoleWasHeld, [Next]_vars PROVE EveryRoleWasHeld'
  OBVIOUS
<1> USE DEF EveryRoleWasHeld, PrivilegesWereHeld
<1>0. /\ role \in [Users -> Roles \cup {Absent}]
      /\ cache \in [Users -> Roles \cup {Absent}]
      /\ pc \in [Requests -> Steps]
      /\ job \in [Requests -> Calls \cup {Idle}]
      /\ seen \in [Requests -> Roles \cup {Absent}]
      /\ held \in [Users -> SUBSET Roles]
  BY DEF Typed, TypeOK
<1>1. ASSUME NEW r \in Requests, Begin(r) PROVE EveryRoleWasHeld'
  BY <1>0, <1>1 DEF Begin, GoTo
<1>2. ASSUME NEW r \in Requests, LookupHit(r) PROVE EveryRoleWasHeld'
  \* Only OWNER is allowed to go on to an operation that writes the roster.
  <2>1. job[r].actor \in Users
    BY <1>2, JobFields DEF LookupHit
  <2> QED BY <1>0, <1>2, <2>1 DEF LookupHit, Proceed, Finish, GoTo, Allowed
<1>3. ASSUME NEW r \in Requests, LookupMiss(r) PROVE EveryRoleWasHeld'
  BY <1>0, <1>3 DEF LookupMiss, GoTo
<1>4. ASSUME NEW r \in Requests, ReadActor(r) PROVE EveryRoleWasHeld'
  <2>1. job[r].actor \in Users
    BY <1>4, JobFields DEF ReadActor
  <2>2. Absent \notin Allowed(job[r].op)
    BY AllowedRoles DEF Roles, Absent
  <2> QED BY <1>0, <1>4, <2>1, <2>2 DEF ReadActor, Finish, GoTo
<1>5. ASSUME NEW r \in Requests, StoreActor(r) PROVE EveryRoleWasHeld'
  <2>1. job[r].actor \in Users /\ seen[r] \in Allowed(job[r].op)
    BY <1>5, JobFields DEF StoreActor, Typed, RequestShape
  <2> QED BY <1>0, <1>5, <2>1 DEF StoreActor, Proceed, Finish, GoTo, Allowed
<1>6. ASSUME NEW r \in Requests, CountSeats(r) \/ CheckInvitee(r) PROVE EveryRoleWasHeld'
  BY <1>0, <1>6 DEF CountSeats, CheckInvitee, Finish, GoTo
<1>7. ASSUME NEW r \in Requests, InsertMember(r) PROVE EveryRoleWasHeld'
  <2>1. job[r].target \in Users /\ job[r].new \in Roles
    BY <1>7, JobFields DEF InsertMember, Typed, RequestShape
  <2> QED BY <1>7, <2>1, WriteHolds, CommitHolds DEF InsertMember
<1>8. ASSUME NEW r \in Requests, ReadTarget(r) PROVE EveryRoleWasHeld'
  BY <1>0, <1>8 DEF ReadTarget, Finish, GoTo
<1>9. ASSUME NEW r \in Requests, EvictTarget(r) PROVE EveryRoleWasHeld'
  BY <1>0, <1>9 DEF EvictTarget, GoTo
<1>10. ASSUME NEW r \in Requests, CommitChange(r) \/ CommitRemove(r) PROVE EveryRoleWasHeld'
  <2>1. job[r].target \in Users /\ (job[r].op = "change" => job[r].new \in Roles)
    BY <1>10, JobFields DEF CommitChange, CommitRemove
  <2> QED BY <1>10, <2>1, WriteHolds, CommitHolds DEF CommitChange, CommitRemove
<1>11. ASSUME NEW r \in Requests, Abort(r) PROVE EveryRoleWasHeld'
  BY <1>0, <1>11 DEF Abort, Finish, GoTo
<1>12. ASSUME NEW u \in Users, Expire(u) PROVE EveryRoleWasHeld'
  BY <1>0, <1>12 DEF Expire
<1>13. CASE UNCHANGED vars
  BY <1>13 DEF vars
<1> QED
  BY <1>1, <1>2, <1>3, <1>4, <1>5, <1>6, <1>7, <1>8, <1>9, <1>10, <1>11, <1>12,
     <1>13 DEF Next, Guard, Operation

\* No interleaving of cache fills, evictions and commits gives a user a role
\* that user never had, and nobody who never was OWNER writes the roster.
THEOREM PrivilegesSafe == Spec => []PrivilegesWereHeld
<1>1. EveryRoleWasHeld => PrivilegesWereHeld BY DEF EveryRoleWasHeld
<1>2. Spec => []EveryRoleWasHeld
  BY TypedAlways, InitHeld, NextHeld, PTL DEF Spec
<1> QED BY <1>1, <1>2, PTL

-----------------------------------------------------------------------------
\* Requests that found a free seat and have not inserted yet.
Invited == {r \in Requests : pc[r] \in {"exists", "insert"}}

\* The strengthening of SeatsBounded: the seats taken and the seats promised.
\* A request that counts a free seat leaves at most one seat fewer than the
\* plan taken, and the promises are at most one per request; an insertion
\* turns a promise into a seat.
SeatsPromised ==
  Cardinality(Members) + Cardinality(Invited)
    <= MaxMembers + Cardinality(Requests) - 1

LEMMA FiniteCounts ==
  /\ IsFiniteSet(Members) /\ Cardinality(Members) \in Nat
  /\ IsFiniteSet(Invited) /\ Cardinality(Invited) \in Nat
  /\ Cardinality(Requests) \in Nat \ {0}
<1>1. Members \subseteq Users /\ Invited \subseteq Requests
  BY DEF Members, Invited
<1>2. IsFiniteSet(Members) /\ IsFiniteSet(Invited)
  BY <1>1, UsersFinite, SomeRequests, FS_Subset
<1>3. Cardinality(Requests) # 0
  BY SomeRequests, FS_EmptySet
<1> QED BY <1>2, <1>3, SomeRequests, FS_CardinalityType

LEMMA FiniteCountsNext ==
  /\ IsFiniteSet(Members') /\ Cardinality(Members') \in Nat
  /\ IsFiniteSet(Invited') /\ Cardinality(Invited') \in Nat
<1>1. Members' \subseteq Users /\ Invited' \subseteq Requests
  BY DEF Members, Invited
<1>2. IsFiniteSet(Members') /\ IsFiniteSet(Invited')
  BY <1>1, UsersFinite, SomeRequests, FS_Subset
<1> QED BY <1>2, FS_CardinalityType

\* Neither count can grow when neither set does.
LEMMA SeatsShrink ==
  ASSUME SeatsPromised, Members' \subseteq Members, Invited' \subseteq Invited
  PROVE  SeatsPromised'
<1>1. /\ Cardinality(Members') <= Cardinality(Members)
      /\ Cardinality(Invited') <= Cardinality(Invited)
  BY FiniteCounts, FS_Subset
<1> QED
  BY <1>1, FiniteCounts, FiniteCountsNext, PlanHasASeat DEF SeatsPromised

LEMMA InitSeats == Init => SeatsPromised
<1> SUFFICES ASSUME Init PROVE SeatsPromised
  OBVIOUS
<1>1. Members = {Founder} /\ Invited = {}
  BY FounderIsUser DEF Init, Members, Invited, Absent
<1>2. Cardinality({Founder}) = 1 /\ Cardinality({}) = 0
  BY FS_Singleton, FS_EmptySet
<1> QED
  BY <1>1, <1>2, FiniteCounts, PlanHasASeat DEF SeatsPromised

LEMMA NextSeats == Typed /\ SeatsPromised /\ [Next]_vars => SeatsPromised'
<1> SUFFICES ASSUME Typed, SeatsPromised, [Next]_vars PROVE SeatsPromised'
  OBVIOUS
<1>0. pc \in [Requests -> Steps] /\ role \in [Users -> Roles \cup {Absent}]
  BY DEF Typed, TypeOK
<1>1. ASSUME NEW r \in Requests, CountSeats(r) PROVE SeatsPromised'
  <2>1. CASE Cardinality(Members) < MaxMembers
    <3>1. Members' = Members /\ Invited' \subseteq Requests
      BY <1>1 DEF CountSeats, Members, Invited
    <3>2. Cardinality(Invited') <= Cardinality(Requests)
      BY <3>1, SomeRequests, FS_Subset
    <3> QED
      BY <2>1, <3>1, <3>2, FiniteCounts, FiniteCountsNext, PlanHasASeat DEF SeatsPromised
  <2>2. CASE ~(Cardinality(Members) < MaxMembers)
    <3>1. Members' \subseteq Members /\ Invited' \subseteq Invited
      BY <1>0, <1>1, <2>2 DEF CountSeats, Finish, GoTo, Members, Invited
    <3> QED BY <3>1, SeatsShrink
  <2> QED BY <2>1, <2>2
<1>2. ASSUME NEW r \in Requests, InsertMember(r) PROVE SeatsPromised'
  <2> DEFINE t == job[r].target
  <2>1. t \in Users /\ r \in Invited
    BY <1>2, JobFields DEF InsertMember, Invited, Typed, RequestShape
  <2>2. Invited' = Invited \ {r}
    BY <1>0, <1>2 DEF InsertMember, Finish, GoTo, Invited
  <2>3. Cardinality(Invited') = Cardinality(Invited) - 1
    BY <2>1, <2>2, FiniteCounts, FS_RemoveElement
  <2>4. Members' \subseteq Members \cup {t}
    <3>1. \A u \in Users \ {t} : role'[u] = role[u]
      BY <1>0, <1>2, <2>1 DEF InsertMember, Write
    <3> QED BY <3>1 DEF Members
  <2>5. /\ Cardinality(Members \cup {t}) <= Cardinality(Members) + 1
        /\ IsFiniteSet(Members \cup {t})
    <3> HIDE DEF t
    <3>1. /\ IsFiniteSet(Members \cup {t})
          /\ Cardinality(Members \cup {t})
               = IF t \in Members THEN Cardinality(Members) ELSE Cardinality(Members) + 1
      BY FiniteCounts, FS_AddElement
    <3> QED BY <3>1, FiniteCounts
  <2>6. Cardinality(Members') <= Cardinality(Members \cup {t})
    BY <2>4, <2>5, FS_Subset
  <2>7. Cardinality(Members \cup {t}) \in Nat
    BY <2>5, FS_CardinalityType
  <2> QED
    BY <2>3, <2>5, <2>6, <2>7, FiniteCounts, FiniteCountsNext, PlanHasASeat DEF SeatsPromised
<1>3. ASSUME NEW r \in Requests,
             Begin(r) \/ Guard(r) \/ CheckInvitee(r) \/ ReadTarget(r) \/ EvictTarget(r) \/ Abort(r)
      PROVE  SeatsPromised'
  <2>1. Members' = Members /\ Invited' \subseteq Invited
    BY <1>0, <1>3 DEF Begin, Guard, LookupHit, LookupMiss, ReadActor, StoreActor, Proceed,
       CheckInvitee, ReadTarget, EvictTarget, Abort, Finish, GoTo, Members, Invited
  <2> QED BY <2>1, SeatsShrink
<1>4. ASSUME NEW r \in Requests, CommitChange(r) \/ CommitRemove(r) PROVE SeatsPromised'
  <2>1. Members' \subseteq Members /\ Invited' \subseteq Invited
    BY <1>0, <1>4 DEF CommitChange, CommitRemove, Write, Finish, GoTo, Members, Invited, Absent
  <2> QED BY <2>1, SeatsShrink
<1>5. ASSUME NEW u \in Users, Expire(u) PROVE SeatsPromised'
  BY <1>5, SeatsShrink DEF Expire, Members, Invited
<1>6. CASE UNCHANGED vars
  BY <1>6, SeatsShrink DEF vars, Members, Invited
<1> QED BY <1>1, <1>2, <1>3, <1>4, <1>5, <1>6 DEF Next, Operation

\* invite_member counts, checks and inserts without a lock, so concurrent
\* invitations can exceed max_members; the excess is at most one less than
\* the number of requests in flight.
THEOREM SeatsSafe == Spec => []SeatsBounded
<1>1. SeatsPromised => SeatsBounded
  BY FiniteCounts, PlanHasASeat DEF SeatsPromised, SeatsBounded
<1> QED BY TypedAlways, InitSeats, NextSeats, <1>1, PTL DEF Spec

-----------------------------------------------------------------------------
\* The three operations, interleaved with every guard and cache step, do to
\* the member table only what Roster allows; in particular nothing ever
\* writes the founder's row.
THEOREM ImplementsRoster == Spec => RosterSpec
<1>1. Init => Table!Init
  BY DEF Init, Table!Init
<1>2. Typed /\ FounderUntouched /\ [Next]_vars => [Table!Next]_role
  <2> SUFFICES ASSUME Typed, FounderUntouched, [Next]_vars, role' # role
               PROVE  Table!Next
    OBVIOUS
  <2>1. ASSUME NEW r \in Requests, InsertMember(r) PROVE Table!Next
    <3>1. job[r].target \in Users /\ job[r].new \in Roles
      BY <2>1, JobFields DEF InsertMember, Typed, RequestShape
    <3> QED BY <2>1, <3>1 DEF InsertMember, Write, Table!Next, Table!Invite
  <2>2. ASSUME NEW r \in Requests, CommitChange(r) PROVE Table!Next
    <3>1. /\ job[r].target \in Users /\ job[r].new \in Roles
          /\ job[r].target # Founder
      BY <2>2, JobFields DEF CommitChange, FounderUntouched
    <3> QED BY <2>2, <3>1 DEF CommitChange, Write, Table!Next, Table!ChangeRole
  <2>3. ASSUME NEW r \in Requests, CommitRemove(r) PROVE Table!Next
    <3>1. job[r].target \in Users /\ job[r].target # Founder
      BY <2>3, JobFields DEF CommitRemove, FounderUntouched
    <3> QED BY <2>3, <3>1 DEF CommitRemove, Write, Table!Next, Table!Remove
  <2> QED
    BY <2>1, <2>2, <2>3 DEF Next, Guard, Operation, Begin, LookupHit, LookupMiss,
       ReadActor, StoreActor, CountSeats, CheckInvitee, ReadTarget, EvictTarget,
       Abort, Expire, vars
<1> QED
  BY TypedAlways, FounderAlways, <1>1, <1>2, PTL DEF Spec, RosterSpec, Table!Spec

-----------------------------------------------------------------------------
(* One request at a time: what it read is what there is.                   *)

OneRequest == \A p, q \in Requests : p = q

CoherentSteps ==
  /\ CacheCoherent
  /\ \A r \in Requests :
       /\ pc[r] = "store" => seen[r] = role[job[r].actor]
       /\ pc[r] \in {"evict", "commit"} => role[job[r].target] \notin {Absent, "OWNER"}
       /\ pc[r] = "commit" => cache[job[r].target] = Absent

LEMMA InitCoherent == Init => CoherentSteps
BY DEF Init, CoherentSteps, CacheCoherent

\* The step of the only request, or of the cache's clock: the roster and the
\* cached roles are the business of one user at a time.
LEMMA NextCoherent ==
  ASSUME OneRequest, Typed, CoherentSteps, [Next]_vars
  PROVE  CoherentSteps'
<1> USE DEF CoherentSteps, CacheCoherent
<1>0. /\ role \in [Users -> Roles \cup {Absent}]
      /\ cache \in [Users -> Roles \cup {Absent}]
      /\ pc \in [Requests -> Steps]
      /\ job \in [Requests -> Calls \cup {Idle}]
      /\ seen \in [Requests -> Roles \cup {Absent}]
  BY DEF Typed, TypeOK
<1>a. ASSUME NEW r \in Requests, role' = role, cache' = cache, Finish(r) PROVE CoherentSteps'
  BY <1>0, <1>a DEF Finish, GoTo, OneRequest
<1>b. ASSUME NEW r \in Requests, CacheCoherent', pc' = [pc EXCEPT ![r] = "idle"]
      PROVE  CoherentSteps'
  BY <1>0, <1>b DEF OneRequest
<1>1. ASSUME NEW r \in Requests, Begin(r) PROVE CoherentSteps'
  BY <1>0, <1>1 DEF Begin, GoTo, OneRequest
<1>2. ASSUME NEW r \in Requests, LookupHit(r) PROVE CoherentSteps'
  BY <1>0, <1>2 DEF LookupHit, Proceed, Finish, GoTo, OneRequest
<1>3. ASSUME NEW r \in Requests, LookupMiss(r) PROVE CoherentSteps'
  BY <1>0, <1>3 DEF LookupMiss, GoTo, OneRequest
<1>4. ASSUME NEW r \in Requests, ReadActor(r) PROVE CoherentSteps'
  BY <1>0, <1>4 DEF ReadActor, Finish, GoTo, OneRequest
<1>5. ASSUME NEW r \in Requests, StoreActor(r) PROVE CoherentSteps'
  <2>1. job[r].actor \in Users /\ seen[r] = role[job[r].actor]
    BY <1>5, JobFields DEF StoreActor
  <2>2. CacheCoherent'
    BY <1>0, <1>5, <2>1 DEF StoreActor
  <2>3. pc'[r] \notin {"store", "evict", "commit"}
    BY <1>0, <1>5 DEF StoreActor, Proceed, Finish, GoTo
  <2> QED BY <2>2, <2>3 DEF OneRequest
<1>6. ASSUME NEW r \in Requests, CountSeats(r) \/ CheckInvitee(r) PROVE CoherentSteps'
  BY <1>0, <1>6 DEF CountSeats, CheckInvitee, Finish, GoTo, OneRequest
<1>7. ASSUME NEW r \in Requests, InsertMember(r) PROVE CoherentSteps'
  \* Who has no row has no cached role either.
  <2>1. CacheCoherent'
    BY <1>0, <1>7 DEF InsertMember, Write
  <2> QED BY <1>7, <2>1, <1>b DEF InsertMember, Finish, GoTo
<1>8. ASSUME NEW r \in Requests, ReadTarget(r) PROVE CoherentSteps'
  BY <1>0, <1>8 DEF ReadTarget, Finish, GoTo, OneRequest
<1>9. ASSUME NEW r \in Requests, EvictTarget(r) PROVE CoherentSteps'
  <2>1. job[r].target \in Users
    BY <1>9, JobFields DEF EvictTarget, Typed, RequestShape
  <2> QED BY <1>0, <1>9, <2>1 DEF EvictTarget, GoTo, OneRequest
<1>10. ASSUME NEW r \in Requests, CommitChange(r) \/ CommitRemove(r) PROVE CoherentSteps'
  \* The target's cached role was evicted and nobody stored another.
  <2>1. CacheCoherent'
    BY <1>0, <1>10 DEF CommitChange, CommitRemove, Write
  <2> QED BY <1>10, <2>1, <1>b DEF CommitChange, CommitRemove, Finish, GoTo
<1>11. ASSUME NEW r \in Requests, Abort(r) PROVE CoherentSteps'
  BY <1>11, <1>a DEF Abort
<1>12. ASSUME NEW u \in Users, Expire(u) PROVE CoherentSteps'
  BY <1>0, <1>12 DEF Expire
<1>13. CASE UNCHANGED vars
  BY <1>13 DEF vars
<1> QED
  BY <1>1, <1>2, <1>3, <1>4, <1>5, <1>6, <1>7, <1>8, <1>9, <1>10, <1>11, <1>12,
     <1>13 DEF Next, Guard, Operation

\* With one request at a time, for any users and plan: a cached role is the
\* committed one (the comment in remove_member is right then), because between the
\* eviction of a role and the commit that changes it nobody stores it again.
THEOREM CoherentWhenAlone == ASSUME OneRequest PROVE Spec => []CacheCoherent
<1>1. Typed /\ CoherentSteps /\ [Next]_vars => CoherentSteps'
  BY NextCoherent
<1>2. CoherentSteps => CacheCoherent
  BY DEF CoherentSteps
<1> QED BY TypedAlways, InitCoherent, <1>1, <1>2, PTL DEF Spec

\* With one request at a time no OWNER loses the role: the target's row is read
\* without a lock, but nobody writes it before the commit.
THEOREM OwnersStayWhenAlone == ASSUME OneRequest PROVE Spec => OwnersKeepTheirRole
<1>1. Typed /\ CoherentSteps /\ [Next]_vars => CoherentSteps'
  BY NextCoherent
<1>2. Typed /\ CoherentSteps /\ [Next]_vars
        => [\A u \in Users : role[u] = "OWNER" => role'[u] = "OWNER"]_vars
  <2> SUFFICES ASSUME Typed, CoherentSteps, [Next]_vars, NEW u \in Users, role[u] = "OWNER"
               PROVE  role'[u] = "OWNER"
    OBVIOUS
  <2>0. role \in [Users -> Roles \cup {Absent}]
    BY DEF Typed, TypeOK
  <2>1. ASSUME NEW r \in Requests, InsertMember(r) PROVE role'[u] = "OWNER"
    BY <2>0, <2>1 DEF InsertMember, Write, Absent
  <2>2. ASSUME NEW r \in Requests, CommitChange(r) \/ CommitRemove(r) PROVE role'[u] = "OWNER"
    BY <2>0, <2>2 DEF CommitChange, CommitRemove, Write, CoherentSteps
  <2>3. CASE UNCHANGED role
    BY <2>3
  <2> QED BY <2>1, <2>2, <2>3 DEF Next, Guard, Operation, vars, Begin, LookupHit, LookupMiss,
             ReadActor, StoreActor, CountSeats, CheckInvitee, ReadTarget, EvictTarget, Abort, Expire
<1> QED BY TypedAlways, InitCoherent, <1>1, <1>2, PTL DEF Spec, OwnersKeepTheirRole
=============================================================================
