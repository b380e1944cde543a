----------------------------- MODULE Membership -----------------------------
(***************************************************************************)
(* Membership of one organization: the authorization guards every service  *)
(* calls first (BaseService._require_member / _require_admin /             *)
(* _require_owner), the Redis role cache they read through, and the three  *)
(* operations that write organization_members (invite_member,              *)
(* update_member_role, remove_member).                                     *)
(*                                                                         *)
(* A request is a coroutine with its own database session: it is cut at    *)
(* every await that touches shared state, so requests interleave between   *)
(* the cache GET, the SELECTs, the cache SET, the cache DEL and the COMMIT.*)
(* The guard's two SELECTs are one step: whichever of them first finds no  *)
(* row refuses, and otherwise the second one's row decides, so every       *)
(* outcome of the pair is the outcome of one read at one of the two times. *)
(***************************************************************************)
EXTENDS Naturals, FiniteSets

CONSTANTS Users,       \* registered users
          Founder,     \* creator of the organization, its first OWNER
          Requests,    \* request slots: how many requests are in flight at once
          Granted,     \* roles a caller may name in an invite or an update
          MaxMembers   \* max_members of the organization's plan

Roles  == {"OWNER", "ADMIN", "MEMBER", "SUPPORT"}
Absent == "ABSENT"     \* no row, or no cached value

ASSUME FounderIsUser     == Founder \in Users
ASSUME GrantedAreRoles   == Granted \subseteq Roles
ASSUME PlanHasASeat  == MaxMembers \in Nat \ {0}
ASSUME UsersFinite       == IsFiniteSet(Users)
ASSUME SomeRequests      == IsFiniteSet(Requests) /\ Requests # {}

\* What a request was asked to do: "view", "administer" and "own" stand for
\* any service call guarded by _require_member, _require_admin and
\* _require_owner that leaves the member table alone.
Calls == [op : {"view", "administer", "own"}, actor : Users]
         \cup [op : {"remove"}, actor : Users, target : Users]
         \cup [op : {"invite", "change"}, actor : Users, target : Users, new : Granted]
Idle  == [op |-> "none"]

VARIABLES
  role,   \* role[u]: committed row of organization_members, or Absent
  cache,  \* cache[u]: Redis cache:member:<org>:<u>, or Absent
  pc,     \* pc[r]: the await request r will perform next
  job,    \* job[r]: arguments of request r
  seen,   \* seen[r]: the role request r read from the database
  held    \* history: every role u's row has ever been committed with

vars == <<role, cache, pc, job, seen, held>>

Steps == {"idle", "lookup", "read", "store", "count", "exists", "insert",
          "target", "evict", "commit"}

\* The roles each guard lets through.
Allowed(op) ==
  CASE op = "view"       -> Roles
    [] op = "administer" -> {"OWNER", "ADMIN"}
    [] OTHER             -> {"OWNER"}

Members == {u \in Users : role[u] # Absent}

-----------------------------------------------------------------------------
\* OrganizationService.create: the creator becomes OWNER.
Init ==
  /\ role  = [u \in Users |-> IF u = Founder THEN "OWNER" ELSE Absent]
  /\ cache = [u \in Users |-> Absent]
  /\ pc    = [r \in Requests |-> "idle"]
  /\ job   = [r \in Requests |-> Idle]
  /\ seen  = [r \in Requests |-> Absent]
  /\ held  = [u \in Users |-> IF u = Founder THEN {"OWNER"} ELSE {}]

GoTo(r, step) == pc' = [pc EXCEPT ![r] = step]

\* The request answers, or raises and rolls its session back.
Finish(r) ==
  /\ GoTo(r, "idle")
  /\ job'  = [job EXCEPT ![r] = Idle]
  /\ seen' = [seen EXCEPT ![r] = Absent]

\* The guard returned: the operation behind it starts.
Proceed(r) ==
  IF job[r].op \in {"invite", "change", "remove"}
    THEN /\ GoTo(r, IF job[r].op = "invite" THEN "count" ELSE "target")
         /\ seen' = [seen EXCEPT ![r] = Absent]
         /\ UNCHANGED job
    ELSE Finish(r)

Write(u, new) ==
  /\ role' = [role EXCEPT ![u] = new]
  /\ held' = [held EXCEPT ![u] = @ \cup ({new} \ {Absent})]

-----------------------------------------------------------------------------
Begin(r) ==
  /\ pc[r] = "idle"
  /\ \E j \in Calls : job' = [job EXCEPT ![r] = j]
  /\ GoTo(r, "lookup")
  /\ UNCHANGED <<role, cache, seen, held>>

\* Mutant: any cached role passes, whatever the operation needs.
LookupHitAnyRole(r) ==
  /\ pc[r] = "lookup"
  /\ cache[job[r].actor] # Absent
  /\ Proceed(r)
  /\ UNCHANGED <<role, cache, held>>

\* GET of the cached role; a hit decides without the database.
LookupHit(r) ==
  LET cached == cache[job[r].actor] IN
  /\ pc[r] = "lookup"
  /\ cached # Absent
  /\ IF cached \in Allowed(job[r].op) THEN Proceed(r) ELSE Finish(r)
  /\ UNCHANGED <<role, cache, held>>

LookupMiss(r) ==
  /\ pc[r] = "lookup"
  /\ cache[job[r].actor] = Absent
  /\ GoTo(r, "read")
  /\ UNCHANGED <<role, cache, job, seen, held>>

ReadActor(r) ==
  LET found == role[job[r].actor] IN
  /\ pc[r] = "read"
  /\ IF found \in Allowed(job[r].op)
       THEN /\ GoTo(r, "store")
            /\ seen' = [seen EXCEPT ![r] = found]
            /\ UNCHANGED job
       ELSE Finish(r)
  /\ UNCHANGED <<role, cache, held>>

\* SET of the role read one step earlier, with a TTL of one hour.
StoreActor(r) ==
  /\ pc[r] = "store"
  /\ cache' = [cache EXCEPT ![job[r].actor] = seen[r]]
  /\ Proceed(r)
  /\ UNCHANGED <<role, held>>

-----------------------------------------------------------------------------
\* invite_member: the seat count is compared with the plan ...
CountSeats(r) ==
  /\ pc[r] = "count"
  /\ IF Cardinality(Members) < MaxMembers
       THEN GoTo(r, "exists") /\ UNCHANGED <<job, seen>>
       ELSE Finish(r)
  /\ UNCHANGED <<role, cache, held>>

\* ... the invited user must not be a member yet ...
CheckInvitee(r) ==
  /\ pc[r] = "exists"
  /\ IF role[job[r].target] = Absent
       THEN GoTo(r, "insert") /\ UNCHANGED <<job, seen>>
       ELSE Finish(r)
  /\ UNCHANGED <<role, cache, held>>

\* ... and INSERT and COMMIT fail on the primary key if one appeared since.
InsertMember(r) ==
  /\ pc[r] = "insert"
  /\ IF role[job[r].target] = Absent
       THEN Write(job[r].target, job[r].new)
       ELSE UNCHANGED <<role, held>>
  /\ Finish(r)
  /\ UNCHANGED cache

\* Mutant: an OWNER may be the target.
ReadTargetAnyRole(r) ==
  LET t == job[r].target IN
  /\ pc[r] = "target"
  /\ IF role[t] # Absent /\ t # job[r].actor
       THEN /\ GoTo(r, "evict")
            /\ seen' = [seen EXCEPT ![r] = role[t]]
            /\ UNCHANGED job
       ELSE Finish(r)
  /\ UNCHANGED <<role, cache, held>>

\* update_member_role and remove_member load the target's row and refuse an
\* absent member, an OWNER, and the caller.
ReadTarget(r) ==
  LET t == job[r].target IN
  /\ pc[r] = "target"
  /\ IF role[t] \notin {Absent, "OWNER"} /\ t # job[r].actor
       THEN /\ GoTo(r, "evict")
            /\ seen' = [seen EXCEPT ![r] = role[t]]
            /\ UNCHANGED job
       ELSE Finish(r)
  /\ UNCHANGED <<role, cache, held>>

\* Mutant: the cached role of the target is left in place.
EvictNothing(r) ==
  /\ pc[r] = "evict"
  /\ GoTo(r, "commit")
  /\ UNCHANGED <<role, cache, job, seen, held>>

\* DEL of the target's cached role, before the commit that changes the row.
EvictTarget(r) ==
  /\ pc[r] = "evict"
  /\ cache' = [cache EXCEPT ![job[r].target] = Absent]
  /\ GoTo(r, "commit")
  /\ UNCHANGED <<role, job, seen, held>>

\* The flush emits an UPDATE only when the new role differs from the loaded
\* one, and raises when the row is gone.
CommitChange(r) ==
  LET t == job[r].target IN
  /\ pc[r] = "commit"
  /\ job[r].op = "change"
  /\ IF job[r].new # seen[r] /\ role[t] # Absent
       THEN Write(t, job[r].new)
       ELSE UNCHANGED <<role, held>>
  /\ Finish(r)
  /\ UNCHANGED cache

\* The DELETE matches the row by its key, whatever role it has by now.
CommitRemove(r) ==
  /\ pc[r] = "commit"
  /\ job[r].op = "remove"
  /\ Write(job[r].target, Absent)
  /\ Finish(r)
  /\ UNCHANGED cache

\* A database or Redis error, a disconnect or a restart ends the request;
\* what it has not committed is rolled back.
Abort(r) ==
  /\ pc[r] # "idle"
  /\ Finish(r)
  /\ UNCHANGED <<role, cache, held>>

\* Mutant: roles are stored without a TTL, only an empty entry can go.
ExpireNever(u) ==
  /\ cache[u] = Absent
  /\ UNCHANGED vars

\* The TTL of a cached role runs out.
Expire(u) ==
  /\ cache[u] # Absent
  /\ cache' = [cache EXCEPT ![u] = Absent]
  /\ UNCHANGED <<role, pc, job, seen, held>>

-----------------------------------------------------------------------------
Guard(r) == LookupHit(r) \/ LookupMiss(r) \/ ReadActor(r) \/ StoreActor(r)

Operation(r) ==
  \/ CountSeats(r) \/ CheckInvitee(r) \/ InsertMember(r)
  \/ ReadTarget(r) \/ EvictTarget(r) \/ CommitChange(r) \/ CommitRemove(r)

Next ==
  \/ \E r \in Requests : Begin(r) \/ Guard(r) \/ Operation(r) \/ Abort(r)
  \/ \E u \in Users : Expire(u)

\* The event loop runs every started request to its end, and Redis expires
\* every key that carries a TTL.
Fairness ==
  /\ \A r \in Requests : WF_vars(Guard(r) \/ Operation(r))
  /\ \A u \in Users : WF_vars(Expire(u))

Spec     == Init /\ [][Next]_vars
FairSpec == Spec /\ Fairness

-----------------------------------------------------------------------------
\* Every variable stays in its domain.
TypeOK ==
  /\ role  \in [Users -> Roles \cup {Absent}]
  /\ cache \in [Users -> Roles \cup {Absent}]
  /\ pc    \in [Requests -> Steps]
  /\ job   \in [Requests -> Calls \cup {Idle}]
  /\ seen  \in [Requests -> Roles \cup {Absent}]
  /\ held  \in [Users -> SUBSET Roles]

\* The organization is never left without an owner: its founder stays OWNER,
\* and no cached role or role about to be cached ever says otherwise, in
\* spite of the unlocked read-then-write of update_member_role and
\* remove_member.
FounderStaysOwner ==
  /\ role[Founder] = "OWNER"
  /\ cache[Founder] \in {Absent, "OWNER"}
  /\ \A r \in Requests :
       pc[r] = "store" /\ job[r].actor = Founder => seen[r] = "OWNER"

\* The cache may be late but it never invents a privilege: a cached role was
\* the user's committed role at some time, and only a user who was OWNER at
\* some time gets past the guard of an operation that writes the roster.
PrivilegesWereHeld ==
  /\ \A u \in Users : cache[u] # Absent => cache[u] \in held[u]
  /\ \A r \in Requests :
       pc[r] \in {"count", "exists", "insert", "target", "evict", "commit"}
         => "OWNER" \in held[job[r].actor]

\* Invitations that counted the seats before their rivals inserted can exceed
\* max_members, but by no more than the other requests in flight: with one
\* request at a time the plan is respected exactly.
SeatsBounded ==
  Cardinality(Members) <= MaxMembers + Cardinality(Requests) - 1

\* With one request at a time the eviction does its job: a cached role is
\* always the committed one.
CacheCoherent == \A u \in Users : cache[u] \in {Absent, role[u]}

\* With one request at a time an OWNER is neither demoted nor removed.
OwnersKeepTheirRole ==
  [][\A u \in Users : role[u] = "OWNER" => role'[u] = "OWNER"]_vars

\* Staleness ends: either requests that write the roster keep coming for
\* ever, or from some time on every cached role is the committed one, because
\* each entry was stored with a TTL that a hit does not extend.
Writing == \E r \in Requests : pc[r] \in {"insert", "evict", "commit"}
CacheSettles == []<>Writing \/ <>[]CacheCoherent

\* The comment in remove_member: a removed member cannot pass auth checks via
\* stale cache.
RemovedMemberIsNotCached ==
  \A u \in Users : role[u] = Absent => cache[u] = Absent

\* The roster seen through the commits alone.
Table == INSTANCE Roster WITH Owner <- "OWNER"
RosterSpec == Table!Spec
=============================================================================
