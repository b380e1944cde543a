------------------------------ MODULE Console ------------------------------
(***************************************************************************)
(* A visit to one of the dashboard's list pages (members, API keys,        *)
(* webhooks, knowledge bases, the documents of a base): the useResource    *)
(* hook that loads and reloads its rows, the useAsyncAction mutations that *)
(* change them here and there, polling, and the organization being         *)
(* switched under the page.                                                *)
(*                                                                         *)
(* Answers arrive in any order.  A request key is "deps::reloadCount"; a   *)
(* snapshot or a fetch carries its organization and whether the reload     *)
(* count is still the one of its key.                                      *)
(***************************************************************************)
EXTENDS Naturals, FiniteSets

CONSTANTS Orgs,        \* organizations of the viewer
          Rows,        \* rows there are or may be created
          Home,        \* the organization a row belongs to
          Pages,       \* the pages visited
          MaxFetches,  \* bound on the fetches under way when another starts
          MaxActs,     \* bound on the mutations under way
          MaxWrites    \* bound on the writes of the backend

ASSUME ConsoleAssumption ==
  /\ Home \in [Rows -> Orgs]
  /\ Pages \subseteq {"members", "keys", "webhooks", "bases", "documents"}
  /\ MaxFetches \in Nat /\ MaxActs \in Nat /\ MaxWrites \in Nat

VARIABLES
  page,     \* the page visited, the active organization
  row,      \* backend: a row's value: "none" yet, "off", "on" or "gone"
  clock,    \* backend: number of writes so far
  goneAt,   \* the write that removed a row (0: none)
  snap,     \* useResource: the snapshot
  fetches,  \* useResource: fetches under way
  acts      \* mutations under way

vars == <<page, row, clock, goneAt, snap, fetches, acts>>

\* "on": an ADMIN, an active key, an active endpoint, a document that is READY
\* or FAILED.  "off": another role, revoked, inactive, PROCESSING.
Value == {"off", "on"}
Shown == [Rows -> Value \cup {"no"}]
Op    == {"add", "edit", "remove", "ping"}

\* What is reloaded after a mutation; the others patch the list with setData.
Reloads(op) == op \in {"add", "ping"} \/ page.name = "bases"

Snap  == [st: {"null", "data", "error"}, org: Orgs, same: BOOLEAN, rows: Shown, asof: Nat]
Fetch == [org: Orgs, same: BOOLEAN, cancelled: BOOLEAN, st: {"asked", "ok", "failed"},
          rows: Shown, asof: Nat]
Act   == [op: Op, row: Rows, org: Orgs, val: Value, left: 0..1, st: {"asked", "ok", "failed"}]

Nothing == [r \in Rows |-> "no"]

Listed(org) == [r \in Rows |-> IF Home[r] = org /\ row[r] \in Value THEN row[r] ELSE "no"]
AskRows(org) == [org |-> org, same |-> TRUE, cancelled |-> FALSE, st |-> "asked",
                 rows |-> Nothing, asof |-> 0]

Init ==
  /\ page \in [name: Pages, org: Orgs]
  /\ row \in [Rows -> {"none", "on"}]
  /\ clock = 0 /\ goneAt = [r \in Rows |-> 0]
  /\ snap = [st |-> "null", org |-> page.org, same |-> TRUE, rows |-> Nothing, asof |-> 0]
  /\ fetches = {AskRows(page.org)}
  /\ acts = {}

-----------------------------------------------------------------------------
(* useResource.                                                            *)

\* Mutant: the effect has no cleanup.
Rerun_NoCleanup(kept, org) == kept \cup {AskRows(org)}

\* The effect runs again: its cleanup cancels the fetch of the run before.
Rerun(kept, org) == {[f EXCEPT !.cancelled = TRUE] : f \in kept} \cup {AskRows(org)}
Room == Cardinality(fetches) < MaxFetches

\* OrgSwitcher: a dependency changes.  Rows read for the other organization stay
\* on the page until the answer for this one arrives.
Switch(org) ==
  /\ Room /\ org # page.org
  /\ page' = [page EXCEPT !.org = org]
  /\ fetches' = Rerun(fetches, org)
  /\ UNCHANGED <<row, clock, goneAt, snap, acts>>

\* Mutant: the reload count is missing from the dependencies of the effect.
Refetch_NoRerun == snap' = [snap EXCEPT !.same = FALSE] /\ UNCHANGED fetches

\* refetch(): the reload count grows, which is a new key for the same rows.
Refetch ==
  /\ snap' = [snap EXCEPT !.same = FALSE]
  /\ fetches' = Rerun({[f EXCEPT !.same = FALSE] : f \in fetches}, page.org)

\* "Try again" of an ErrorState.
Retry ==
  /\ Room /\ snap.st = "error"
  /\ Refetch
  /\ UNCHANGED <<page, row, clock, goneAt, acts>>

\* The documents page polls while a row is shown as being indexed; a tick does
\* not wait for the answer to the one before.
Tick ==
  /\ page.name = "documents" /\ \E r \in Rows : snap.rows[r] = "off"
  /\ Room /\ Refetch
  /\ UNCHANGED <<page, row, clock, goneAt, acts>>

ServeFetch(f) ==
  /\ f \in fetches /\ f.st = "asked"
  /\ fetches' = (fetches \ {f}) \cup
                {[f EXCEPT !.st = "ok", !.rows = Listed(f.org), !.asof = clock]}
  /\ UNCHANGED <<page, row, clock, goneAt, snap, acts>>

FailFetch(f) ==
  /\ f \in fetches /\ f.st = "asked" /\ ~f.cancelled
  /\ fetches' = (fetches \ {f}) \cup {[f EXCEPT !.st = "failed"]}
  /\ UNCHANGED <<page, row, clock, goneAt, snap, acts>>

\* A fetch may store when its run was not cancelled and its key is the active one.
Current(f) == ~f.cancelled /\ f.same /\ f.org = page.org

Arrive(f) ==
  /\ f \in fetches /\ f.st # "asked"
  /\ fetches' = fetches \ {f}
  /\ snap' = IF ~Current(f) THEN snap
             ELSE [st |-> IF f.st = "ok" THEN "data" ELSE "error", org |-> f.org,
                   same |-> TRUE, rows |-> f.rows, asof |-> f.asof]
  /\ UNCHANGED <<page, row, clock, goneAt, acts>>

-----------------------------------------------------------------------------
(* Mutations.                                                              *)

Ask(act) == acts' = acts \cup {act} /\ UNCHANGED <<page, row, clock, goneAt, snap, fetches>>

\* A dialog that creates a row, for the organization active at that moment.
Add(name, r, val, more) ==
  /\ page.name = name /\ Cardinality(acts) < MaxActs
  /\ row[r] = "none" /\ Home[r] = page.org
  /\ Ask([op |-> "add", row |-> r, org |-> page.org, st |-> "asked", left |-> more, val |-> val])

\* A click on a row that is shown.
Click(name, op, r, val) ==
  /\ page.name = name /\ Cardinality(acts) < MaxActs
  /\ snap.rows[r] # "no"
  /\ Ask([op |-> op, row |-> r, org |-> page.org, st |-> "asked", left |-> 0, val |-> val])

Opposite(r) == IF snap.rows[r] = "off" THEN "on" ELSE "off"

\* A button, select or toggle is disabled while its mutation is pending; a form
\* with a single line of text is submitted by Enter all the same.
Free(op) == \A act \in acts : act.op # op

Invite(r)         == Add("members", r, "on", 0)
ChangeRole(r)     == Free("edit") /\ Click("members", "edit", r, Opposite(r))
RemoveMember(r)   == Free("remove") /\ Click("members", "remove", r, "off")

CreateKey(r)      == Free("add") /\ Add("keys", r, "on", 0)
RevokeKey(r)      == Free("edit") /\ snap.rows[r] = "on" /\ Click("keys", "edit", r, "off")

AddEndpoint(r)    == Free("add") /\ Add("webhooks", r, "on", 0)
ToggleActive(r)   == Free("edit") /\ Click("webhooks", "edit", r, Opposite(r))
SendTest(r)       == Free("ping") /\ Click("webhooks", "ping", r, "off")
DeleteEndpoint(r) == Free("remove") /\ Click("webhooks", "remove", r, "off")

CreateBase(r)     == Add("bases", r, "on", 0)
EditBase(r)       == Click("bases", "edit", r, Opposite(r))
DeleteBase(r)     == Free("remove") /\ Click("bases", "remove", r, "off")

\* An upload of one file or of two, which are sent one after the other.
Upload(r)         == \E more \in 0..1 : Add("documents", r, "off", more)
DeleteDocument(r) == Free("remove") /\ Click("documents", "remove", r, "off")

\* The backend: a row of another organization is not found.
Found(a) == Home[a.row] = a.org /\ row[a.row] \in IF a.op = "add" THEN {"none"} ELSE Value

ServeAct(a) ==
  /\ a \in acts /\ a.st = "asked"
  /\ \/ /\ Found(a) /\ clock < MaxWrites
        /\ clock' = clock + 1
        /\ row' = [row EXCEPT ![a.row] = CASE a.op \in {"add", "edit"} -> a.val
                                           [] a.op = "remove" -> "gone"
                                           [] OTHER -> @]
        /\ goneAt' = IF a.op = "remove" THEN [goneAt EXCEPT ![a.row] = clock + 1] ELSE goneAt
        /\ acts' = (acts \ {a}) \cup {[a EXCEPT !.st = "ok"]}
     \/ /\ acts' = (acts \ {a}) \cup {[a EXCEPT !.st = "failed"]}
        /\ UNCHANGED <<row, clock, goneAt>>
  /\ UNCHANGED <<page, snap, fetches>>

\* Mutants: the rows are stored under the key wanted now; a row that is not held
\* is added.
Patched_NewKey(a) ==
  [snap EXCEPT !.st = "data", !.org = page.org, !.same = TRUE,
     !.rows = [r \in Rows |-> IF r # a.row \/ @[r] = "no" THEN @[r]
                              ELSE IF a.op = "remove" THEN "no" ELSE a.val]]
Patched_Upsert(a) ==
  [snap EXCEPT !.st = "data",
     !.rows = [r \in Rows |-> IF r # a.row THEN @[r]
                              ELSE IF a.op = "remove" THEN "no" ELSE a.val]]

\* setData(): whatever rows are held are mapped or filtered, the key stays; no
\* rows at all become an empty list.
Patched(a) ==
  [snap EXCEPT !.st = "data",
     !.rows = [r \in Rows |-> IF r # a.row \/ @[r] = "no" THEN @[r]
                              ELSE IF a.op = "remove" THEN "no" ELSE a.val]]

\* The continuation of the mutation.  A failed upload goes on with the next file.
Finish(a) ==
  /\ a \in acts /\ a.st # "asked" /\ Room
  /\ \E next \in SUBSET {b \in {[a EXCEPT !.row = r, !.left = 0, !.st = "asked"] : r \in Rows} :
                           row[b.row] = "none" /\ Home[b.row] = a.org} :
       /\ Cardinality(next) <= a.left
       /\ acts' = (acts \ {a}) \cup next
  /\ \/ a.st = "ok" /\ Reloads(a.op) /\ Refetch
     \/ a.st = "ok" /\ ~Reloads(a.op) /\ snap' = Patched(a) /\ UNCHANGED fetches
     \/ a.st = "failed" /\ UNCHANGED <<snap, fetches>>
  /\ UNCHANGED <<page, row, clock, goneAt>>

\* The processing task of a document ends, READY or FAILED.
Indexed(r) ==
  /\ page.name = "documents" /\ row[r] = "off"
  /\ row' = [row EXCEPT ![r] = "on"]
  /\ UNCHANGED <<page, clock, goneAt, snap, fetches, acts>>

-----------------------------------------------------------------------------
Network == \/ \E f \in fetches : ServeFetch(f) \/ Arrive(f)
           \/ \E a \in acts : ServeAct(a) \/ Finish(a)

Next ==
  \/ Network \/ Retry \/ Tick
  \/ \E f \in fetches : FailFetch(f)
  \/ \E org \in Orgs : Switch(org)
  \/ \E r \in Rows :
       \/ Indexed(r)
       \/ Invite(r) \/ ChangeRole(r) \/ RemoveMember(r)
       \/ CreateKey(r) \/ RevokeKey(r)
       \/ AddEndpoint(r) \/ ToggleActive(r) \/ SendTest(r) \/ DeleteEndpoint(r)
       \/ CreateBase(r) \/ EditBase(r) \/ DeleteBase(r)
       \/ Upload(r) \/ DeleteDocument(r)

Spec == Init /\ [][Next]_vars

\* Requests are answered and answers handled, the timer ticks, the worker ends
\* its tasks; people owe nothing.
FairSpec ==
  /\ Spec /\ WF_vars(Tick)
  /\ WF_vars(\E f \in fetches : ~f.cancelled /\ (ServeFetch(f) \/ Arrive(f)))
  /\ WF_vars(\E f \in fetches : f.cancelled /\ (ServeFetch(f) \/ Arrive(f)))
  /\ WF_vars(\E a \in acts : ServeAct(a) \/ Finish(a))
  /\ \A r \in Rows : WF_vars(Indexed(r))

-----------------------------------------------------------------------------
(* Properties.                                                             *)

TypeOK ==
  /\ page \in [name: Pages, org: Orgs]
  /\ row \in [Rows -> Value \cup {"none", "gone"}]
  /\ clock \in 0..MaxWrites /\ goneAt \in [Rows -> 0..MaxWrites]
  /\ snap \in Snap /\ fetches \subseteq Fetch /\ acts \subseteq Act

\* useResource's "loading" is the negation of this.
Settled == snap.st # "null" /\ snap.same /\ snap.org = page.org

\* However often the organization is switched back and forth, and whatever late
\* answers patch the list: a page that does not say it is loading shows rows of
\* the active organization only.
SettledRowsAreHome ==
  Settled => \A r \in Rows : snap.rows[r] # "no" => Home[r] = page.org

\* A row that was deleted before the list on the page was read does not come
\* back with the late answer of another mutation.
DeletedStaysDeleted ==
  snap.st = "data" =>
    \A r \in Rows : snap.rows[r] # "no" /\ goneAt[r] # 0 => goneAt[r] > snap.asof

\* A list that was read later is never replaced by one that was read earlier.
NeverOlder ==
  [][snap'.org = snap.org /\ snap'.st = "data" => snap'.asof >= snap.asof]_vars

\* A document that is shown as being indexed does not stay so, unless the viewer
\* keeps switching organizations or every answer takes longer than the four
\* seconds after which the next tick cancels its request.
Stays == <>[][\A org \in Orgs : ~Switch(org)]_vars
AnswersBeatTheTimer == <>[][Tick => \A f \in fetches : f.cancelled]_vars
IndexingIsSeenToEnd ==
  Stays /\ AnswersBeatTheTimer =>
    \A r \in Rows : page.name = "documents" /\ snap.rows[r] = "off" ~> snap.rows[r] # "off"
=============================================================================
