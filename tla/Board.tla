------------------------------- MODULE Board -------------------------------
(***************************************************************************)
(* The figures beside the charts: the overview, analytics and agents pages *)
(* derive them in the browser from three lists that they fetch apart, the  *)
(* conversations, the tickets and the members.  Conversations and tickets  *)
(* are in order of creation; a route stands for the words of a title or a  *)
(* subject that lib/agents.ts groups it by.  The lists are shorter than    *)
(* the limit (100) of the two endpoints.                                   *)
(***************************************************************************)
EXTENDS Integers, Sequences, FiniteSets, SequencesExt

CONSTANTS Routes,      \* of the specialists
          People,      \* who may be members
          Unassigned,
          Ranks,       \* of the priorities
          MaxTalks,    \* bound on the conversations
          QueueLength  \* tickets in the overview's queue (6)

ASSUME BoardAssumption ==
  Unassigned \notin People /\ Ranks \subseteq Nat /\ MaxTalks \in Nat /\ QueueLength \in Nat

VARIABLES
  talks,  \* backend: the route of each conversation's title
  filed,  \* backend: the tickets
  staff,  \* backend: the members
  fetches, \* the page's three fetches
  page,   \* what it has of the lists: data ?? []
  moved   \* history: something changed since a list was read, or read again

boardVars == <<talks, filed, staff, fetches, page, moved>>

Filed  == [of: 1..MaxTalks, route: Routes, open: BOOLEAN, rank: Ranks, who: People \cup {Unassigned}]
Blanks == [talks |-> <<>>, filed |-> <<>>, staff |-> {}]
Unread == [l \in DOMAIN Blanks |-> "loading"]

BoardInit ==
  /\ talks = <<>> /\ filed = <<>> /\ staff = {}
  /\ fetches = Unread /\ page = Blanks /\ moved = FALSE

-----------------------------------------------------------------------------
(* The organization at work.                                               *)

Moves ==
  /\ moved' = (moved \/ \E l \in DOMAIN fetches : fetches[l] \in {"ok", "again"})
  /\ UNCHANGED <<fetches, page>>

Converse(route) ==
  /\ Len(talks) < MaxTalks /\ talks' = Append(talks, route)
  /\ UNCHANGED <<filed, staff>> /\ Moves

\* A conversation becomes a ticket, once.
File(c, route, rank) ==
  /\ \A i \in DOMAIN filed : filed[i].of # c
  /\ filed' = Append(filed, [of |-> c, route |-> route, open |-> TRUE, rank |-> rank, who |-> Unassigned])
  /\ UNCHANGED <<talks, staff>> /\ Moves

Work(i) ==
  /\ \/ filed' = [filed EXCEPT ![i].open = ~@]
     \/ \E rank \in Ranks \ {filed[i].rank} : filed' = [filed EXCEPT ![i].rank = rank]
     \/ \E p \in staff \ {filed[i].who} : filed' = [filed EXCEPT ![i].who = p]
  /\ UNCHANGED <<talks, staff>> /\ Moves

\* A member who leaves stays the assignee of tickets.
JoinOrLeave(p) ==
  /\ staff' = IF p \in staff THEN staff \ {p} ELSE staff \cup {p}
  /\ UNCHANGED <<talks, filed>> /\ Moves

-----------------------------------------------------------------------------
(* The page.                                                               *)

OpenBoard ==
  /\ fetches # Unread /\ fetches' = Unread /\ page' = Blanks /\ moved' = FALSE
  /\ UNCHANGED <<talks, filed, staff>>

\* A fetch is answered, or fails and leaves no data.
Read(l) ==
  /\ fetches[l] \in {"loading", "again"}
  /\ LET now == [talks |-> talks, filed |-> filed, staff |-> staff] IN
     \/ fetches' = [fetches EXCEPT ![l] = "ok"] /\ page' = [page EXCEPT ![l] = now[l]]
     \/ fetches' = [fetches EXCEPT ![l] = "failed"] /\ page' = [page EXCEPT ![l] = Blanks[l]]
  /\ UNCHANGED <<talks, filed, staff, moved>>

\* Both lists are on the page: no skeleton, no error.
Whole == fetches["talks"] = "ok" /\ fetches["filed"] = "ok"

\* The error has one button for both lists.  The members have neither.
RetryBoard ==
  /\ fetches["talks"] # "loading" /\ fetches["filed"] # "loading"
  /\ "failed" \in {fetches["talks"], fetches["filed"]}
  /\ fetches' = [fetches EXCEPT !["talks"] = "again", !["filed"] = "again"]
  /\ UNCHANGED <<talks, filed, staff, page, moved>>

BoardNext ==
  \/ OpenBoard \/ RetryBoard
  \/ \E l \in DOMAIN fetches : Read(l)
  \/ \E r \in Routes : Converse(r)
  \/ \E c \in DOMAIN talks, r \in Routes, rank \in Ranks : File(c, r, rank)
  \/ \E i \in DOMAIN filed : Work(i)
  \/ \E p \in People : JoinOrLeave(p)

-----------------------------------------------------------------------------
(* What is computed from the lists.                                        *)

Percent(part, whole) == IF whole = 0 THEN 0 ELSE (part * 100) \div whole
AtLeast0(n) == IF n < 0 THEN 0 ELSE n

\* summarize: autoResolutionRate and escalationRate.
Deflected == AtLeast0(Percent(Len(page.talks) - Len(page.filed), Len(page.talks)))
Escalated == Percent(Len(page.filed), Len(page.talks))

\* The agents pages, by what titles and subjects look like, and the share that was
\* "Handled without a human".
RoutedTo(r)      == Quantify(DOMAIN page.talks, LAMBDA i : page.talks[i] = r)
EscalatedFrom(r) == Quantify(DOMAIN page.filed, LAMBDA i : page.filed[i].route = r)
Handled(r)       == AtLeast0(Percent(RoutedTo(r) - EscalatedFrom(r), RoutedTo(r)))

\* The overview's queue, by rank and age.  Mutant: the longest waiting first.
Precedes_Older(i, j) == i < j
Precedes(i, j) ==
  \/ page.filed[i].rank > page.filed[j].rank
  \/ page.filed[i].rank = page.filed[j].rank /\ i < j
\* The n-th is the open ticket with n - 1 others to precede it.
Queue ==
  LET open == {i \in DOMAIN page.filed : page.filed[i].open}
      size == Cardinality(open)
  IN [n \in 1..(IF size < QueueLength THEN size ELSE QueueLength) |->
        CHOOSE i \in open : Cardinality({j \in open : Precedes(j, i)}) = n - 1]

\* Team workload: a row for each member with tickets, a remainder, and a note.
Load(p)         == Quantify(DOMAIN page.filed, LAMBDA i : page.filed[i].who = p)
Workload        == {p \in page.staff : Load(p) > 0}
NothingAssigned == fetches["staff"] # "loading" /\ Workload = {}

-----------------------------------------------------------------------------
BoardTypeOK ==
  /\ talks \in Seq(Routes) /\ filed \in Seq(Filed) /\ staff \subseteq People
  /\ fetches \in [DOMAIN Blanks -> {"loading", "ok", "failed", "again"}]
  /\ page \in [talks: Seq(Routes), filed: Seq(Filed), staff: SUBSET People]
  /\ moved \in BOOLEAN


\* The queue has no ticket that another one, open and left out, should precede.
QueueIsMostUrgent ==
  LET list == page.filed
      left == {i \in DOMAIN list : list[i].open} \ Range(Queue)
  IN /\ left # {} => Len(Queue) = QueueLength
     /\ \A n \in DOMAIN Queue : \A j \in left \cup {Queue[k] : k \in n + 1..Len(Queue)} :
          \/ list[Queue[n]].rank > list[j].rank
          \/ list[Queue[n]].rank = list[j].rank /\ Queue[n] < j

\* Rows and remainder make up the tickets, and "Nothing assigned yet" means that,
\* when the assignees were still members as the members were read.
WorkIsAccountedFor ==
  {page.filed[i].who : i \in DOMAIN page.filed} \subseteq page.staff \cup {Unassigned} =>
    /\ Load(Unassigned) + FoldSet(LAMBDA p, n : n + Load(p), 0, Workload) = Len(page.filed)
    /\ NothingAssigned => Load(Unassigned) = Len(page.filed)

\* "Conversations that never became a ticket": subtracting one list's length from
\* the other's counts them, as no conversation has two tickets; and so by route,
\* for a route whose titles and subjects are grouped alike.
SharesAreTrue ==
  LET Free(r) == {c \in DOMAIN page.talks :
                    page.talks[c] \in r /\ \A i \in DOMAIN page.filed : page.filed[i].of # c}
      Alike(r) == \A i \in DOMAIN page.filed :
                    page.filed[i].route = r <=> page.talks[page.filed[i].of] = r
  IN /\ Deflected = Percent(Cardinality(Free(Routes)), Len(page.talks))
     /\ Escalated + Deflected <= 100
     /\ \A r \in Routes : Alike(r) =>
          Handled(r) = Percent(Cardinality(Free({r})), RoutedTo(r))

\* Whatever order the lists are read in, the figures are those of the
\* organization as long as it stands still between the first read and the last.
BoardHolds == Whole => QueueIsMostUrgent /\ WorkIsAccountedFor /\ (~moved => SharesAreTrue)
=============================================================================
