-------------------------------- MODULE Feed --------------------------------
(***************************************************************************)
(* The notification feed, which has no backend: notifications are derived  *)
(* from the tickets whenever those are read, and the ones that were read   *)
(* are listed in the browser's localStorage, which its tabs share without  *)
(* telling each other.                                                     *)
(***************************************************************************)
EXTENDS Naturals, Sequences, SequencesExt

CONSTANTS Watched,  \* tickets of the organization
          Tabs,     \* open on the notifications page, or not
          Cap,      \* of the ids that are kept (500)
          MaxMarks  \* bound on the marks made

ASSUME FeedAssumption == IsFiniteSet(Watched) /\ Cap \in Nat \ {0} /\ MaxMarks \in Nat

VARIABLES
  desk,    \* backend: the tickets
  store,   \* localStorage: the ids marked as read, in insertion order
  tabs,    \* per tab: open on the page, its tickets, its read set in insertion order
  marked,  \* history: every mark made on this device, in order
  blind    \* history: a mark was made while another tab was open

feedVars == <<desk, store, tabs, marked, blind>>

Kinds == {"sla", "esc", "asg", "res"}
Ids   == Kinds \X Watched
Desk0 == [Watched -> [byAi: BOOLEAN, open: BOOLEAN, late: BOOLEAN, mine: BOOLEAN]]

\* buildNotifications: what a ticket says now, under an id that does not change.
Notifications(list) ==
  {id \in Ids : LET t == list[id[2]] IN
     CASE id[1] = "sla" -> t.late /\ t.open
       [] id[1] = "esc" -> t.byAi
       [] id[1] = "asg" -> t.mine /\ t.open
       [] id[1] = "res" -> ~t.open}

Closed == [on |-> FALSE, list |-> <<>>, read |-> <<>>]

FeedInit ==
  /\ desk = [t \in Watched |-> [byAi |-> TRUE, open |-> TRUE, late |-> FALSE, mine |-> FALSE]]
  /\ store = <<>> /\ marked = <<>> /\ blind = FALSE
  /\ tabs = [i \in Tabs |-> Closed]

\* A ticket is closed or opened again, assigned, or passes its deadline.
Develop(t) ==
  /\ \/ desk' = [desk EXCEPT ![t].open = ~@]
     \/ ~desk[t].mine /\ desk' = [desk EXCEPT ![t].mine = TRUE]
     \/ ~desk[t].late /\ desk' = [desk EXCEPT ![t].late = TRUE]
  /\ UNCHANGED <<store, tabs, marked, blind>>

\* The page is opened: getReadIds, once, and the tickets are read.
Enter(i) ==
  /\ ~tabs[i].on
  /\ tabs' = [tabs EXCEPT ![i] = [on |-> TRUE, list |-> desk, read |-> store]]
  /\ UNCHANGED <<desk, store, marked, blind>>

Leave(i) ==
  /\ tabs[i].on /\ tabs' = [tabs EXCEPT ![i] = Closed]
  /\ UNCHANGED <<desk, store, marked, blind>>

LastOf(seq, n) == IF Len(seq) <= n THEN seq ELSE SubSeq(seq, Len(seq) - n + 1, Len(seq))

\* setReadIds.  Mutant: the ids kept are the oldest.
Kept_Oldest(ids) == SubSeq(ids, 1, IF Len(ids) < Cap THEN Len(ids) ELSE Cap)
Kept(ids) == LastOf(ids, Cap)

\* markRead: "Mark all read", in the order of the list, or a click on one row of
\* it.  A Set keeps the place of what it holds: it lacks all of the ids, or the one.
MarkRead(i, ids) ==
  /\ tabs[i].on /\ ids # <<>>
  /\ ToSet(ids) \subseteq Notifications(tabs[i].list)
  /\ Len(ids) = 1 \/ ToSet(ids) = Notifications(tabs[i].list) \ ToSet(tabs[i].read)
  /\ LET new  == IF ToSet(ids) \cap ToSet(tabs[i].read) = {} THEN ids ELSE <<>>
         next == tabs[i].read \o new
     IN /\ Len(marked) + Len(new) <= MaxMarks
        /\ tabs' = [tabs EXCEPT ![i].read = next]
        /\ store' = Kept(next)
        /\ marked' = marked \o new
        /\ blind' = (blind \/ \E j \in Tabs \ {i} : tabs[j].on)
  /\ UNCHANGED <<desk>>

Clicks(i) == {<<id>> : id \in Ids}
            \cup SetToSeqs(Notifications(tabs[i].list) \ ToSet(tabs[i].read))

FeedNext ==
  \/ \E t \in Watched : Develop(t)
  \/ \E i \in Tabs : \/ Enter(i) \/ Leave(i)
                     \/ tabs[i].on /\ \E ids \in Clicks(i) : MarkRead(i, ids)

-----------------------------------------------------------------------------
FeedTypeOK ==
  /\ desk \in Desk0 /\ blind \in BOOLEAN
  /\ store \in Seq(Ids) /\ marked \in Seq(Ids)
  /\ \A i \in Tabs : /\ tabs[i].on \in BOOLEAN /\ tabs[i].read \in Seq(Ids)
                     /\ tabs[i].list \in (IF tabs[i].on THEN Desk0 ELSE {<<>>})

\* What was read stays read: as long as nothing is marked while another tab is
\* open on the page, the device remembers the latest marks, up to the cap, through
\* reloads, reopened tickets and ids that were dropped and marked again.
LatestMarksAreKept == ~blind => store = LastOf(marked, Cap)
=============================================================================
