----------------------------- MODULE TicketPane -----------------------------
(***************************************************************************)
(* What an agent does with one escalation, on its own page or in the pane  *)
(* of the conversations inbox: EscalationControls, whose every change is a *)
(* call that answers with the whole ticket, and a thread to write to: the  *)
(* replies of the page, those of the inbox, or the internal notes.         *)
(***************************************************************************)
EXTENDS Naturals, Sequences, FiniteSets

CONSTANTS Fields,     \* status, priority, assignee
          Values,     \* values of a field
          None,       \* not a field
          MaxUps,     \* bound on the updates under way
          MaxDrafts,  \* bound on the texts written
          MaxPosts    \* bound on the messages posted

ASSUME TicketPaneAssumption ==
  /\ None \notin Fields \cup {"create", "remove"}
  /\ Fields \cap {"create", "remove"} = {}
  /\ MaxUps \in Nat /\ MaxDrafts \in Nat /\ MaxPosts \in Nat

VARIABLES
  ticket,   \* backend: the ticket, if there is one
  shown,    \* the ticket on the screen, or that the conversation has none
  ups,      \* changes under way
  pending,  \* EscalationControls: pendingField
  crossed,  \* history: two changes were under way together
  behind,   \* history: the ticket changed and no answer has told the screen
  place,    \* of the thread: "ticket" page, "inbox" or "notes"
  posted,   \* backend: the thread's messages, each by the draft it was sent from
  load,     \* useResource: the fetch of the thread
  thread,   \* useResource: its snapshot
  draft,    \* the text in the form, 0 when empty
  drafts,   \* number of texts written so far
  sends,    \* posts under way
  lost      \* history: per draft, how often it was stored and its answer lost

controlVars == <<ticket, shown, ups, pending, crossed, behind>>
threadVars  == <<place, posted, load, thread, draft, drafts, sends, lost>>

-----------------------------------------------------------------------------
(* The controls.                                                           *)

Ticket == [is: BOOLEAN, of: [Fields -> Values]]
Change == [op: Fields \cup {"create", "remove"}, val: Values,
           st: {"asked", "ok", "failed"}, ans: Ticket]

ControlsInit ==
  /\ ticket \in Ticket /\ shown = ticket
  /\ ups = {} /\ pending = None /\ crossed = FALSE /\ behind = FALSE

Request(op, v) ==
  /\ Cardinality(ups) < MaxUps
  /\ LET up == [op |-> op, val |-> v, st |-> "asked", ans |-> shown] IN
       up \notin ups /\ ups' = ups \cup {up}
  /\ crossed' = (crossed \/ ups # {})

\* A select is disabled while pendingField names it.
Update(f, v) ==
  /\ shown.is /\ pending # f /\ v # shown.of[f]
  /\ pending' = f /\ Request(f, v)
  /\ UNCHANGED <<ticket, shown, behind, threadVars>>

\* "Create escalation" (inbox) and "Delete escalation" (page); their buttons are
\* disabled while the call is under way.
Escalate(v) ==
  /\ ~shown.is /\ \A u \in ups : u.op # "create"
  /\ Request("create", v)
  /\ UNCHANGED <<ticket, shown, pending, behind, threadVars>>

DeleteTicket ==
  /\ shown.is /\ \A u \in ups : u.op # "remove"
  /\ \E v \in Values : Request("remove", v)
  /\ UNCHANGED <<ticket, shown, pending, behind, threadVars>>

\* Meanwhile the AI escalates the conversation, a colleague changes or deletes the
\* ticket, or a check of the SLA raises it: that of any request which reads it, the
\* changes of this screen included, and committed before the request goes on.
Elsewhere ==
  /\ ticket' \in Ticket \ {ticket} /\ behind' = TRUE
  /\ UNCHANGED <<shown, ups, pending, crossed, threadVars>>

\* What the backend makes of a change it accepts.
Changed(u) == CASE u.op \in Fields   -> [ticket EXCEPT !.of[u.op] = u.val]
                [] u.op = "create" -> [is |-> TRUE, of |-> [f \in Fields |-> u.val]]
                [] u.op = "remove" -> [ticket EXCEPT !.is = FALSE]

\* The change is made and answered, made and its answer lost, or not made.
ServeUp(u) ==
  /\ u \in ups /\ u.st = "asked"
  /\ \/ /\ ticket.is <=> u.op # "create"
        /\ ticket' = Changed(u) /\ behind' = FALSE
        /\ ups' = (ups \ {u}) \cup {[u EXCEPT !.st = "ok", !.ans = Changed(u)]}
     \/ /\ ticket.is <=> u.op # "create"
        /\ ticket' = Changed(u) /\ behind' = TRUE
        /\ ups' = (ups \ {u}) \cup {[u EXCEPT !.st = "failed"]}
     \/ /\ ups' = (ups \ {u}) \cup {[u EXCEPT !.st = "failed"]}
        /\ UNCHANGED <<ticket, behind>>
  /\ UNCHANGED <<shown, pending, crossed, threadVars>>

\* onChange(next), then setPendingField(null), whichever field is pending.
\* Mutant: the change is shown as it was asked for, also when it failed.
FinishUp_Optimistic(u) ==
  /\ u \in ups /\ u.st # "asked"
  /\ ups' = ups \ {u}
  /\ pending' = IF u.op \in Fields THEN None ELSE pending
  /\ shown' = IF u.op \in Fields THEN [shown EXCEPT !.of[u.op] = u.val] ELSE u.ans
  /\ UNCHANGED <<ticket, crossed, behind, threadVars>>
FinishUp(u) ==
  /\ u \in ups /\ u.st # "asked"
  /\ ups' = ups \ {u}
  /\ pending' = IF u.op \in Fields THEN None ELSE pending
  /\ shown' = IF u.st = "ok" THEN u.ans ELSE shown
  /\ UNCHANGED <<ticket, crossed, behind, threadVars>>

ControlsNext ==
  \/ \E v \in Values : Escalate(v) \/ \E f \in Fields : Update(f, v)
  \/ DeleteTicket \/ Elsewhere
  \/ \E u \in ups : ServeUp(u) \/ FinishUp(u)

-----------------------------------------------------------------------------
(* The thread.                                                             *)

Messages == Seq(1..MaxDrafts)
Send == [of: 1..MaxDrafts, nr: 1..MaxPosts, st: {"asked", "ok", "failed"}]

ThreadInit ==
  /\ place \in {"ticket", "inbox", "notes"}
  /\ posted = <<>> /\ draft = 0 /\ drafts = 0 /\ sends = {}
  /\ lost = [d \in 1..MaxDrafts |-> 0]
  /\ load = [st |-> "asked", is |-> <<>>]
  /\ thread = [st |-> "null", is |-> <<>>]

Loaded(st, is) == load' = [st |-> st, is |-> is]

ServeLoad ==
  /\ load.st = "asked"
  /\ Loaded("ok", posted) \/ Loaded("failed", <<>>)
  /\ UNCHANGED <<controlVars, place, posted, thread, draft, drafts, sends, lost>>

ArriveLoad ==
  /\ load.st \in {"ok", "failed"} /\ Loaded("none", <<>>)
  /\ thread' = [st |-> IF load.st = "ok" THEN "data" ELSE "error", is |-> load.is]
  /\ UNCHANGED <<controlVars, place, posted, draft, drafts, sends, lost>>

\* "Try again", which InternalNotes does not offer.
RetryLoad ==
  /\ place # "notes" /\ thread.st = "error" /\ load.st = "none"
  /\ thread' = [thread EXCEPT !.st = "null"] /\ Loaded("asked", <<>>)
  /\ UNCHANGED <<controlVars, place, posted, draft, drafts, sends, lost>>

\* The inbox renders its form once the thread is there; the page of a ticket and
\* the notes always do.
\* Mutant: so does the inbox.
Form_Always == TRUE
Form == place = "inbox" => thread.st = "data"

Write ==
  /\ Form /\ drafts < MaxDrafts
  /\ drafts' = drafts + 1 /\ draft' = drafts + 1
  /\ UNCHANGED <<controlVars, place, posted, load, thread, sends, lost>>

\* The button is disabled while a post is under way; Ctrl+Enter in the inbox is not.
Free == sends = {} \/ place = "inbox"

Post ==
  /\ Form /\ draft # 0 /\ Free
  /\ \E nr \in 1..MaxPosts :
       /\ \A s \in sends : s.nr # nr
       /\ Len(posted) + Cardinality({s \in sends : s.st = "asked"}) < MaxPosts
       /\ sends' = sends \cup {[of |-> draft, nr |-> nr, st |-> "asked"]}
  /\ UNCHANGED <<controlVars, place, posted, load, thread, draft, drafts, lost>>

\* The message is stored and answered, stored and its answer lost, or not stored.
ServePost(s) ==
  /\ s \in sends /\ s.st = "asked"
  /\ \/ /\ posted' = Append(posted, s.of) /\ lost' = lost
        /\ sends' = (sends \ {s}) \cup {[s EXCEPT !.st = "ok"]}
     \/ /\ posted' = Append(posted, s.of) /\ lost' = [lost EXCEPT ![s.of] = @ + 1]
        /\ sends' = (sends \ {s}) \cup {[s EXCEPT !.st = "failed"]}
     \/ /\ sends' = (sends \ {s}) \cup {[s EXCEPT !.st = "failed"]}
        /\ UNCHANGED <<posted, lost>>
  /\ UNCHANGED <<controlVars, place, load, thread, draft, drafts>>

\* setData: the message is appended to the thread there is.  Without one, a list
\* of notes starts with it, and a conversation stays without data, which also
\* replaces an error.
Appended(s) ==
  CASE thread.st = "data"                    -> [thread EXCEPT !.is = Append(@, s.of)]
    [] thread.st # "data" /\ place = "notes" -> [st |-> "data", is |-> <<s.of>>]
    [] thread.st # "data" /\ place # "notes" -> [st |-> "null", is |-> <<>>]

\* The form is emptied, whatever has been written since; after an error it keeps
\* the text, to be sent again though it may have been stored.
FinishPost(s) ==
  /\ s \in sends /\ s.st # "asked"
  /\ sends' = sends \ {s}
  /\ \/ s.st = "ok" /\ thread' = Appended(s) /\ draft' = 0
     \/ s.st = "failed" /\ UNCHANGED <<thread, draft>>
  /\ UNCHANGED <<controlVars, place, posted, load, drafts, lost>>

ThreadNext ==
  \/ ServeLoad \/ ArriveLoad \/ RetryLoad \/ Write \/ Post
  \/ \E s \in sends : ServePost(s) \/ FinishPost(s)

-----------------------------------------------------------------------------
PaneTypeOK ==
  /\ ticket \in Ticket /\ shown \in Ticket /\ ups \subseteq Change
  /\ pending \in Fields \cup {None} /\ crossed \in BOOLEAN /\ behind \in BOOLEAN
  /\ place \in {"ticket", "inbox", "notes"} /\ posted \in Messages
  /\ load \in [st: {"none", "asked", "ok", "failed"}, is: Messages]
  /\ thread \in [st: {"null", "data", "error"}, is: Messages]
  /\ draft \in 0..MaxDrafts /\ drafts \in 0..MaxDrafts /\ sends \subseteq Send
  /\ lost \in [1..MaxDrafts -> Nat]

\* A change that is answered brings the screen up to date with all there is, what
\* colleagues, the AI and the SLA did meanwhile and earlier changes whose answers
\* were lost too; a refused one leaves no trace.  So with nothing under way, and as
\* long as no two changes were under way together, the screen shows the ticket,
\* or that there is none, unless it changed after the last answer.
ScreenIsTheTicket ==
  ups = {} /\ ~crossed /\ ~behind => shown = ticket

Count(seq, d) == Cardinality({i \in DOMAIN seq : seq[i] = d})

\* In the inbox, once no reply is under way, every reply was posted as often as the
\* thread shows it and its answer was lost: those that were sent twice, sent again
\* after an error, or came while another was under way.
InboxThreadIsWhole ==
  place = "inbox" /\ thread.st = "data" /\ sends = {} =>
    \A d \in 1..MaxDrafts : Count(posted, d) = Count(thread.is, d) + lost[d]

=============================================================================
