------------------------------- MODULE Widget -------------------------------
(***************************************************************************)
(* The chat widget on a customer's web page (widget.js): a question and    *)
(* its streamed answer, the poll that fetches the conversation every five  *)
(* seconds, recovery from a conversation that is gone, and reloads of the  *)
(* page.  Meanwhile the backend saves question and answer one after the    *)
(* other, agents reply, the memory is compressed, conversations are        *)
(* deleted.  The widget tells whether there is news by counting messages.  *)
(***************************************************************************)
EXTENDS Integers, FiniteSets

CONSTANTS MaxConvs,  \* bound on the conversations started
          MaxIds,    \* bound on the messages written
          MaxSyncs   \* bound on the polls under way

ASSUME WidgetAssumption == MaxConvs \in Nat /\ MaxIds \in Nat /\ MaxSyncs \in Nat

Convs == 1..MaxConvs
Ids   == 1..MaxIds

VARIABLES
  made,      \* backend: number of conversations made
  live,      \* backend: those that have not been deleted
  saved,     \* backend: the messages of each
  ids,       \* number of messages written so far
  convId,    \* conversationId, also in localStorage; 0: null
  known,     \* knownBackendMessageCount
  screen,    \* messages in the box
  open,      \* isOpen: the chat window, else its launcher only
  unread,    \* unreadCount, the badge of the launcher
  stream,    \* sendMessage: isStreaming, the request and its answer
  syncs,     \* syncMessages: polls under way
  crossed,   \* history of this page: a poll was under way with a stream or another poll
  shrunk     \* history: a conversation was compressed

widgetVars == <<made, live, saved, ids, convId, known, screen, open, unread, stream, syncs, crossed, shrunk>>
backend == <<made, live, saved>>
window == <<open, unread>>

\* "row": the element of the answer is not there yet, in the box, or detached.
Stream == [st: {"none", "asked", "meta", "saved", "answered"}, conv: 0..MaxConvs,
           q: 0..MaxIds, row: {"none", "in", "out"}]
Sync   == [conv: Convs, st: {"asked", "ok", "gone"}, got: SUBSET Ids]
Quiet  == [st |-> "none", conv |-> 0, q |-> 0, row |-> "none"]
Streaming == stream.st # "none"
Answer == stream.q + 1

WidgetInit ==
  /\ made = 0 /\ live = {} /\ saved = [c \in Convs |-> {}] /\ ids = 0
  /\ convId = 0 /\ known = 0 /\ screen = {} /\ open = FALSE /\ unread = 0 /\ stream = Quiet /\ syncs = {}
  /\ crossed = FALSE /\ shrunk = FALSE

-----------------------------------------------------------------------------
(* sendMessage.                                                            *)

\* toggleWidget: opening the window clears the badge.
Toggle ==
  /\ open' = ~open /\ unread' = IF open THEN unread ELSE 0
  /\ UNCHANGED <<backend, ids, convId, known, screen, stream, syncs, crossed, shrunk>>

\* A question typed, tried again, or asked by the host page, which opens the window.
SendMessage ==
  /\ open' = TRUE /\ unread' = IF open THEN unread ELSE 0
  /\ ~Streaming /\ ids + 2 <= MaxIds /\ ids' = ids + 2
  /\ stream' = [st |-> "asked", conv |-> convId, q |-> ids + 1, row |-> "none"]
  /\ screen' = screen \cup {ids + 1}
  /\ crossed' = (crossed \/ syncs # {})
  /\ UNCHANGED <<backend, convId, known, syncs, shrunk>>

\* 404: the stored conversation is gone, the question is asked again without one.
Recover ==
  /\ stream.st = "asked" /\ stream.conv \in Convs \ live
  /\ stream' = [stream EXCEPT !.conv = 0]
  /\ convId' = 0 /\ known' = 0
  /\ UNCHANGED <<backend, ids, screen, syncs, crossed, window, shrunk>>

\* The first event names the conversation, made for the question if need be.
Meta ==
  /\ stream.st = "asked"
  /\ \/ stream.conv \in live /\ UNCHANGED <<made, live>> /\ convId' = stream.conv
     \/ stream.conv = 0 /\ made < MaxConvs
        /\ made' = made + 1 /\ live' = live \cup {made + 1} /\ convId' = made + 1
  /\ stream' = [stream EXCEPT !.st = "meta", !.conv = convId']
  /\ UNCHANGED <<saved, ids, known, screen, syncs, crossed, window, shrunk>>

Save(st, id) ==
  /\ stream.conv \in live
  /\ saved' = [saved EXCEPT ![stream.conv] = @ \cup {id}]
  /\ stream' = [stream EXCEPT !.st = st]
  /\ UNCHANGED <<made, live, ids, convId, known, screen, syncs, crossed, window, shrunk>>
SaveQuestion == stream.st = "meta" /\ Save("saved", stream.q)
SaveAnswer   == stream.st = "saved" /\ stream.row # "none" /\ Save("answered", Answer)

\* The first token appends the row that every further one writes to.
Token ==
  /\ stream.st = "saved" /\ stream.row = "none"
  /\ stream' = [stream EXCEPT !.row = "in"]
  /\ screen' = screen \cup {Answer}
  /\ UNCHANGED <<backend, ids, convId, known, syncs, crossed, window, shrunk>>

\* The reader is done.
Done ==
  /\ stream.st = "answered" /\ known' = known + 2 /\ stream' = Quiet
  /\ UNCHANGED <<backend, ids, convId, screen, syncs, crossed, window, shrunk>>

\* An error answer, an error in the stream or a broken connection: showError.
\* Mutant: the two messages are counted in the finally block.
Break_Counts ==
  /\ Streaming /\ known' = known + 2 /\ stream' = Quiet
  /\ UNCHANGED <<backend, ids, convId, screen, syncs, crossed, window, shrunk>>
Break ==
  /\ Streaming /\ stream' = Quiet
  /\ UNCHANGED <<backend, ids, convId, known, screen, syncs, crossed, window, shrunk>>

-----------------------------------------------------------------------------
(* syncMessages.                                                           *)

\* Every five seconds, and once the configuration has been loaded.
Poll ==
  /\ convId # 0 /\ ~Streaming /\ Cardinality(syncs) < MaxSyncs
  /\ syncs' = syncs \cup {[conv |-> convId, st |-> "asked", got |-> {}]}
  /\ crossed' = (crossed \/ syncs # {})
  /\ UNCHANGED <<backend, ids, convId, known, screen, stream, window, shrunk>>

ServeSync(s) ==
  /\ s \in syncs /\ s.st = "asked"
  /\ syncs' = (syncs \ {s}) \cup
       {IF s.conv \in live THEN [s EXCEPT !.st = "ok", !.got = saved[s.conv]]
                           ELSE [s EXCEPT !.st = "gone"]}
  /\ UNCHANGED <<backend, ids, convId, known, screen, stream, crossed, window, shrunk>>

\* Neither an answer nor a 404.
\* Mutant: the conversation is forgotten.
LoseSync_Forgets(s) ==
  /\ s \in syncs /\ s.st = "asked" /\ syncs' = syncs \ {s} /\ convId' = 0 /\ known' = 0
  /\ UNCHANGED <<backend, ids, screen, stream, crossed, window, shrunk>>
LoseSync(s) ==
  /\ s \in syncs /\ s.st = "asked" /\ syncs' = syncs \ {s}
  /\ UNCHANGED <<backend, ids, convId, known, screen, stream, crossed, window, shrunk>>

\* The box is filled anew when there are more messages than known; while the
\* window is closed, the badge counts them.
\* Mutant: it is filled with the history only, news are counted.
ArriveSync_History(s) ==
  /\ s \in syncs /\ s.st = "ok" /\ syncs' = syncs \ {s}
  /\ IF Cardinality(s.got) > known
     THEN /\ screen' = IF known = 0 THEN s.got ELSE screen
          /\ known' = Cardinality(s.got)
          /\ unread' = IF open THEN unread ELSE unread + Cardinality(s.got) - known
          /\ stream' = [stream EXCEPT !.row = IF @ = "in" THEN "out" ELSE @]
     ELSE UNCHANGED <<screen, known, unread, stream>>
  /\ UNCHANGED <<backend, ids, convId, open, crossed, shrunk>>
ArriveSync(s) ==
  /\ s \in syncs /\ s.st = "ok" /\ syncs' = syncs \ {s}
  /\ IF Cardinality(s.got) > known
     THEN /\ screen' = s.got /\ known' = Cardinality(s.got)
          /\ unread' = IF open THEN unread ELSE unread + Cardinality(s.got) - known
          /\ stream' = [stream EXCEPT !.row = IF @ = "in" THEN "out" ELSE @]
     ELSE UNCHANGED <<screen, known, unread, stream>>
  /\ UNCHANGED <<backend, ids, convId, open, crossed, shrunk>>

\* 404: the conversation is forgotten.
Forget(s) ==
  /\ s \in syncs /\ s.st = "gone" /\ syncs' = syncs \ {s}
  /\ convId' = 0 /\ known' = 0
  /\ UNCHANGED <<backend, ids, screen, stream, crossed, window, shrunk>>

\* The page is loaded anew; the server ends a stream nobody reads.
Reload ==
  /\ known' = 0 /\ screen' = {} /\ open' = FALSE /\ unread' = 0
  /\ stream' = Quiet /\ syncs' = {} /\ crossed' = FALSE
  /\ UNCHANGED <<backend, ids, convId, shrunk>>

-----------------------------------------------------------------------------
(* What others do to a conversation.                                       *)

\* An agent replies from the dashboard; another tab of the visitor asks.
AgentReplies(c) ==
  /\ c \in live /\ saved[c] # {} /\ ids < MaxIds /\ ids' = ids + 1
  /\ saved' = [saved EXCEPT ![c] = @ \cup {ids + 1}]
  /\ UNCHANGED <<made, live, convId, known, screen, stream, syncs, crossed, window, shrunk>>

\* The memory task replaces all messages but the last ones by a summary.
Compress(c) ==
  /\ c \in live /\ Cardinality(saved[c]) > 2 /\ ids < MaxIds /\ ids' = ids + 1
  /\ saved' = [saved EXCEPT ![c] = {ids + 1, CHOOSE i \in @ : \A j \in @ : j <= i}]
  /\ shrunk' = TRUE
  /\ UNCHANGED <<made, live, convId, known, screen, stream, syncs, window, crossed>>

Delete(c) ==
  /\ c \in live /\ live' = live \ {c}
  /\ UNCHANGED <<made, saved, ids, convId, known, screen, stream, syncs, crossed, window, shrunk>>

WidgetNext ==
  \/ SendMessage \/ Recover \/ Meta \/ SaveQuestion \/ SaveAnswer \/ Token \/ Done \/ Break
  \/ Toggle \/ Poll \/ Reload
  \/ \E s \in syncs : ServeSync(s) \/ LoseSync(s) \/ ArriveSync(s) \/ Forget(s)
  \/ \E c \in Convs : AgentReplies(c) \/ Compress(c) \/ Delete(c)

WidgetSpec == WidgetInit /\ [][WidgetNext]_widgetVars

\* A stream ends, the timer ticks, answers are handled, and the network does not
\* lose every poll.
WidgetFairSpec ==
  /\ WidgetSpec /\ WF_widgetVars(Poll)
  /\ WF_widgetVars(SaveQuestion \/ SaveAnswer \/ Token \/ Done \/ Break \/ Recover)
  /\ SF_widgetVars(\E s \in syncs : ServeSync(s))
  /\ WF_widgetVars(\E s \in syncs : ArriveSync(s) \/ Forget(s))

-----------------------------------------------------------------------------
WidgetTypeOK ==
  /\ made \in 0..MaxConvs /\ live \subseteq 1..made /\ saved \in [Convs -> SUBSET Ids]
  /\ ids \in 0..MaxIds /\ convId \in 0..MaxConvs /\ known \in Nat /\ screen \subseteq Ids
  /\ open \in BOOLEAN /\ unread \in Nat
  /\ stream \in Stream /\ syncs \subseteq Sync /\ crossed \in BOOLEAN /\ shrunk \in BOOLEAN

\* The widget never counts more messages than its conversation has, whatever
\* part of a turn was saved when a stream broke, unless a poll was under way with
\* a stream or another poll, or the memory was compressed: it would then show
\* nothing new until the conversation has outgrown the count.  Nor does the badge,
\* which has forgotten the last conversation when the next one starts.
NeverOvercounts ==
  ~crossed /\ ~shrunk /\ convId # 0 => unread <= known /\ known <= Cardinality(saved[convId])

\* Nor does it forget a conversation that still exists.
ForgetsOnlyTheGone ==
  [][convId # 0 /\ convId' = 0 => crossed \/ convId \notin live]_widgetVars

\* Every message saved in the conversation comes to be shown, however turns
\* break, unless a poll crosses another request, the memory is compressed, or the
\* page is reloaded for ever.
Settles == <>[][~Reload]_widgetVars
MessagesAreShown ==
  []~(crossed \/ shrunk) /\ Settles =>
    \A i \in Ids : convId # 0 /\ i \in saved[convId] ~>
                     convId = 0 \/ i \notin saved[convId] \/ i \in screen
=============================================================================
