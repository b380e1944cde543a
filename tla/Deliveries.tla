------------------------------ MODULE Deliveries ------------------------------
(***************************************************************************)
(* The delivery log of an endpoint, opened over the table of webhooks.     *)
(* One useResource serves every row: its request is enabled while the      *)
(* dialog is open and keyed by the endpoint and the reload count, and its  *)
(* snapshot outlives the dialog.  A modal dialog keeps the rest of the     *)
(* page from changing; endpoints and dispatches go on in the backend.      *)
(* The inspector of a document's chunks is the same dialog.  A log stands  *)
(* for its length; the model does not reach the limit of 50 rows.          *)
(***************************************************************************)
EXTENDS WebhookDelivery, SequencesExt

CONSTANTS NoHook,     \* no dialog is open
          MaxAsked    \* bound on requests under way

ASSUME DialogAssumption == NoHook \notin Hooks /\ MaxAsked \in Nat

VARIABLES
  dialogOf,   \* deliveriesFor: the endpoint whose dialog is open
  entries,    \* the snapshot
  enquiries,  \* requests under way, the newest last
  activeKey,  \* the endpoint of activeKey.current
  atOpen      \* history: length of the log when the dialog was opened

dialogVars  == <<dialogOf, entries, enquiries, activeKey, atOpen>>
webhookVars == <<deliveryVars, dialogVars>>

\* A snapshot or a request is of an endpoint; "same" says that its reload count is
\* current.
DialogInit ==
  /\ dialogOf = NoHook /\ atOpen = 0 /\ enquiries = <<>> /\ activeKey = NoHook
  /\ entries = [of |-> NoHook, same |-> TRUE, st |-> "null", rows |-> 0]

Enquiry(h) == [of |-> h, same |-> TRUE, st |-> "asked", live |-> TRUE, rows |-> 0]

\* Mutant: the effect has no cleanup.
Cancelled_None(qs) == qs
Cancelled(qs) == [i \in DOMAIN qs |-> [qs[i] EXCEPT !.live = FALSE]]

\* The effect runs when the dialog is enabled or its key changes.
OpenDeliveries(h) ==
  /\ dialogOf = NoHook /\ endpoint[h].st # "new" /\ Len(enquiries) < MaxAsked
  /\ dialogOf' = h /\ activeKey' = h /\ atOpen' = Len(deliveries[h])
  /\ enquiries' = Append(Cancelled(enquiries), Enquiry(h))
  /\ UNCHANGED entries

CloseDeliveries ==
  /\ dialogOf # NoHook /\ dialogOf' = NoHook
  /\ enquiries' = Cancelled(enquiries) /\ UNCHANGED <<entries, activeKey, atOpen>>

ServeDeliveries(i) ==
  /\ enquiries[i].st = "asked"
  /\ \/ /\ endpoint[enquiries[i].of].st = "up"
        /\ enquiries' = [enquiries EXCEPT ![i].st = "served",
                                        ![i].rows = Len(deliveries[enquiries[i].of])]
     \/ enquiries' = [enquiries EXCEPT ![i].st = "failed"]
  /\ UNCHANGED <<dialogOf, entries, activeKey, atOpen>>

\* An answer may be stored when its run was not cancelled and its key is the active
\* one.  Answers arrive in any order.
MayStore(q) == q.live /\ q.same /\ q.of = activeKey

ArriveDeliveries(i) ==
  LET q == enquiries[i] IN
  /\ q.st # "asked" /\ enquiries' = RemoveAt(enquiries, i)
  /\ entries' = IF ~MayStore(q) THEN entries
                ELSE [of |-> q.of, same |-> TRUE, rows |-> q.rows,
                      st |-> IF q.st = "served" THEN "data" ELSE "error"]
  /\ UNCHANGED <<dialogOf, activeKey, atOpen>>

\* What the dialog shows: until its request is answered, the rows that are held.
DialogScreen ==
  IF entries.of = dialogOf /\ entries.same /\ entries.st = "error" THEN "error"
  ELSE IF entries.st = "data" THEN "rows"
  ELSE "skeleton"

RetryDeliveries ==
  /\ dialogOf # NoHook /\ DialogScreen = "error" /\ Len(enquiries) < MaxAsked
  /\ enquiries' = Append([i \in DOMAIN enquiries |->
                            [Cancelled(enquiries)[i] EXCEPT !.same = FALSE]], Enquiry(dialogOf))
  /\ entries' = [entries EXCEPT !.same = FALSE]
  /\ UNCHANGED <<dialogOf, activeKey, atOpen>>

DialogNext ==
  \/ CloseDeliveries \/ RetryDeliveries
  \/ \E h \in Hooks : OpenDeliveries(h)
  \/ \E i \in DOMAIN enquiries : ServeDeliveries(i) \/ ArriveDeliveries(i)

WebhooksNext ==
  \/ DeliveryNext /\ UNCHANGED dialogVars
  \/ DialogNext /\ UNCHANGED deliveryVars

-----------------------------------------------------------------------------
DialogTypeOK ==
  /\ {dialogOf, activeKey} \subseteq Hooks \cup {NoHook} /\ atOpen \in Nat
  /\ entries \in [of: Hooks \cup {NoHook}, same: BOOLEAN, st: {"null", "data", "error"}, rows: Nat]
  /\ \A i \in DOMAIN enquiries : enquiries[i] \in
       [of: Hooks, same: BOOLEAN, st: {"asked", "served", "failed"}, live: BOOLEAN, rows: Nat]

\* Once the open dialog waits for nothing, the rows under its title are the log of
\* that endpoint, no shorter than when the dialog was opened: not those of a row
\* looked at before, nor an older answer to an earlier opening of the same row.
DialogIsCurrent ==
  dialogOf # NoHook /\ DialogScreen = "rows"
    /\ (\A i \in DOMAIN enquiries : ~enquiries[i].live)
  => entries.of = dialogOf /\ entries.rows >= atOpen
=============================================================================
