--------------------------- MODULE WebhookDelivery ---------------------------
(***************************************************************************)
(* Outbound webhooks.  fire_webhook_event queues a Celery task or, when    *)
(* the broker cannot be reached, starts the dispatch in the event loop.    *)
(* A dispatch loads the active endpoints that subscribe to its event once, *)
(* posts to one after the other, and commits a delivery record and the     *)
(* failure counter after each.  A request that is refused, fails or times  *)
(* out is a failed delivery; what is posted is not part of the state.      *)
(* Endpoints are numbered in the order of their creation.                  *)
(***************************************************************************)
EXTENDS Naturals, Sequences, FiniteSets, FiniteSetsExt

CONSTANTS Hooks,         \* endpoints of one organization
          Events,        \* events that are fired, each a dispatch
          Subscribers,   \* the endpoints whose subscribed_events match each
          FailureLimit,  \* consecutive failures that disable an endpoint (50)
          Retries        \* max_retries of the task (3)

ASSUME WebhookAssumption ==
  /\ Hooks \subseteq Nat /\ Subscribers \in [Events -> SUBSET Hooks]
  /\ FailureLimit \in Nat \ {0} /\ Retries \in Nat

VARIABLES
  endpoint,    \* webhook_endpoints: is_active and consecutive_failures
  deliveries,  \* webhook_deliveries of each endpoint, in the order of creation
  dispatch,    \* state of each dispatch, retries left, endpoints still to post to
  paused,      \* history: endpoints whose owner switched them off last
  owed         \* history: endpoints active from the firing of an event on

deliveryVars == <<endpoint, deliveries, dispatch, paused, owed>>

NoLoaded == [h \in {} |-> 0]

DeliveryInit ==
  /\ endpoint = [h \in Hooks |-> [st |-> "new", active |-> FALSE, failures |-> 0]]
  /\ deliveries = [h \in Hooks |-> <<>>]
  /\ dispatch = [e \in Events |-> [st |-> "none", left |-> 0, todo |-> NoLoaded]]
  /\ paused = {} /\ owed = [e \in Events |-> {}]

-----------------------------------------------------------------------------
\* What a row that is switched off or deleted is no longer owed.
Excuse(h) == owed' = [e \in Events |-> owed[e] \ {h}]

RegisterEndpoint(h) ==
  /\ endpoint[h].st = "new" /\ \A g \in Hooks : g < h => endpoint[g].st # "new"
  /\ endpoint' = [endpoint EXCEPT ![h] = [st |-> "up", active |-> TRUE, failures |-> 0]]
  /\ UNCHANGED <<deliveries, dispatch, paused, owed>>

\* update_endpoint with is_active: the failure counter stays.
SetActive(h, on) ==
  /\ endpoint[h].st = "up"
  /\ endpoint' = [endpoint EXCEPT ![h].active = on]
  /\ IF on THEN paused' = paused \ {h} /\ UNCHANGED owed
           ELSE paused' = paused \cup {h} /\ Excuse(h)
  /\ UNCHANGED <<deliveries, dispatch>>

RemoveEndpoint(h) ==
  /\ endpoint[h].st = "up"
  /\ endpoint' = [endpoint EXCEPT ![h] = [st |-> "gone", active |-> FALSE, failures |-> 0]]
  /\ deliveries' = [deliveries EXCEPT ![h] = <<>>]
  /\ Excuse(h) /\ UNCHANGED <<dispatch, paused>>

-----------------------------------------------------------------------------
ActiveFor(e) == {h \in Subscribers[e] : endpoint[h].active}

\* Celery, or the event loop, where nothing is tried again.
FireEvent(e) ==
  /\ dispatch[e].st = "none"
  /\ \E left \in {Retries, 0} :
       dispatch' = [dispatch EXCEPT ![e].st = "queued", ![e].left = left]
  /\ owed' = [owed EXCEPT ![e] = ActiveFor(e)]
  /\ UNCHANGED <<endpoint, deliveries, paused>>

\* dispatch_event: the endpoints, their counters included, are read once.
LoadEndpoints(e) ==
  /\ dispatch[e].st = "queued"
  /\ dispatch' = [dispatch EXCEPT
       ![e].st = IF ActiveFor(e) = {} THEN "done" ELSE "running",
       ![e].todo = [h \in ActiveFor(e) |-> endpoint[h].failures]]
  /\ UNCHANGED <<endpoint, deliveries, paused, owed>>

\* Mutant: the dispatch that raised is taken as done.
AfterError_Done(e) == [dispatch EXCEPT ![e].st = "done", ![e].todo = NoLoaded]

\* An exception leaves dispatch_event: the task is queued again as a whole, up to
\* max_retries times, or the error is logged and the event is lost.
AfterError(e) ==
  [dispatch EXCEPT ![e].st = IF dispatch[e].left > 0 THEN "queued" ELSE "lost",
                   ![e].left = IF @ > 0 THEN @ - 1 ELSE 0,
                   ![e].todo = NoLoaded]

\* The database refuses, at any point.
DispatchRaises(e) ==
  /\ dispatch[e].st \in {"queued", "running"} /\ dispatch' = AfterError(e)
  /\ UNCHANGED <<endpoint, deliveries, paused, owed>>

\* The worker dies: a task is acknowledged when it is received.
WorkerDies(e) ==
  /\ dispatch[e].st = "running"
  /\ dispatch' = [dispatch EXCEPT ![e].st = "lost", ![e].todo = NoLoaded]
  /\ UNCHANGED <<endpoint, deliveries, paused, owed>>

\* Mutant: an endpoint is disabled one failure too early.
IncrementFailure_Early(row, loaded) ==
  [row EXCEPT !.failures = loaded + 1, !.active = @ /\ loaded + 2 < FailureLimit]

\* increment_failure and reset_failures write the value computed from the one that
\* was loaded; a reset of a counter that was 0 when loaded writes nothing.
IncrementFailure(row, loaded) ==
  [row EXCEPT !.failures = loaded + 1, !.active = @ /\ loaded + 1 < FailureLimit]
ResetFailures(row, loaded) == IF loaded = 0 THEN row ELSE [row EXCEPT !.failures = 0]

\* The newest endpoint still to post to is answered, and what came of it is
\* committed; the record of an endpoint deleted meanwhile violates its foreign key.
PostTo(e, h, ok) ==
  LET d      == dispatch[e]
      rest   == DOMAIN d.todo \ {h}
      row    == IF ok THEN ResetFailures(endpoint[h], d.todo[h])
                      ELSE IncrementFailure(endpoint[h], d.todo[h])
  IN /\ d.st = "running" /\ h = Max(DOMAIN d.todo)
     /\ IF endpoint[h].st = "gone"
        THEN dispatch' = AfterError(e) /\ UNCHANGED <<endpoint, deliveries, owed>>
        ELSE /\ endpoint' = [endpoint EXCEPT ![h] = row]
             /\ deliveries' = [deliveries EXCEPT ![h] = Append(@, [event |-> e, ok |-> ok])]
             /\ dispatch' = [dispatch EXCEPT
                  ![e].st = IF rest = {} THEN "done" ELSE "running",
                  ![e].todo = [g \in rest |-> d.todo[g]]]
             /\ IF row.active THEN UNCHANGED owed ELSE Excuse(h)
     /\ UNCHANGED paused

DeliveryNext ==
  \/ \E h \in Hooks : RegisterEndpoint(h) \/ RemoveEndpoint(h)
  \/ \E h \in Hooks, on \in BOOLEAN : SetActive(h, on)
  \/ \E e \in Events : FireEvent(e) \/ LoadEndpoints(e) \/ DispatchRaises(e) \/ WorkerDies(e)
  \/ \E e \in Events, ok \in BOOLEAN : \E h \in DOMAIN dispatch[e].todo : PostTo(e, h, ok)

-----------------------------------------------------------------------------
DeliveryTypeOK ==
  /\ endpoint \in [Hooks -> [st: {"new", "up", "gone"}, active: BOOLEAN, failures: Nat]]
  /\ \A h \in Hooks : deliveries[h] \in Seq([event: Events, ok: BOOLEAN])
  /\ \A e \in Events : /\ dispatch[e].st \in {"none", "queued", "running", "done", "lost"}
                       /\ dispatch[e].left \in 0..Retries
                       /\ DOMAIN dispatch[e].todo \subseteq Subscribers[e]
  /\ paused \subseteq Hooks /\ owed \in [Events -> SUBSET Hooks]

FailedTo(h) == Cardinality({i \in DOMAIN deliveries[h] : ~deliveries[h][i].ok})

\* However dispatches overlap, and whatever increments they lose, an endpoint that
\* its owner did not switch off is off only with FailureLimit failures in its log;
\* and a dispatch that ends without having been lost has tried every endpoint that
\* was there and on from the event to the end, although it reads them all again
\* when it is tried again.
DeliveriesAreTried ==
  /\ \A h \in Hooks \ paused :
       endpoint[h].st = "up" /\ ~endpoint[h].active => FailedTo(h) >= FailureLimit
  /\ \A e \in Events : dispatch[e].st = "done" =>
       \A h \in owed[e] : \E i \in DOMAIN deliveries[h] : deliveries[h][i].event = e
=============================================================================
