------------------------------ MODULE Metrics ------------------------------
(***************************************************************************)
(* The charts of the overview and analytics pages: conversations and       *)
(* tickets are sorted into the last Days days of the viewer's clock when   *)
(* they are read.  Instants are in UTC; the viewer's clock runs ahead of   *)
(* it by an offset that summer time changes.  A day has DayLen instants;   *)
(* the ISO date of an instant is the number of its UTC day.                *)
(***************************************************************************)
EXTENDS Integers, FiniteSets, FiniteSetsExt, Functions

CONSTANTS DayLen,   \* instants in a day
          Days,     \* windowDays
          Horizon,  \* bound on the clock
          Offsets,  \* of a viewer's clock
          Items     \* conversations and tickets

\* No clock is changed by more than a day.
ASSUME MetricsAssumption ==
  /\ DayLen \in Nat \ {0} /\ Days \in Nat \ {0} /\ Horizon \in Nat /\ Offsets \subseteq Int
  /\ \A old, new \in Offsets : old - new <= DayLen
  /\ IsFiniteSet(Items)

Instants == 0..Horizon

VARIABLES
  now,    \* the clock
  zone,   \* the viewer's offset: one before an instant, another from it on
  items,  \* backend: when each was opened and last changed, and if it is closed
  chart,  \* the buckets on the page
  fresh   \* history: nothing has happened since they were computed

metricsVars == <<now, zone, items, chart, fresh>>

Item == [is: BOOLEAN, opened: Instants, changed: Instants, closed: BOOLEAN]

LocalDay(i) == (i + (IF i < zone.at THEN zone.old ELSE zone.new)) \div DayLen
IsoDate(i)  == i \div DayLen

\* startOfDay: the instant of the last local midnight, by the offset it had.
StartOfDay(i) ==
  LET midnight == LocalDay(i) * DayLen
  IN IF midnight - zone.old < zone.at THEN midnight - zone.old ELSE midnight - zone.new

\* buildDayBuckets, the first instant of each bucket's day.
\* Mutant: counted back from now.
DayStarts_FromNow == [k \in 1..Days |-> now - (Days - k) * DayLen]
DayStarts == [k \in 1..Days |-> StartOfDay(now) - (Days - k) * DayLen]

\* bucketActivity: the one bucket with the date of an instant's day, if any.
InBucket(k, i) == IsoDate(DayStarts[k]) = IsoDate(StartOfDay(i))

Present == {x \in Items : items[x].is}

\* label, conversations (by their last change), escalations and resolved.
Buckets ==
  [k \in 1..Days |->
     [label    |-> LocalDay(DayStarts[k]),
      touched  |-> Quantify(Present, LAMBDA x : InBucket(k, items[x].changed)),
      created  |-> Quantify(Present, LAMBDA x : InBucket(k, items[x].opened)),
      resolved |-> Quantify(Present, LAMBDA x : items[x].closed /\ InBucket(k, items[x].changed))]]

\* trendDelta: the change between the halves of a series, as a fraction; {} for null.
Total(values, from, to) == FoldFunctionOnSet(+, 0, values, from..to)
TrendDelta(values) ==
  LET mid  == Days \div 2
      prev == Total(values, 1, mid)
      curr == Total(values, mid + 1, Days)
  IN IF Days < 4 \/ (prev = 0 /\ curr > 0) THEN {} ELSE {[more |-> curr - prev, of |-> prev]}

\* "Conversations today", and the arrow of its tile.
Trend == TrendDelta([k \in 1..Days |-> chart[k].touched])
Arrow == IF \A d \in Trend : d.more = 0 THEN "none" ELSE IF \E d \in Trend : d.more > 0 THEN "up" ELSE "down"

MetricsInit ==
  /\ now = 0 /\ fresh = FALSE /\ chart = <<>>
  /\ zone \in [old: Offsets, new: Offsets, at: Instants]
  /\ items = [x \in Items |-> [is |-> FALSE, opened |-> 0, changed |-> 0, closed |-> FALSE]]

Pass ==
  /\ now < Horizon /\ now' = now + 1 /\ fresh' = FALSE
  /\ UNCHANGED <<zone, items, chart>>

\* A conversation is opened, goes on, is closed or opened again.
Happen(x) ==
  /\ \/ /\ ~items[x].is
        /\ items' = [items EXCEPT ![x] = [is |-> TRUE, opened |-> now, changed |-> now, closed |-> FALSE]]
     \/ /\ items[x].is
        /\ \E c \in BOOLEAN : items' = [items EXCEPT ![x].changed = now, ![x].closed = c]
  /\ fresh' = FALSE
  /\ UNCHANGED <<now, zone, chart>>

\* useSupportSnapshot: the lists arrive; until then the charts stay, past midnight.
Draw ==
  /\ chart' = Buckets /\ fresh' = TRUE
  /\ UNCHANGED <<now, zone, items>>

MetricsNext == Pass \/ Draw \/ \E x \in Items : Happen(x)

-----------------------------------------------------------------------------
MetricsTypeOK ==
  /\ now \in Instants /\ fresh \in BOOLEAN /\ items \in [Items -> Item]
  /\ zone \in [old: Offsets, new: Offsets, at: Instants]
  /\ chart \in {<<>>} \cup [1..Days -> [label: Int, touched: Nat, created: Nat, resolved: Nat]]

\* The offset is the same throughout the window and on the day before it.
Steady == zone.old = zone.new \/ zone.at > now \/ zone.at + DayLen <= DayStarts[1]

\* Wherever the viewer is and at whatever hour: without a change of summer time
\* in the window, the buckets are the last days, today the last of them, and each
\* conversation and ticket is counted on its own local day and on no other, and
\* the arrow says whether more went on in the later days than in the earlier.
CountedOnItsDay ==
  fresh /\ Steady =>
    /\ LET In(from, to) == Quantify(Present, LAMBDA x : LocalDay(now) - LocalDay(items[x].changed) \in from..to)
           late  == In(0, Days - Days \div 2 - 1)
           early == In(Days - Days \div 2, Days - 1)
       IN Days >= 4 => Arrow = IF early = 0 \/ late = early THEN "none"
                               ELSE IF late > early THEN "up" ELSE "down"
    /\ \A k \in 1..Days :
         LET day == LocalDay(now) - (Days - k) IN
           /\ chart[k].label = day
           /\ chart[k].touched = Quantify(Present, LAMBDA x : LocalDay(items[x].changed) = day)
           /\ chart[k].created = Quantify(Present, LAMBDA x : LocalDay(items[x].opened) = day)
           /\ chart[k].resolved = Quantify(Present, LAMBDA x : items[x].closed /\ LocalDay(items[x].changed) = day)
=============================================================================
