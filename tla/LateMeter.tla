----------------------------- MODULE LateMeter ------------------------------
(***************************************************************************)
(* A quota that is checked when an operation starts and charged when it    *)
(* ends: what UsageService promises, seen without the operations.          *)
(***************************************************************************)
EXTENDS Naturals

CONSTANTS Limit,  \* the plan's quota
          Slots   \* operations that can be between check and charge at once

VARIABLES used,    \* units charged
          pending  \* operations admitted and not yet charged

Init == used = 0 /\ pending = 0

Admit ==
  /\ used < Limit
  /\ pending < Slots
  /\ pending' = pending + 1
  /\ UNCHANGED used

Charge ==
  /\ pending > 0
  /\ pending' = pending - 1
  /\ used' = used + 1

\* The operation failed after the check: it is never charged.
Abandon ==
  /\ pending > 0
  /\ pending' = pending - 1
  /\ UNCHANGED used

Next == Admit \/ Charge \/ Abandon

Spec == Init /\ [][Next]_<<used, pending>>
=============================================================================
