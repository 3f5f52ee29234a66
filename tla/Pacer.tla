-------------------------------- MODULE Pacer --------------------------------
(***************************************************************************)
(* What a rate limit promises: grants are at least Interval apart.  Time   *)
(* is discrete and advances by single units.  sinceFirst is the time since *)
(* the first grant; it stops at Horizon, beyond which it tells nothing.    *)
(***************************************************************************)
EXTENDS Naturals

CONSTANTS
  Interval,    \* least time from one grant to the next
  MaxGrants    \* bound on the grants, for finite instances

ASSUME IntervalAssumption == Interval \in Nat
ASSUME MaxGrantsAssumption == MaxGrants \in Nat

VARIABLES
  elapsed,     \* time since the last grant; more than Interval is no news
  granted,     \* number of grants
  sinceFirst

Horizon == MaxGrants * Interval
Until(limit, t) == IF t < limit THEN t + 1 ELSE limit

Init == elapsed \in 0..Interval /\ granted = 0 /\ sinceFirst = 0

Pass ==
  /\ elapsed' = Until(Interval, elapsed)
  /\ sinceFirst' = IF granted = 0 THEN 0 ELSE Until(Horizon, sinceFirst)
  /\ UNCHANGED granted

Grant ==
  /\ elapsed = Interval /\ granted < MaxGrants
  /\ elapsed' = 0 /\ granted' = granted + 1
  /\ UNCHANGED sinceFirst

Next == Pass \/ Grant
Spec == Init /\ [][Next]_<<elapsed, granted, sinceFirst>>
=============================================================================
