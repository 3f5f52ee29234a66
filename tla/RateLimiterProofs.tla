--------------------------- MODULE RateLimiterProofs ---------------------------
(***************************************************************************)
(* Proofs about the rate limiter, for any finite number of threads, any    *)
(* interval and any number of calls.                                       *)
(***************************************************************************)
EXTENDS RateLimiter, FiniteSetTheorems, TLAPS

(* The lock is held by the thread that reads or sleeps, and by it alone.   *)
LockHeld ==
  \A t \in Thread : pc[t] \in {"reading", "sleeping"} <=> lock = t

(* Calls that are inside wait() were counted when they entered.            *)
CallsCounted == granted + Cardinality(Inside) <= MaxGrants

(* SleepIsLongEnough is not inductive alone: it holds because nobody can   *)
(* stamp while another thread sleeps, which is what LockHeld says.         *)
PaceInv == TypeOK /\ LockHeld /\ CallsCounted /\ SleepIsLongEnough /\ RateKept

(* Arithmetic on products, which the steps below only cite.                *)
LEMMA Products ==
  ASSUME NEW n \in Nat, NEW k \in Nat, NEW m \in Nat, n <= m
  PROVE  /\ n * k \in Nat /\ n * k <= m * k
         /\ n > 0 => (n - 1) * k + k = n * k
<1>1. n * k \in Nat /\ (n > 0 => (n - 1) * k + k = n * k)
  OBVIOUS
<1>2. PICK d \in Nat : m = n + d
  <2>1. m - n \in Nat /\ m = n + (m - n)
    OBVIOUS
  <2> QED BY <2>1
<1>3. m * k = n * k + d * k /\ d * k \in Nat
  BY <1>2
<1> QED BY <1>1, <1>3

(* The threads inside wait() are finitely many, and how their number       *)
(* changes when one enters or leaves.                                      *)
LEMMA InsideFinite == IsFiniteSet(Inside) /\ Cardinality(Inside) \in Nat
<1>1. IsFiniteSet(Inside)
  BY ThreadAssumption, FS_Subset DEF Inside
<1> QED BY <1>1, FS_CardinalityType

(* A thread that enters wait() is one more inside.                         *)
LEMMA InsideGrows ==
  ASSUME TypeOK, NEW t \in Thread, pc[t] = "out", NEW q, q # "out",
         pc' = [pc EXCEPT ![t] = q]
  PROVE  Cardinality(Inside') = Cardinality(Inside) + 1
<1>1. Inside' = Inside \union {t} /\ t \notin Inside
  BY DEF Inside, TypeOK
<1> QED BY <1>1, InsideFinite, FS_AddElement

(* A thread that leaves wait() is one less inside.                         *)
LEMMA InsideShrinks ==
  ASSUME TypeOK, NEW t \in Thread, pc[t] # "out", pc' = [pc EXCEPT ![t] = "out"]
  PROVE  Cardinality(Inside') = Cardinality(Inside) - 1
<1>1. Inside' = Inside \ {t} /\ t \in Inside
  BY DEF Inside, TypeOK
<1> QED BY <1>1, InsideFinite, FS_RemoveElement

(* A new limiter, nobody inside, owes no time.                             *)
LEMMA PaceInit == LimiterInit => PaceInv
<1> SUFFICES ASSUME LimiterInit PROVE PaceInv
  OBVIOUS
<1>1. Inside = {}
  BY DEF LimiterInit, Inside
<1>2. Cardinality(Inside) = 0
  BY <1>1, FS_EmptySet
<1>3. Horizon \in Nat
  BY IntervalAssumption, MaxGrantsAssumption, Products DEF Horizon
<1> QED BY <1>2, <1>3, ThreadAssumption, IntervalAssumption, MaxGrantsAssumption
     DEF LimiterInit, Init, PaceInv, TypeOK, LockHeld, CallsCounted, SleepIsLongEnough, RateKept

(* Threads and the clock keep the pace.                                    *)
LEMMA PaceStep == PaceInv /\ [LimiterNext]_vars => PaceInv'
<1> SUFFICES ASSUME PaceInv, [LimiterNext]_vars PROVE PaceInv'
  OBVIOUS
<1> USE IntervalAssumption, MaxGrantsAssumption, ThreadAssumption DEF PaceInv
<1>0. Horizon \in Nat /\ Cardinality(Inside) \in Nat
  BY InsideFinite, Products DEF Horizon
<1>1. ASSUME NEW t \in Thread, Enter(t) PROVE PaceInv'
  <2>0. Cardinality(Inside') = Cardinality(Inside) + 1
    <3>1. "blocked" # "out"
      OBVIOUS
    <3> QED BY <1>1, <3>1, InsideGrows DEF Enter
  <2>1. CallsCounted'
    BY <1>0, <1>1, <2>0 DEF Enter, CallsCounted, TypeOK
  <2>2. TypeOK' /\ LockHeld' /\ SleepIsLongEnough' /\ RateKept'
    BY <1>1 DEF Enter, TypeOK, LockHeld, SleepIsLongEnough, RateKept, Horizon
  <2> QED BY <2>1, <2>2
<1>2. ASSUME NEW t \in Thread, Acquire(t) PROVE PaceInv'
  <2>1. Inside' = Inside
    BY <1>2 DEF Acquire, Inside, TypeOK
  <2>2. TypeOK' /\ LockHeld' /\ SleepIsLongEnough' /\ RateKept'
    BY <1>2 DEF Acquire, TypeOK, LockHeld, SleepIsLongEnough, RateKept, Horizon
  <2> QED BY <1>2, <2>1, <2>2 DEF CallsCounted, Acquire
<1>3. ASSUME NEW t \in Thread, Read(t) PROVE PaceInv'
  <2>1. Inside' = Inside
    BY <1>3 DEF Read, Inside, TypeOK
  <2>2. TypeOK' /\ LockHeld' /\ SleepIsLongEnough' /\ RateKept'
    BY <1>3 DEF Read, TypeOK, LockHeld, SleepIsLongEnough, RateKept, Horizon
  <2> QED BY <1>3, <2>1, <2>2 DEF CallsCounted, Read
<1>4. ASSUME NEW t \in Thread, Stamp(t) PROVE PaceInv'
  <2>1. Cardinality(Inside') = Cardinality(Inside) - 1
    BY <1>4, InsideShrinks DEF Stamp
  <2>2. Cardinality(Inside) > 0
    BY <1>0, <1>4, InsideFinite, FS_EmptySet DEF Stamp, Inside
  <2>3. CallsCounted'
    BY <1>0, <1>4, <2>1 DEF Stamp, CallsCounted, TypeOK
  <2>4. granted' \in 0..MaxGrants
    BY <1>0, <1>4, <2>2 DEF Stamp, CallsCounted, TypeOK
  <2>5. TypeOK'
    BY <1>4, <2>4 DEF Stamp, TypeOK, Horizon
  <2>6. LockHeld' /\ SleepIsLongEnough'
    BY <1>4 DEF Stamp, LockHeld, SleepIsLongEnough, TypeOK
  <2>7. RateKept'
    <3>1. elapsed >= Interval /\ elapsed' = 0 /\ granted' = granted + 1 /\ sinceFirst' = sinceFirst
      BY <1>4 DEF Stamp, SleepIsLongEnough, TypeOK
    <3>2. CASE granted = 0
      BY <3>1, <3>2 DEF RateKept, TypeOK
    <3>3. CASE granted > 0
      <4>1. (granted - 1) * Interval + Interval = granted * Interval
        BY <3>3, Products DEF TypeOK
      <4> QED BY <3>1, <3>3, <4>1, Products, <1>0 DEF RateKept, TypeOK
    <3> QED BY <3>2, <3>3 DEF TypeOK
  <2> QED BY <2>3, <2>5, <2>6, <2>7
<1>5. CASE Tick
  <2>1. Inside' = Inside /\ CallsCounted' /\ LockHeld'
    BY <1>5 DEF Tick, Pass, Inside, CallsCounted, LockHeld
  <2>2. /\ elapsed' = (IF elapsed < Interval THEN elapsed + 1 ELSE Interval)
        /\ sinceFirst' = (IF granted = 0 THEN 0 ELSE
                           IF sinceFirst < Horizon THEN sinceFirst + 1 ELSE Horizon)
        /\ granted' = granted
    BY <1>5 DEF Tick, Pass, Until
  <2>3. TypeOK'
    BY <1>0, <1>5, <2>2 DEF Tick, TypeOK, Horizon
  <2>4. SleepIsLongEnough'
    BY <1>5, <2>2 DEF Tick, TypeOK, SleepIsLongEnough
  <2>5. RateKept'
    <3>1. CASE granted > 0
      <4>1. (granted - 1) * Interval + Interval = granted * Interval /\ granted * Interval <= Horizon
        BY <3>1, Products DEF TypeOK, Horizon
      <4>2. (granted - 1) * Interval \in Nat
        BY <3>1, Products DEF TypeOK
      <4>3. (granted - 1) * Interval + elapsed <= sinceFirst
        BY <3>1 DEF RateKept
      <4>4. elapsed \in 0..Interval /\ sinceFirst \in 0..Horizon
        BY DEF TypeOK
      <4>5. (granted - 1) * Interval + elapsed' <= sinceFirst'
        BY <1>0, <2>2, <3>1, <4>1, <4>2, <4>3, <4>4
      <4> QED BY <2>2, <4>5 DEF RateKept
    <3> QED BY <2>2, <3>1 DEF RateKept, TypeOK
  <2> QED BY <2>1, <2>3, <2>4, <2>5
<1>6. CASE UNCHANGED vars
  BY <1>6 DEF vars, TypeOK, LockHeld, CallsCounted, SleepIsLongEnough, RateKept, Inside, Horizon
<1> QED BY <1>1, <1>2, <1>3, <1>4, <1>5, <1>6 DEF LimiterNext, Call

(* The limiter's state keeps its types.                                    *)
THEOREM TypeCorrect == LimiterSpec => []TypeOK
<1>1. PaceInv => TypeOK
  BY DEF PaceInv
<1> QED BY <1>1, PaceInit, PaceStep, PTL DEF LimiterSpec

(* However many threads wait, the one that sleeps sleeps out its interval. *)
THEOREM SleepCorrect == LimiterSpec => []SleepIsLongEnough
<1>1. PaceInv => SleepIsLongEnough
  BY DEF PaceInv
<1> QED BY <1>1, PaceInit, PaceStep, PTL DEF LimiterSpec

(* However many threads call, n more grants take at least n intervals.     *)
THEOREM RateCorrect == LimiterSpec => []RateKept
<1>1. PaceInv => RateKept
  BY DEF PaceInv
<1> QED BY <1>1, PaceInit, PaceStep, PTL DEF LimiterSpec

(* The limiter implements the pacer: Stamp is a Grant that is due, a tick  *)
(* is time passing, and everything else is a stutter.                      *)
THEOREM LimiterRefinesPacer == LimiterSpec => ImplementsPacer
<1>1. LimiterInit => Init
  BY DEF LimiterInit
<1>2. ASSUME PaceInv, [LimiterNext]_vars PROVE [Next]_<<elapsed, granted, sinceFirst>>
  <2>1. ASSUME NEW t \in Thread, Stamp(t) PROVE Next
    <3>1. elapsed = Interval
      BY <1>2, <2>1, IntervalAssumption DEF PaceInv, Stamp, SleepIsLongEnough, TypeOK
    <3>2. granted < MaxGrants
      <4>1. Cardinality(Inside) > 0
        BY <2>1, InsideFinite, FS_EmptySet DEF Stamp, Inside
      <4> QED BY <1>2, <4>1, InsideFinite, MaxGrantsAssumption DEF PaceInv, CallsCounted, TypeOK
    <3> QED BY <2>1, <3>1, <3>2 DEF Next, Grant, Stamp
  <2>2. CASE Tick
    BY <2>2 DEF Tick, Next
  <2>3. ASSUME UNCHANGED <<elapsed, granted, sinceFirst>> PROVE [Next]_<<elapsed, granted, sinceFirst>>
    BY <2>3
  <2> QED BY <1>2, <2>1, <2>2, <2>3 DEF LimiterNext, Call, Enter, Acquire, Read, vars
<1> QED BY <1>1, <1>2, PaceInit, PaceStep, PTL DEF LimiterSpec, ImplementsPacer, Spec
=============================================================================
