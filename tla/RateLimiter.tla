----------------------------- MODULE RateLimiter -----------------------------
(***************************************************************************)
(* _RateLimiter of src/dribik/scanner.py, "thread-safe": threads call      *)
(* wait(), which takes the lock, reads the clock, sleeps for what is left  *)
(* of the interval, stamps _last with a second reading and lets the lock   *)
(* go.  elapsed stands for monotonic() - _last.  The code compares it with *)
(* the interval and with nothing else, so it stops there.                  *)
(***************************************************************************)
EXTENDS Pacer, FiniteSets

CONSTANTS Thread, NoThread
ASSUME ThreadAssumption == IsFiniteSet(Thread) /\ NoThread \notin Thread

VARIABLES
  lock,        \* the thread that holds _lock
  pc,          \* thread -> where it stands in wait()
  left         \* thread -> what remains of its sleep

vars == <<elapsed, granted, sinceFirst, lock, pc, left>>

Inside == {t \in Thread : pc[t] # "out"}

(* _last starts at 0.0, so a new limiter may find any time elapsed.        *)
LimiterInit ==
  /\ Init
  /\ lock = NoThread
  /\ pc = [t \in Thread |-> "out"] /\ left = [t \in Thread |-> 0]

(* A thread calls wait(); MaxGrants bounds the calls of a run.             *)
Enter(t) ==
  /\ pc[t] = "out" /\ granted + Cardinality(Inside) < MaxGrants
  /\ pc' = [pc EXCEPT ![t] = "blocked"]
  /\ UNCHANGED <<elapsed, granted, sinceFirst, lock, left>>

(* threading.Lock has no queue: any thread that waits may get it.          *)
Acquire(t) ==
  /\ pc[t] = "blocked" /\ lock = NoThread
  /\ lock' = t
  /\ pc' = [pc EXCEPT ![t] = "reading"]
  /\ UNCHANGED <<elapsed, granted, sinceFirst, left>>

(* now = monotonic(), wait_for = interval - (now - last), sleep if > 0.    *)
Read(t) ==
  /\ pc[t] = "reading"
  /\ left' = [left EXCEPT ![t] = Interval - elapsed]
  /\ pc' = [pc EXCEPT ![t] = "sleeping"]
  /\ UNCHANGED <<elapsed, granted, sinceFirst, lock>>

(* Slips: the thread does not sleep; it does not let go of the lock.       *)
StampEarly(t) ==
  /\ pc[t] = "sleeping"
  /\ elapsed' = 0 /\ granted' = granted + 1
  /\ lock' = NoThread
  /\ pc' = [pc EXCEPT ![t] = "out"]
  /\ left' = [left EXCEPT ![t] = 0] /\ UNCHANGED sinceFirst

StampKeepsLock(t) ==
  /\ pc[t] = "sleeping" /\ left[t] = 0
  /\ elapsed' = 0 /\ granted' = granted + 1
  /\ pc' = [pc EXCEPT ![t] = "out"]
  /\ UNCHANGED <<sinceFirst, left, lock>>

(* The sleep is over: _last = monotonic(), and the lock is released.       *)
Stamp(t) ==
  /\ pc[t] = "sleeping" /\ left[t] = 0
  /\ elapsed' = 0 /\ granted' = granted + 1
  /\ lock' = NoThread
  /\ pc' = [pc EXCEPT ![t] = "out"]
  /\ UNCHANGED <<sinceFirst, left>>

Tick ==
  /\ Pass
  /\ left' = [t \in Thread |-> IF left[t] > 0 THEN left[t] - 1 ELSE 0]
  /\ UNCHANGED <<lock, pc>>

Call(t) == Acquire(t) \/ Read(t) \/ Stamp(t)
LimiterNext == Tick \/ \E t \in Thread : Enter(t) \/ Call(t)

(* Time passes, and a thread that can go on does.  Nothing more is asked   *)
(* of the lock: calls are finitely many, so the others run out of them.    *)
LimiterSpec ==
  LimiterInit /\ [][LimiterNext]_vars /\ WF_vars(Tick) /\ \A t \in Thread : WF_vars(Call(t))
-----------------------------------------------------------------------------
(* Types of the limiter's state.                                           *)
TypeOK ==
  /\ elapsed \in 0..Interval /\ granted \in 0..MaxGrants /\ sinceFirst \in 0..Horizon
  /\ lock \in Thread \union {NoThread}
  /\ pc \in [Thread -> {"out", "blocked", "reading", "sleeping"}]
  /\ left \in [Thread -> 0..Interval]

(* A thread sleeps only while it holds the lock, and until its interval    *)
(* is really over: no other thread's grant is slipped in underneath it.    *)
SleepIsLongEnough ==
  \A t \in Thread :
    pc[t] = "sleeping" => lock = t /\ left[t] + elapsed >= Interval

(* --rate is kept however the threads interleave: n grants after the       *)
(* first have taken at least n intervals.                                  *)
RateKept == granted > 0 => (granted - 1) * Interval + elapsed <= sinceFirst

(* Every call of wait() returns, whoever the lock prefers.                 *)
EveryWaitReturns == \A t \in Thread : pc[t] = "blocked" ~> pc[t] = "out"

(* The limiter implements the pacer: it grants only when one is due.       *)
ImplementsPacer == Spec
=============================================================================
