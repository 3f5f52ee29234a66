------------------------------ MODULE TimeOracle ------------------------------
(***************************************************************************)
(* One time-based SQL injection probe (_probe of src/dribik/vulns/sqli.py) *)
(* against the clock.  What it measures is a whole call of the client: the *)
(* wait for the rate limiter, every failed attempt with the pause after    *)
(* it, and the attempt that was answered.  A call over the threshold is    *)
(* confirmed by a harmless one, which must stay under half of it.          *)
(*                                                                         *)
(* Time is counted in units of which Half make 1.25 seconds; the pause     *)
(* after the first failed attempt is two fifths of that and doubles.       *)
(***************************************************************************)
EXTENDS Integers

CONSTANTS
  Half,          \* _TIME_THRESHOLD * 0.5
  FirstPause,    \* 0.5 s
  MaxRetries,    \* max_retries of the client
  MaxDelay,      \* bound on what one attempt takes
  MaxInterval    \* bound on the limiter's interval

Threshold == 2 * Half

ASSUME TimesAssumption ==
  /\ Half \in Nat \ {0} /\ FirstPause \in Nat /\ MaxRetries \in Nat
  /\ MaxDelay \in Nat /\ MaxInterval \in Nat

(* The first two pauses, 0.5 s and 1 s, exceed half the threshold.         *)
ASSUME BackoffAssumption == MaxRetries >= 2 /\ 3 * FirstPause >= Half

VARIABLES
  interval,      \* 1 / rps of the limiter
  stage,         \* the call in progress, or done
  attempt,       \* of the call in progress
  pause,         \* its next backoff
  elapsed,       \* time since that call began
  since,         \* time since the limiter last let an attempt through
  failed,        \* attempts of the first call that failed
  probed,        \* what the answered attempt of the first call took
  confirmed,     \* the same of the second
  verdict

vars == <<interval, stage, attempt, pause, elapsed, since, failed, probed, confirmed, verdict>>

Stages == {"probe", "confirm", "done"}
Verdicts == {"none", "error", "quick", "slow", "time_based"}

(* The limiter was last used any time ago.                                 *)
Init ==
  /\ interval \in 0..MaxInterval /\ since \in 0..MaxInterval
  /\ stage = "probe" /\ attempt = 0 /\ pause = FirstPause /\ elapsed = 0
  /\ failed = 0 /\ probed = 0 /\ confirmed = 0 /\ verdict = "none"

Wait == IF since < interval THEN interval - since ELSE 0

Conclude(v) == stage' = "done" /\ verdict' = v

(* How long the confirmation took decides; its own error is not looked at. *)
Judge(total) ==
  \/ total >= Half /\ Conclude("slow")
  \/ total < Half /\ Conclude("time_based")

(* Slip: the confirmation's clock starts after the wait for the limiter.   *)
AnsweredUnpaced(d) ==
  /\ stage = "confirm"
  /\ Judge(elapsed + d)
  /\ confirmed' = d
  /\ elapsed' = elapsed + d /\ since' = d
  /\ UNCHANGED <<interval, attempt, pause, failed, probed>>

(* The harmless request is answered, the d-th moment after it was let out. *)
ConfirmAnswered(d) ==
  /\ stage = "confirm"
  /\ Judge(elapsed + Wait + d)
  /\ confirmed' = d
  /\ elapsed' = elapsed + Wait + d /\ since' = d
  /\ UNCHANGED <<interval, attempt, pause, failed, probed>>

(* The payload's request is answered.                                      *)
ProbeAnswered(d) ==
  /\ stage = "probe"
  /\ \/ /\ elapsed + Wait + d >= Threshold
        /\ stage' = "confirm" /\ verdict' = verdict
        /\ elapsed' = 0 /\ attempt' = 0 /\ pause' = FirstPause
     \/ /\ elapsed + Wait + d < Threshold
        /\ Conclude("quick")
        /\ elapsed' = elapsed + Wait + d /\ UNCHANGED <<attempt, pause>>
  /\ probed' = d /\ since' = d
  /\ UNCHANGED <<interval, failed, confirmed>>

(* Slip: the next attempt follows at once.                                 *)
RetryAtOnce(f) ==
  /\ stage # "done" /\ attempt < MaxRetries
  /\ attempt' = attempt + 1 /\ pause' = 2 * pause
  /\ elapsed' = elapsed + Wait + f /\ since' = f
  /\ failed' = IF stage = "probe" THEN failed + 1 ELSE failed
  /\ UNCHANGED <<interval, stage, probed, confirmed, verdict>>

(* An attempt fails after f and is tried again.                            *)
Retry(f) ==
  /\ stage # "done" /\ attempt < MaxRetries
  /\ attempt' = attempt + 1 /\ pause' = 2 * pause
  /\ elapsed' = elapsed + Wait + f + pause /\ since' = f + pause
  /\ failed' = IF stage = "probe" THEN failed + 1 ELSE failed
  /\ UNCHANGED <<interval, stage, probed, confirmed, verdict>>

(* The last attempt fails: the probe is dropped, the confirmation judged.  *)
GiveUp(f) ==
  /\ stage # "done" /\ attempt = MaxRetries
  /\ \/ stage = "probe" /\ Conclude("error")
     \/ stage = "confirm" /\ Judge(elapsed + Wait + f)
  /\ elapsed' = elapsed + Wait + f /\ since' = f
  /\ failed' = IF stage = "probe" THEN failed + 1 ELSE failed
  /\ confirmed' = IF stage = "confirm" THEN MaxDelay + 1 ELSE confirmed
  /\ UNCHANGED <<interval, attempt, pause, probed>>

Next ==
  \E d \in 0..MaxDelay : ProbeAnswered(d) \/ ConfirmAnswered(d) \/ Retry(d) \/ GiveUp(d)

Spec == Init /\ [][Next]_vars
-----------------------------------------------------------------------------
(* Types of the probe's state.                                             *)
TypeOK ==
  /\ interval \in 0..MaxInterval /\ stage \in Stages /\ attempt \in 0..MaxRetries
  /\ pause \in Nat /\ elapsed \in Nat /\ since \in Nat /\ failed \in Nat
  /\ probed \in 0..MaxDelay /\ confirmed \in 0..(MaxDelay + 1)
  /\ verdict \in Verdicts /\ (stage = "done" <=> verdict # "none")

(* The limiter never makes a finding: whatever its interval, a time-based  *)
(* finding whose request did not have to be repeated means that the target *)
(* took longer over the payload than over the harmless request, although   *)
(* both times include the wait for the limiter.                            *)
PayloadWasSlower ==
  verdict = "time_based" /\ failed = 0 => probed > confirmed

(* A confirmation that fails for good confirms nothing, although its error *)
(* is ignored: its pauses alone exceed half the threshold.                 *)
ErrorNeverConfirms ==
  verdict = "time_based" => confirmed <= MaxDelay
=============================================================================
