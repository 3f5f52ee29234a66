------------------------------ MODULE ScanProofs ------------------------------
(***************************************************************************)
(* Proofs about the scans.  For every threshold, limiter interval and      *)
(* delay: what a time-based finding says about the target, and that a      *)
(* failed confirmation is none (module TimeOracle).  For any parameters,   *)
(* payloads and places, and any target: which hits the loops report, and   *)
(* which payloads they try (module Prober).                                *)
(***************************************************************************)
EXTENDS TimeOracle, Prober, JwtAudit, SequenceTheorems, WellFoundedInduction, TLAPS

(* Where the time of the call in progress comes from: pauses, once there   *)
(* were failures, and in the first call nothing else before them.          *)
Backed ==
  /\ pause >= FirstPause
  /\ attempt = 1 => pause >= 2 * FirstPause /\ elapsed >= FirstPause
  /\ attempt >= 2 => elapsed >= 3 * FirstPause
  /\ stage = "probe" /\ failed = 0 => elapsed = 0

(* What the first answer of a suspected target leaves behind: its delay    *)
(* and one wait made up the threshold, and what that delay did not cover   *)
(* of the interval the second call has waited or has still to wait.        *)
Suspected ==
  stage = "confirm" /\ failed = 0 =>
    /\ probed + interval >= Threshold
    /\ elapsed + Wait + probed >= interval

OracleInv == TypeOK /\ Backed /\ Suspected /\ PayloadWasSlower /\ ErrorNeverConfirms

(* The wait is a time within the interval.                                 *)
LEMMA WaitBounds ==
  ASSUME TypeOK
  PROVE  Wait \in Nat /\ Wait <= interval /\ interval \in Nat /\ since + Wait >= interval
  BY TimesAssumption DEF TypeOK, Wait

(* A scan begins with nothing elapsed.                                     *)
LEMMA OracleInit == Init => OracleInv
  BY TimesAssumption, BackoffAssumption
     DEF Init, OracleInv, TypeOK, Backed, Suspected, PayloadWasSlower, ErrorNeverConfirms, Stages, Verdicts

(* The first answer ends the probe or makes the target a suspect.          *)
LEMMA ProbeStep ==
  ASSUME OracleInv, NEW d \in 0..MaxDelay, ProbeAnswered(d)
  PROVE  OracleInv'
<1> DEFINE w == Wait
<1>0. TypeOK /\ Backed /\ Suspected /\ PayloadWasSlower /\ ErrorNeverConfirms
  BY DEF OracleInv
<1>1. w \in Nat /\ w <= interval /\ interval \in Nat /\ interval' = interval /\ d \in Nat
  BY <1>0, WaitBounds, TimesAssumption DEF ProbeAnswered
<1>2. /\ stage = "probe" /\ elapsed \in Nat /\ verdict = "none" /\ attempt \in 0..MaxRetries
      /\ pause \in Nat /\ failed' = failed /\ failed \in Nat
      /\ probed' = d /\ since' = d /\ confirmed' = confirmed /\ confirmed \in 0..(MaxDelay + 1)
  BY <1>0, TimesAssumption DEF ProbeAnswered, TypeOK, Stages, Verdicts
<1> HIDE DEF w
<1>3. CASE elapsed + w + d >= Threshold
  <2>1. /\ stage' = "confirm" /\ verdict' = verdict /\ elapsed' = 0 /\ attempt' = 0 /\ pause' = FirstPause
    BY <1>0, <1>1, <1>2, <1>3, TimesAssumption DEF ProbeAnswered, Conclude, Threshold, w
  <2>2. failed = 0 => elapsed = 0
    BY <1>0, <1>2 DEF Backed
  <2>3. Wait' = IF d < interval THEN interval - d ELSE 0
    BY <1>0, <1>1, <1>2 DEF Wait
  <2>4. Suspected'
    BY <1>0, <1>1, <1>2, <1>3, <2>1, <2>2, <2>3, TimesAssumption DEF Suspected, Threshold
  <2>5. TypeOK' /\ Backed' /\ PayloadWasSlower' /\ ErrorNeverConfirms'
    BY <1>0, <1>1, <1>2, <2>1, TimesAssumption
       DEF TypeOK, Backed, PayloadWasSlower, ErrorNeverConfirms, Stages, Verdicts
  <2> QED BY <2>4, <2>5 DEF OracleInv
<1>4. CASE elapsed + w + d < Threshold
  <2>1. /\ stage' = "done" /\ verdict' = "quick" /\ elapsed' = elapsed + w + d
        /\ attempt' = attempt /\ pause' = pause
    BY <1>1, <1>2, <1>4, TimesAssumption DEF ProbeAnswered, Conclude, Threshold, w
  <2>2. Backed'
    BY <1>0, <1>1, <1>2, <2>1, TimesAssumption DEF Backed
  <2>3. TypeOK' /\ Suspected' /\ PayloadWasSlower' /\ ErrorNeverConfirms'
    BY <1>0, <1>1, <1>2, <2>1, TimesAssumption
       DEF TypeOK, Suspected, PayloadWasSlower, ErrorNeverConfirms, Stages, Verdicts
  <2> QED BY <2>2, <2>3 DEF OracleInv
<1> QED BY <1>1, <1>2, <1>3, <1>4, TimesAssumption DEF Threshold

(* The confirmation was fast: then its delay lies below the payload's.     *)
LEMMA ConfirmStep ==
  ASSUME OracleInv, NEW d \in 0..MaxDelay, ConfirmAnswered(d)
  PROVE  OracleInv'
<1> DEFINE w == Wait
<1>0. TypeOK /\ Backed /\ Suspected /\ PayloadWasSlower /\ ErrorNeverConfirms
  BY DEF OracleInv
<1>1. w \in Nat /\ w <= interval /\ interval \in Nat /\ interval' = interval /\ d \in Nat
  BY <1>0, WaitBounds, TimesAssumption DEF ConfirmAnswered
<1>2. /\ stage = "confirm" /\ elapsed \in Nat /\ attempt' = attempt /\ attempt \in 0..MaxRetries
      /\ pause' = pause /\ pause \in Nat /\ failed' = failed /\ failed \in Nat
      /\ elapsed' = elapsed + w + d /\ since' = d
      /\ probed' = probed /\ probed \in 0..MaxDelay /\ confirmed' = d
  BY <1>0, TimesAssumption DEF ConfirmAnswered, TypeOK
<1>3. /\ stage' = "done"
      /\ \/ elapsed + w + d >= Half /\ verdict' = "slow"
         \/ elapsed + w + d < Half /\ verdict' = "time_based"
  BY <1>0, <1>1, <1>2, TimesAssumption DEF ConfirmAnswered, Judge, Conclude, w
<1>4. PayloadWasSlower'
  <2> SUFFICES ASSUME verdict' = "time_based", failed = 0 PROVE probed > d
    BY <1>2 DEF PayloadWasSlower
  <2>1. probed + interval >= 2 * Half /\ elapsed + w + probed >= interval /\ probed \in Nat
    BY <1>0, <1>2 DEF Suspected, Threshold, TypeOK, w
  <2>2. elapsed + w + d < Half
    BY <1>3
  <2> HIDE DEF w
  <2> QED BY <1>0, <1>1, <1>2, <2>1, <2>2, TimesAssumption
<1>5. Backed'
  BY <1>0, <1>1, <1>2, <1>3, TimesAssumption DEF Backed
<1>6. TypeOK' /\ Suspected' /\ ErrorNeverConfirms'
  BY <1>0, <1>1, <1>2, <1>3, TimesAssumption DEF TypeOK, Suspected, ErrorNeverConfirms, Stages, Verdicts
<1> QED BY <1>4, <1>5, <1>6 DEF OracleInv

(* A failed attempt adds its pause to the call's time.                     *)
LEMMA RetryStep ==
  ASSUME OracleInv, NEW f \in 0..MaxDelay, Retry(f)
  PROVE  OracleInv'
<1> DEFINE w == Wait
<1>0. TypeOK /\ Backed /\ Suspected /\ PayloadWasSlower /\ ErrorNeverConfirms
  BY DEF OracleInv
<1>1. w \in Nat /\ w <= interval /\ interval \in Nat /\ interval' = interval /\ f \in Nat
  BY <1>0, WaitBounds, TimesAssumption DEF Retry
<1>2. /\ stage' = stage /\ stage \in {"probe", "confirm"} /\ verdict' = verdict /\ probed' = probed /\ confirmed' = confirmed
      /\ elapsed \in Nat /\ pause \in Nat /\ attempt \in 0..(MaxRetries - 1) /\ attempt' = attempt + 1
      /\ pause' = 2 * pause /\ elapsed' = elapsed + w + f + pause /\ since' = f + pause
      /\ failed' = (IF stage = "probe" THEN failed + 1 ELSE failed) /\ failed \in Nat
  BY <1>0, TimesAssumption DEF Retry, TypeOK, Stages
<1> HIDE DEF w
<1>3. TypeOK' /\ PayloadWasSlower' /\ ErrorNeverConfirms'
  BY <1>0, <1>1, <1>2, TimesAssumption DEF TypeOK, PayloadWasSlower, ErrorNeverConfirms
<1>4. Backed'
  BY <1>0, <1>1, <1>2, TimesAssumption DEF Backed
<1>5. Suspected'
  <2> SUFFICES ASSUME stage = "confirm", failed = 0
               PROVE  probed + interval >= Threshold /\ elapsed' + Wait' + probed >= interval
    BY <1>0, <1>1, <1>2 DEF Suspected
  <2>1. probed + interval >= Threshold /\ elapsed + w + probed >= interval /\ probed \in Nat
    BY <1>0 DEF Suspected, TypeOK, w
  <2>2. Wait' \in Nat
    BY <1>0, <1>1, <1>2 DEF Wait
  <2>3. \A v \in Nat : elapsed' + v + probed >= interval
    BY <1>1, <1>2, <2>1
  <2> QED BY <2>1, <2>2, <2>3
<1> QED BY <1>3, <1>4, <1>5 DEF OracleInv

(* A call that fails for good has paused for more than half the threshold. *)
LEMMA GiveUpStep ==
  ASSUME OracleInv, NEW f \in 0..MaxDelay, GiveUp(f)
  PROVE  OracleInv'
<1> DEFINE w == Wait
<1>0. TypeOK /\ Backed /\ Suspected /\ PayloadWasSlower /\ ErrorNeverConfirms
  BY DEF OracleInv
<1>1. w \in Nat /\ interval' = interval /\ f \in Nat
  BY <1>0, WaitBounds, TimesAssumption DEF GiveUp
<1>2. /\ attempt' = attempt /\ attempt = MaxRetries /\ pause' = pause /\ pause \in Nat /\ elapsed \in Nat
      /\ elapsed' = elapsed + w + f /\ since' = f /\ stage # "done" /\ failed' \in Nat
      /\ probed' = probed /\ probed \in 0..MaxDelay /\ confirmed' \in 0..(MaxDelay + 1)
  BY <1>0, TimesAssumption DEF GiveUp, TypeOK, Stages
<1> HIDE DEF w
<1>3. elapsed + w + f >= Half
  BY <1>0, <1>1, <1>2, TimesAssumption, BackoffAssumption DEF Backed
<1>4. stage' = "done" /\ verdict' \in {"error", "slow"}
  BY <1>1, <1>2, <1>3, TimesAssumption DEF GiveUp, Judge, Conclude, w
<1>5. Backed'
  BY <1>0, <1>1, <1>2, <1>4, TimesAssumption DEF Backed
<1>6. TypeOK' /\ Suspected' /\ PayloadWasSlower' /\ ErrorNeverConfirms'
  BY <1>0, <1>1, <1>2, <1>4, TimesAssumption
     DEF TypeOK, Suspected, PayloadWasSlower, ErrorNeverConfirms, Stages, Verdicts
<1> QED BY <1>5, <1>6 DEF OracleInv

(* All steps together.                                                     *)
LEMMA OracleStep == OracleInv /\ [Next]_vars => OracleInv'
<1> SUFFICES ASSUME OracleInv, [Next]_vars PROVE OracleInv'
  OBVIOUS
<1>1. CASE UNCHANGED vars
  BY <1>1 DEF vars, OracleInv, TypeOK, Backed, Suspected, Wait, PayloadWasSlower, ErrorNeverConfirms
<1> QED BY <1>1, ProbeStep, ConfirmStep, RetryStep, GiveUpStep DEF Next

(* The probe's state keeps its types.                                      *)
THEOREM OracleTypeCorrect == Spec => []TypeOK
<1>1. OracleInv => TypeOK
  BY DEF OracleInv
<1> QED BY <1>1, OracleInit, OracleStep, PTL DEF Spec

(* No limiter interval ever makes a finding: a time-based finding without  *)
(* a repeated request means the payload took longer than the harmless one. *)
THEOREM SlowerCorrect == Spec => []PayloadWasSlower
<1>1. OracleInv => PayloadWasSlower
  BY DEF OracleInv
<1> QED BY <1>1, OracleInit, OracleStep, PTL DEF Spec

(* A confirmation that failed for good is never taken for a fast answer.   *)
THEOREM ErrorCorrect == Spec => []ErrorNeverConfirms
<1>1. OracleInv => ErrorNeverConfirms
  BY DEF OracleInv
<1> QED BY <1>1, OracleInit, OracleStep, PTL DEF Spec
-----------------------------------------------------------------------------
(* Rounds: what division says about them.                                  *)
LEMMA Division ==
  ASSUME NEW a \in Nat, NEW w \in Nat \ {0}
  PROVE  /\ a \div w \in Nat /\ a % w \in 0..(w - 1)
         /\ a = (a \div w) * w + (a % w) /\ (a \div w + 1) * w > a
<1>1. a \div w \in Nat /\ a % w \in 0..(w - 1) /\ a = (a \div w) * w + (a % w)
  OBVIOUS
<1> QED BY <1>1

(* A place that is skipped to before the end of a round lies in that       *)
(* round.                                                                  *)
LEMMA WithinRound ==
  ASSUME NEW a \in Nat, NEW b \in Nat, NEW w \in Nat \ {0}, a < b, b < (a \div w + 1) * w
  PROVE  b \div w = a \div w
<1> DEFINE q == a \div w
           p == b \div w
           r == a % w
           s == b % w
<1>1. /\ q \in Nat /\ r \in 0..(w - 1) /\ a = q * w + r
      /\ p \in Nat /\ s \in 0..(w - 1) /\ b = p * w + s /\ b < (q + 1) * w
  BY Division
<1> HIDE DEF q, p, r, s
<1>2. CASE p >= q + 1
  <2>1. PICK k \in Nat : p = q + 1 + k
    BY <1>1, <1>2
  <2>2. p * w = (q + 1) * w + k * w /\ k * w >= 0
    BY <1>1, <2>1
  <2> QED BY <1>1, <2>2
<1>3. CASE p < q
  <2>1. PICK k \in Nat : q = p + 1 + k
    BY <1>1, <1>3
  <2>2. q * w = p * w + w + k * w /\ k * w >= 0
    BY <1>1, <2>1
  <2> QED BY <1>1, <2>2
<1> QED BY <1>1, <1>2, <1>3 DEF p, q

LoopTypes ==
  /\ scan \in Settings /\ next \in Nat /\ findings \in Seq(Nat)
  /\ asked \subseteq 0..next /\ (~aborted => asked \subseteq 0..(next - 1))
  /\ hits \subseteq asked /\ hits \subseteq 0..(next - 1) /\ aborted \in BOOLEAN

(* A key is seen when it was hit, and its first hit is then at hand.       *)
SeenIsHit ==
  /\ \A n \in hits : Key(n) \in seen
  /\ \A key \in seen : \E m \in FirstHits : Key(m) = key

LoopInv == LoopTypes /\ SeenIsHit /\ FirstHitReported /\ EveryPayloadTried

(* The keys and rounds of a scan stay what they are.                       *)
LEMMA SameLoops ==
  ASSUME scan' = scan
  PROVE  \A n : Key(n)' = Key(n) /\ Probe(n)' = Probe(n) /\ Width' = Width
BY DEF Key, Probe, Width

(* A probe passed over because its key was seen.                           *)
LEMMA SkipKeeps == ASSUME LoopInv, Skip, Key(next) \in seen PROVE LoopInv'
<1>1. /\ next' = next + 1 /\ next \in Nat
      /\ UNCHANGED <<scan, seen, findings, asked, hits, aborted>> /\ ~aborted
  BY DEF Skip, Running, LoopInv, LoopTypes
<1>2. \A n : Key(n)' = Key(n) /\ Probe(n)' = Probe(n) /\ Width' = Width
  BY <1>1, SameLoops
<1>3. FirstHits' = FirstHits
  BY <1>1, <1>2 DEF FirstHits
<1>4. \A m \in FirstHits : m \in 0..(next - 1)
  BY DEF FirstHits, LoopInv, LoopTypes
<1>5. PICK m \in FirstHits : Key(m) = Key(next)
  BY DEF LoopInv, SeenIsHit
<1>6. LoopTypes'
  BY <1>1 DEF LoopInv, LoopTypes
<1>7. SeenIsHit' /\ FirstHitReported'
  BY <1>1, <1>2, <1>3 DEF LoopInv, SeenIsHit, FirstHitReported
<1>8. EveryPayloadTried'
  <2> SUFFICES ASSUME NEW n \in (0..(next' - 1)) \ asked'
               PROVE  \/ \E k \in FirstHits' : k < n /\ Key(k)' = Key(n)'
                      \/ /\ scan'.scanner = "redirect"
                         /\ \E k \in FirstHits' : k < n /\ SameRound(k, n)' /\ Probe(k)'.context = "get"
    BY DEF EveryPayloadTried
  <2>1. CASE n = next
    BY <1>2, <1>3, <1>4, <1>5, <2>1
  <2>2. CASE n # next
    <3>1. n \in (0..(next - 1)) \ asked
      BY <1>1, <2>2
    <3> QED BY <1>1, <1>2, <1>3, <3>1 DEF LoopInv, EveryPayloadTried, SameRound
  <2> QED BY <2>1, <2>2
<1> QED BY <1>6, <1>7, <1>8 DEF LoopInv

(* A probe that was sent and no hit.                                       *)
LEMMA MissKeeps == ASSUME LoopInv, NEW goOn, Ask(FALSE, goOn) PROVE LoopInv'
<1>1. /\ next' = next + 1 /\ next \in Nat /\ asked' = asked \union {next}
      /\ UNCHANGED <<scan, seen, findings, hits, aborted>> /\ ~aborted
  BY DEF Ask, Running, LoopInv, LoopTypes
<1>2. \A n : Key(n)' = Key(n) /\ Probe(n)' = Probe(n) /\ Width' = Width
  BY <1>1, SameLoops
<1>3. FirstHits' = FirstHits
  BY <1>1, <1>2 DEF FirstHits
<1>4. LoopTypes'
  BY <1>1 DEF LoopInv, LoopTypes
<1>5. SeenIsHit' /\ FirstHitReported'
  BY <1>1, <1>2, <1>3 DEF LoopInv, SeenIsHit, FirstHitReported
<1>6. EveryPayloadTried'
  <2>1. \A n \in (0..(next' - 1)) \ asked' : n \in (0..(next - 1)) \ asked
    BY <1>1
  <2> QED BY <1>1, <1>2, <1>3, <2>1 DEF LoopInv, EveryPayloadTried, SameRound
<1> QED BY <1>4, <1>5, <1>6 DEF LoopInv

(* A hit: only what it passes over could be lost.                          *)
LEMMA HitKeeps ==
  ASSUME LoopInv, NEW goOn \in Nat, Ask(TRUE, goOn), goOn > next,
         \A n \in (next + 1)..(goOn - 1) :
           /\ scan.scanner = "redirect" /\ SameRound(next, n)
           /\ Probe(next).context = "get" /\ Key(next) \notin seen
  PROVE  LoopInv'
<1>1. /\ next' = goOn /\ next \in Nat /\ asked' = asked \union {next} /\ hits' = hits \union {next}
      /\ scan' = scan /\ aborted' = aborted /\ ~aborted
      /\ findings' = IF Key(next) \notin seen THEN Append(findings, next) ELSE findings
      /\ seen' = IF Key(next) \notin seen THEN seen \union {Key(next)} ELSE seen
  BY DEF Ask, Running, LoopInv, LoopTypes
<1>2. \A n : Key(n)' = Key(n) /\ Probe(n)' = Probe(n) /\ Width' = Width
  BY <1>1, SameLoops
<1> PICK here \in Nat : here = next
  BY <1>1
<1>3. /\ here \notin hits /\ \A m \in hits : m \in Nat /\ m < here
      /\ \A m \in FirstHits : m \in hits /\ m \in Nat /\ m < here
      /\ findings \in Seq(Nat) /\ here \notin asked
  BY <1>1 DEF LoopInv, LoopTypes, FirstHits
<1>4. /\ Key(here) \in seen => FirstHits' = FirstHits
      /\ Key(here) \notin seen => FirstHits' = FirstHits \union {here}
  <2>1. CASE Key(here) \in seen
    <3>1. PICK m \in FirstHits : Key(m) = Key(here)
      BY <2>1 DEF LoopInv, SeenIsHit
    <3>2. ASSUME NEW n PROVE n \in FirstHits' <=> n \in FirstHits
      BY <1>1, <1>2, <1>3, <3>1 DEF FirstHits
    <3> QED BY <2>1, <3>2
  <2>2. CASE Key(here) \notin seen
    <3>1. \A m \in hits : Key(m) # Key(here)
      BY <2>2 DEF LoopInv, SeenIsHit
    <3>2. ASSUME NEW n PROVE n \in FirstHits' <=> n \in FirstHits \/ n = here
      BY <1>1, <1>2, <1>3, <3>1 DEF FirstHits
    <3> QED BY <2>2, <3>2
  <2> QED BY <2>1, <2>2
<1>5. LoopTypes'
  BY <1>1, <1>3 DEF LoopInv, LoopTypes
<1>6. SeenIsHit'
  <2>1. \A n \in hits' : Key(n)' \in seen'
    BY <1>1, <1>2 DEF LoopInv, SeenIsHit
  <2>2. \A key \in seen' : \E m \in FirstHits' : Key(m)' = key
    <3> SUFFICES ASSUME NEW key \in seen' PROVE \E m \in FirstHits' : Key(m) = key
      BY <1>2
    <3>1. CASE key \in seen
      <4>1. PICK m \in FirstHits : Key(m) = key
        BY <3>1 DEF LoopInv, SeenIsHit
      <4>2. m \in FirstHits'
        BY <1>4, <4>1
      <4> QED BY <4>1, <4>2
    <3>2. CASE key \notin seen
      <4>1. key = Key(here) /\ Key(here) \notin seen
        BY <1>1, <3>2
      <4> QED BY <1>4, <4>1
    <3> QED BY <3>1, <3>2
  <2> QED BY <2>1, <2>2 DEF SeenIsHit
<1>7. FirstHitReported'
  <2>1. CASE Key(here) \in seen
    <3>1. findings' = findings /\ FirstHits' = FirstHits
      BY <1>1, <1>4, <2>1
    <3> QED BY <1>1, <3>1 DEF LoopInv, FirstHitReported
  <2>2. CASE Key(here) \notin seen
    <3>1. findings' = Append(findings, here) /\ FirstHits' = FirstHits \union {here}
      BY <1>1, <1>4, <2>2
    <3> PICK n \in Nat : n = Len(findings)
      BY <1>3
    <3>2. /\ DOMAIN findings = 1..n /\ DOMAIN findings' = 1..(n + 1) /\ findings'[n + 1] = here
          /\ \A i \in 1..n : findings'[i] = findings[i]
      BY <1>3, <3>1
    <3>3. \A i \in 1..n : findings[i] \in Nat /\ findings[i] < here
      <4>1. \A i \in 1..n : findings[i] \in FirstHits
        BY <1>1, <3>2 DEF LoopInv, FirstHitReported
      <4> QED BY <1>3, <4>1
    <3>4. {findings'[i] : i \in DOMAIN findings'} = FirstHits'
      BY <1>1, <3>1, <3>2 DEF LoopInv, FirstHitReported
    <3>5. \A i, j \in DOMAIN findings' : i < j => findings'[i] < findings'[j]
      <4> SUFFICES ASSUME NEW i \in 1..(n + 1), NEW j \in 1..(n + 1), i < j
                   PROVE  findings'[i] < findings'[j]
        BY <3>2
      <4>1. i \in 1..n /\ (j \in 1..n \/ j = n + 1)
        OBVIOUS
      <4> QED BY <1>1, <3>2, <3>3, <4>1 DEF LoopInv, FirstHitReported
    <3> QED BY <3>4, <3>5 DEF FirstHitReported
  <2> QED BY <2>1, <2>2
<1>8. EveryPayloadTried'
  <2> SUFFICES ASSUME NEW n \in (0..(next' - 1)) \ asked'
               PROVE  \/ \E k \in FirstHits' : k < n /\ Key(k)' = Key(n)'
                      \/ /\ scan'.scanner = "redirect"
                         /\ \E k \in FirstHits' : k < n /\ SameRound(k, n)' /\ Probe(k)'.context = "get"
    BY DEF EveryPayloadTried
  <2>1. n \in Nat /\ n < goOn /\ n # here
    BY <1>1
  <2>2. CASE n < here
    <3>1. n \in (0..(next - 1)) \ asked
      BY <1>1, <2>1, <2>2
    <3>2. \/ \E k \in FirstHits : k < n /\ Key(k) = Key(n)
          \/ scan.scanner = "redirect" /\ \E k \in FirstHits : k < n /\ SameRound(k, n) /\ Probe(k).context = "get"
      BY <3>1 DEF LoopInv, EveryPayloadTried
    <3>3. FirstHits \subseteq FirstHits'
      BY <1>4
    <3> QED BY <1>1, <1>2, <3>2, <3>3 DEF SameRound
  <2>3. CASE n > here
    <3>1. n \in (next + 1)..(goOn - 1)
      BY <2>1, <2>3
    <3>2. /\ scan.scanner = "redirect" /\ SameRound(here, n)
          /\ Probe(here).context = "get" /\ Key(here) \notin seen
      BY <3>1
    <3>3. here \in FirstHits'
      BY <1>4, <3>2
    <3> QED BY <1>1, <1>2, <2>3, <3>2, <3>3 DEF SameRound
  <2> QED BY <2>1, <2>2, <2>3
<1> QED BY <1>5, <1>6, <1>7, <1>8 DEF LoopInv

(* A scan begins without hits.                                             *)
LEMMA LoopInit == ProberInit => LoopInv
<1> SUFFICES ASSUME ProberInit PROVE LoopInv
  OBVIOUS
<1>a. <<>> \in Seq(Nat)
  OBVIOUS
<1>b. scan \in Settings /\ next \in Nat /\ findings \in Seq(Nat) /\ aborted \in BOOLEAN
  BY <1>a DEF ProberInit
<1>1. LoopTypes
  BY <1>b DEF ProberInit, LoopTypes
<1>2. FirstHits = {}
  BY DEF ProberInit, FirstHits
<1> QED BY <1>1, <1>2 DEF ProberInit, LoopInv, SeenIsHit, FirstHitReported, EveryPayloadTried

(* Where a scan goes on after a hit is behind it, in its own round.        *)
LEMMA RoundEnd ==
  ASSUME LoopInv, Running
  PROVE  /\ next \in Nat /\ (next \div Width + 1) * Width \in Nat
         /\ (next \div Width + 1) * Width > next
         /\ \A n \in (next + 1)..((next \div Width + 1) * Width - 1) : SameRound(next, n)
<1> PICK w \in Nat \ {0} : w = Width
  BY LoopsAssumption DEF LoopInv, LoopTypes, Width
<1> PICK here \in Nat : here = next
  BY DEF LoopInv, LoopTypes
<1>1. here \div w \in Nat /\ (here \div w + 1) * w > here
  BY Division
<1>2. (here \div w + 1) * w \in Nat
  BY <1>1
<1>3. ASSUME NEW n \in (here + 1)..((here \div w + 1) * w - 1) PROVE here \div w = n \div w
  <2>1. n \in Nat /\ here < n /\ n < (here \div w + 1) * w
    BY <1>2
  <2> QED BY <2>1, WithinRound
<1> QED BY <1>1, <1>2, <1>3 DEF SameRound

(* Every probe and every skip of a scanner keeps the invariant of its      *)
(* loops.                                                                  *)
LEMMA LoopStep == LoopInv /\ [ProberNext]_loopVars => LoopInv'
<1> SUFFICES ASSUME LoopInv, [ProberNext]_loopVars PROVE LoopInv'
  OBVIOUS
<1>0. next \in Nat
  BY DEF LoopInv, LoopTypes
<1>1. ASSUME NEW detected \in BOOLEAN, Ask(detected, next + 1) PROVE LoopInv'
  <2> DEFINE goOn == next + 1
  <2>1. goOn \in Nat /\ goOn > next /\ (next + 1)..(goOn - 1) = {}
    BY <1>0
  <2>2. Ask(detected, goOn)
    BY <1>1
  <2> HIDE DEF goOn
  <2>3. CASE detected = TRUE
    <3>1. Ask(TRUE, goOn)
      BY <2>2, <2>3
    <3> QED BY <2>1, <3>1, HitKeeps
  <2>4. CASE detected = FALSE
    <3>1. Ask(FALSE, goOn)
      BY <2>2, <2>4
    <3> QED BY <3>1, MissKeeps
  <2> QED BY <2>3, <2>4
<1>2. ASSUME NEW detected \in BOOLEAN, AskUnlessSeen(detected, next + 1) PROVE LoopInv'
  BY <1>1, <1>2, SkipKeeps DEF AskUnlessSeen
<1>3. ASSUME NEW answer \in Answers, Xss(answer) PROVE LoopInv'
  <2>1. Shows(answer) \in BOOLEAN /\ Ask(Shows(answer), next + 1)
    BY <1>3 DEF Xss, Shows
  <2> QED BY <1>1, <2>1
<1>4. ASSUME NEW answer \in Answers, Sqli(answer) PROVE LoopInv'
  <2>1. InjectsSql(Probe(next), answer) \in BOOLEAN
    BY DEF InjectsSql, Shows, Answers
  <2> QED BY <1>2, <1>4, <2>1 DEF Sqli
<1>5. ASSUME NEW answer \in Answers, Ssrf(answer) \/ Lfi(answer) PROVE LoopInv'
  BY <1>2, <1>5 DEF Ssrf, Lfi, Shows
<1>6. ASSUME NEW answer \in Answers, Redirect(answer) PROVE LoopInv'
  <2> DEFINE goOn == (next \div Width + 1) * Width
  <2>0. LeavesOrigin(answer) \in BOOLEAN /\ Running /\ scan.scanner = "redirect"
    BY <1>6 DEF LeavesOrigin, Redirect
  <2>1. CASE Probe(next).context # "get"
    <3>1. AskUnlessSeen(LeavesOrigin(answer), next + 1)
      BY <1>6, <2>1 DEF Redirect
    <3> QED BY <1>2, <2>0, <3>1
  <2>2. CASE Probe(next).context = "get"
    <3>1. AskUnlessSeen(LeavesOrigin(answer), goOn)
      BY <1>6, <2>2 DEF Redirect
    <3>2. goOn \in Nat /\ goOn > next /\ \A n \in (next + 1)..(goOn - 1) : SameRound(next, n)
      BY <2>0, RoundEnd
    <3> HIDE DEF goOn
    <3>3. CASE Key(next) \in seen
      BY <3>1, <3>3, SkipKeeps DEF AskUnlessSeen
    <3>4. CASE Key(next) \notin seen
      <4>1. Ask(LeavesOrigin(answer), goOn)
        BY <3>1, <3>4 DEF AskUnlessSeen
      <4>2. CASE LeavesOrigin(answer) = TRUE
        <5>1. Ask(TRUE, goOn)
          BY <4>1, <4>2
        <5> QED BY <2>0, <2>2, <3>2, <3>4, <5>1, HitKeeps
      <4>3. CASE LeavesOrigin(answer) = FALSE
        <5>1. Ask(FALSE, goOn)
          BY <4>1, <4>3
        <5> QED BY <5>1, MissKeeps
      <4> QED BY <2>0, <4>2, <4>3
    <3> QED BY <3>3, <3>4
  <2> QED BY <2>1, <2>2
<1>7. CASE Abort
  <2>1. /\ UNCHANGED <<scan, next, seen, hits>> /\ aborted' = TRUE /\ ~aborted
        /\ asked' = asked \union {next} /\ findings' = <<>>
    BY <1>7 DEF Abort, Running
  <2>2. \A n : Key(n)' = Key(n) /\ Probe(n)' = Probe(n) /\ Width' = Width
    BY <2>1, SameLoops
  <2>3. FirstHits' = FirstHits
    BY <2>1, <2>2 DEF FirstHits
  <2>4. LoopTypes' /\ SeenIsHit' /\ FirstHitReported'
    <3>1. <<>> \in Seq(Nat)
      OBVIOUS
    <3>2. findings' \in Seq(Nat) /\ aborted' \in BOOLEAN
      BY <2>1, <3>1
    <3>3. asked' \subseteq 0..next /\ hits \subseteq asked' /\ hits \subseteq 0..(next - 1)
      <4>1. asked \subseteq 0..next /\ hits \subseteq asked /\ hits \subseteq 0..(next - 1)
        BY DEF LoopInv, LoopTypes
      <4> QED BY <1>0, <2>1, <4>1
    <3>4. LoopTypes'
      BY <1>0, <2>1, <3>2, <3>3 DEF LoopInv, LoopTypes
    <3>5. SeenIsHit'
      BY <2>1, <2>2, <2>3 DEF LoopInv, SeenIsHit
    <3>6. FirstHitReported'
      BY <2>1 DEF FirstHitReported
    <3> QED BY <3>4, <3>5, <3>6
  <2>5. EveryPayloadTried'
    BY <2>1, <2>2, <2>3 DEF LoopInv, EveryPayloadTried, SameRound
  <2> QED BY <2>4, <2>5 DEF LoopInv
<1>8. CASE UNCHANGED loopVars
  <2>1. UNCHANGED <<scan, next, seen, findings, asked, hits, aborted>>
    BY <1>8 DEF loopVars
  <2>2. \A n : Key(n)' = Key(n) /\ Probe(n)' = Probe(n) /\ Width' = Width
    BY <2>1, SameLoops
  <2>3. FirstHits' = FirstHits
    BY <2>1, <2>2 DEF FirstHits
  <2> QED BY <2>1, <2>2, <2>3
          DEF LoopInv, LoopTypes, SeenIsHit, FirstHitReported, EveryPayloadTried, SameRound
<1> QED BY <1>3, <1>4, <1>5, <1>6, <1>7, <1>8 DEF ProberNext

(* For any parameters, payloads, places and answers, and each of the five  *)
(* scanners: as long as no exception ends the scan, the findings are the   *)
(* first hit of every place and name that was hit, each once, in the order *)
(* of the probes (src/dribik/vulns).                                       *)
THEOREM FirstHitCorrect == ProberSpec => []FirstHitReported
<1>1. LoopInv => FirstHitReported
  BY DEF LoopInv
<1> QED BY <1>1, LoopInit, LoopStep, PTL DEF ProberSpec

(* No scanner drops a payload but where its own finding makes it needless. *)
THEOREM PayloadsCorrect == ProberSpec => []EveryPayloadTried
<1>1. LoopInv => EveryPayloadTried
  BY DEF LoopInv
<1> QED BY <1>1, LoopInit, LoopStep, PTL DEF ProberSpec
-----------------------------------------------------------------------------
(* Induction over the natural numbers, stated with a set.                  *)
LEMMA Induct ==
  ASSUME NEW S, 0 \in S, \A n \in Nat : n \in S => n + 1 \in S
  PROVE  Nat \subseteq S
<1> DEFINE T == Nat \ S
           R == OpToRel(<, Nat)
<1> SUFFICES ASSUME T # {} PROVE FALSE
  OBVIOUS
<1>1. R = {ss \in Nat \X Nat : ss[1] < ss[2]}
  BY DEF OpToRel
<1>2. IsWellFoundedOn(R, Nat)
  BY NatLessThanWellFounded, Zenon
<1> HIDE DEF R
<1>3. PICK x \in T : \A y \in T : <<y, x>> \notin R
  <2> HIDE DEF T
  <2>1. T \subseteq Nat
    BY DEF T
  <2> QED BY <1>2, <2>1, WFMin
<1>4. x \in Nat \ {0} /\ x - 1 \in Nat /\ (x - 1) + 1 = x
  OBVIOUS
<1>5. x - 1 \notin T
  <2>1. x - 1 < x
    BY <1>4
  <2> QED BY <1>1, <1>3, <1>4, <2>1
<1> QED BY <1>4, <1>5

(* What a line adds to the words: the word it holds, if it is one.         *)
LEMMA TakeFacts ==
  ASSUME NEW words \in Seq(STRING), NEW line \in Line
  PROVE  /\ Take(words, line) \in Seq(STRING)
         /\ WordsIn(Take(words, line)) = WordsIn(words) \union IF line.kind = "word" THEN {line.word} ELSE {}
<1>1. line.word \in STRING
  BY DEF Line
<1>2. CASE line.kind # "word" \/ line.word \in WordsIn(words)
  BY <1>2 DEF Take
<1>3. CASE ~(line.kind # "word" \/ line.word \in WordsIn(words))
  <2> DEFINE n == Len(words)
             more == Append(words, line.word)
  <2>1. /\ more \in Seq(STRING) /\ n \in Nat /\ DOMAIN words = 1..n /\ DOMAIN more = 1..(n + 1)
        /\ more[n + 1] = line.word /\ \A i \in 1..n : more[i] = words[i]
    BY <1>1
  <2>2. Take(words, line) = more
    BY <1>3 DEF Take
  <2> HIDE DEF more
  <2>3. \A x : x \in WordsIn(more) <=> x \in WordsIn(words) \/ x = line.word
    <3>1. 1..(n + 1) = (1..n) \union {n + 1}
      BY <2>1
    <3> QED BY <2>1, <3>1 DEF WordsIn
  <2> QED BY <1>3, <2>1, <2>2, <2>3
<1> QED BY <1>2, <1>3

(* Once is what its recursion says.                                        *)
LEMMA OnceEquation ==
  ASSUME NEW lines \in Seq(Line)
  PROVE  \E once : /\ once[0] = <<>>
                   /\ \A n \in 1..Len(lines) : once[n] = Take(once[n - 1], lines[n])
                   /\ Once(lines) = once[Len(lines)]
<1> DEFINE N == Len(lines)
           IsOnce(once, n) == once = [i \in 0..n |-> IF i = 0 THEN <<>> ELSE Take(once[i - 1], lines[i])]
           Good == {n \in Nat : \E once : IsOnce(once, n)}
<1>1. N \in Nat
  OBVIOUS
<1>2. 0 \in Good
  <2>1. IsOnce([i \in 0..0 |-> <<>>], 0)
    OBVIOUS
  <2> QED BY <2>1
<1>3. ASSUME NEW n \in Nat, n \in Good PROVE n + 1 \in Good
  <2>1. PICK once : IsOnce(once, n)
    BY <1>3
  <2> DEFINE more == [i \in 0..(n + 1) |-> IF i = n + 1 THEN Take(once[n], lines[n + 1]) ELSE once[i]]
  <2>2. \A i \in 0..n : more[i] = once[i]
    OBVIOUS
  <2>3. \A i \in 0..(n + 1) : more[i] = IF i = 0 THEN <<>> ELSE Take(more[i - 1], lines[i])
    <3> SUFFICES ASSUME NEW i \in 0..(n + 1)
                 PROVE  more[i] = IF i = 0 THEN <<>> ELSE Take(more[i - 1], lines[i])
      OBVIOUS
    <3>1. CASE i = n + 1
      <4>1. more[i] = Take(once[n], lines[n + 1]) /\ more[i - 1] = once[n]
        BY <3>1
      <4> QED BY <3>1, <4>1
    <3>2. CASE i # n + 1
      <4>1. i \in 0..n /\ more[i] = once[i]
        BY <3>2
      <4>2. once[i] = IF i = 0 THEN <<>> ELSE Take(once[i - 1], lines[i])
        BY <2>1, <4>1
      <4>3. i # 0 => more[i - 1] = once[i - 1]
        BY <3>2
      <4> QED BY <4>1, <4>2, <4>3
    <3> QED BY <3>1, <3>2
  <2>4. IsOnce(more, n + 1)
    <3>1. more = [i \in 0..(n + 1) |-> more[i]]
      OBVIOUS
    <3> HIDE DEF more
    <3> QED BY <2>3, <3>1
  <2> HIDE DEF IsOnce, more
  <2> QED BY <2>4
<1>4. N \in Good
  <2> HIDE DEF Good, IsOnce
  <2> QED BY <1>1, <1>2, <1>3, Induct
<1> DEFINE IsWhole(once) == IsOnce(once, N)
           whole == CHOOSE once : IsWhole(once)
<1>5. IsWhole(whole)
  <2>1. \E once : IsWhole(once)
    BY <1>4
  <2> HIDE DEF IsWhole
  <2> QED BY <2>1
<1>6. Once(lines) = whole[N]
  BY DEF Once
<1> HIDE DEF whole
<1>7. whole[0] = <<>>
  BY <1>1, <1>5
<1>8. \A n \in 1..N : whole[n] = Take(whole[n - 1], lines[n])
  <2> SUFFICES ASSUME NEW n \in 1..N PROVE whole[n] = Take(whole[n - 1], lines[n])
    OBVIOUS
  <2>1. n \in 0..N /\ n # 0
    BY <1>1
  <2> QED BY <1>5, <2>1
<1> QED BY <1>6, <1>7, <1>8

(* The words kept are the words of the lines, whatever their number and    *)
(* order.                                                                  *)
LEMMA OnceFacts ==
  ASSUME NEW lines \in Seq(Line)
  PROVE  Once(lines) \in Seq(STRING) /\ WordsIn(Once(lines)) = WordsOf(lines)
<1>1. PICK once : /\ once[0] = <<>>
                  /\ \A n \in 1..Len(lines) : once[n] = Take(once[n - 1], lines[n])
                  /\ Once(lines) = once[Len(lines)]
  BY OnceEquation
<1> DEFINE N == Len(lines)
           Upto(n) == {lines[i].word : i \in {j \in 1..n : lines[j].kind = "word"}}
           Good == {n \in Nat : n <= N => once[n] \in Seq(STRING) /\ WordsIn(once[n]) = Upto(n)}
<1>2. N \in Nat /\ DOMAIN lines = 1..N /\ \A i \in 1..N : lines[i] \in Line
  OBVIOUS
<1>3. 0 \in Good
  <2>1. Upto(0) = {} /\ WordsIn(<<>>) = {}
    BY DEF WordsIn
  <2>2. once[0] \in Seq(STRING) /\ WordsIn(once[0]) = Upto(0)
    BY <1>1, <2>1
  <2> QED BY <2>2
<1>4. ASSUME NEW n \in Nat, n \in Good PROVE n + 1 \in Good
  <2> SUFFICES ASSUME n + 1 <= N
               PROVE  once[n + 1] \in Seq(STRING) /\ WordsIn(once[n + 1]) = Upto(n + 1)
    OBVIOUS
  <2>1. /\ n <= N /\ n + 1 \in 1..N /\ (n + 1) - 1 = n
        /\ 1..(n + 1) = (1..n) \union {n + 1}
    BY <1>2
  <2>2. once[n] \in Seq(STRING) /\ WordsIn(once[n]) = Upto(n)
    BY <1>4, <2>1
  <2>3. once[n + 1] = Take(once[n], lines[n + 1]) /\ lines[n + 1] \in Line
    BY <1>1, <1>2, <2>1
  <2>4. Upto(n + 1) = Upto(n) \union IF lines[n + 1].kind = "word" THEN {lines[n + 1].word} ELSE {}
    BY <2>1
  <2> HIDE DEF Upto
  <2> QED BY <2>2, <2>3, <2>4, TakeFacts
<1>5. N \in Good
  <2> HIDE DEF Good
  <2> QED BY <1>2, <1>3, <1>4, Induct
<1>6. Upto(N) = WordsOf(lines)
  BY <1>2 DEF WordsOf
<1>7. once[N] \in Seq(STRING) /\ WordsIn(once[N]) = Upto(N)
  BY <1>2, <1>5
<1> QED BY <1>1, <1>6, <1>7


(* The list in use has the words of the file, and the built-in ones if the *)
(* file has none.                                                          *)
LEMMA PayloadFacts ==
  ASSUME file \in Files
  PROVE  LoadPayloads \in Seq(STRING) /\ WordsIn(LoadPayloads) = Candidates
<1>1. file \in Seq(Line) /\ Builtin \in Seq(Line)
  BY WordsAssumption
<1>2. /\ Once(file) \in Seq(STRING) /\ WordsIn(Once(file)) = WordsOf(file)
      /\ Once(Builtin) \in Seq(STRING) /\ WordsIn(Once(Builtin)) = WordsOf(Builtin)
  BY <1>1, OnceFacts
<1>3. ASSUME NEW words \in Seq(STRING) PROVE words = <<>> <=> WordsIn(words) = {}
  <2>1. words # <<>> => 1 \in DOMAIN words
    OBVIOUS
  <2> QED BY <2>1 DEF WordsIn
<1>4. Once(file) = <<>> <=> WordsOf(file) = {}
  BY <1>2, <1>3
<1> QED BY <1>2, <1>4 DEF LoadPayloads, Candidates

(* Short sequences grow by one.                                            *)
LEMMA Appending ==
  ASSUME NEW x, NEW y, NEW z
  PROVE  Append(<<>>, x) = <<x>> /\ Append(<<x>>, y) = <<x, y>> /\ Append(<<x, y>>, z) = <<x, y, z>>
<1> DEFINE S == {x, y, z}
<1>1. <<>> \in Seq(S) /\ <<x>> \in Seq(S) /\ <<x, y>> \in Seq(S)
  OBVIOUS
<1> HIDE DEF S
<1>2. x \in S /\ y \in S /\ z \in S
  BY DEF S
<1>3. Append(<<>>, x) = <<x>>
  <2> DEFINE s == <<>>
             t == Append(s, x)
  <2>1. s \in Seq(S) /\ Len(s) = 0
    BY <1>1
  <2> HIDE DEF s
  <2>2. t \in Seq(S) /\ Len(t) = Len(s) + 1 /\ t[Len(s) + 1] = x /\ \A i \in 1..Len(s) : t[i] = s[i]
    BY <1>2, <2>1, AppendProperties
  <2> HIDE DEF t
  <2>3. t \in Seq(S) /\ Len(t) = 1 /\ t[1] = x
    BY <2>1, <2>2
  <2>4. t \in [1..1 -> S]
    BY <2>3
  <2>5. t = <<x>>
    BY <2>3, <2>4
  <2> QED BY <2>5 DEF s, t
<1>4. Append(<<x>>, y) = <<x, y>>
  <2> DEFINE s == <<x>>
             t == Append(s, y)
  <2>1. s \in Seq(S) /\ Len(s) = 1 /\ s[1] = x
    BY <1>1
  <2> HIDE DEF s
  <2>2. t \in Seq(S) /\ Len(t) = Len(s) + 1 /\ t[Len(s) + 1] = y /\ \A i \in 1..Len(s) : t[i] = s[i]
    BY <1>2, <2>1, AppendProperties
  <2> HIDE DEF t
  <2>3. t \in Seq(S) /\ Len(t) = 2 /\ t[1] = x /\ t[2] = y
    BY <2>1, <2>2
  <2>4. t \in [1..2 -> S]
    BY <2>3
  <2>5. t = <<x, y>>
    BY <2>3, <2>4
  <2> QED BY <2>5 DEF s, t
<1>5. Append(<<x, y>>, z) = <<x, y, z>>
  <2> DEFINE s == <<x, y>>
             t == Append(s, z)
  <2>1. s \in Seq(S)
    BY <1>1
  <2>2. Len(s) = 2 /\ s[1] = x /\ s[2] = y
    OBVIOUS
  <2> HIDE DEF s
  <2>3. t \in Seq(S) /\ Len(t) = Len(s) + 1 /\ t[Len(s) + 1] = z /\ \A i \in 1..Len(s) : t[i] = s[i]
    BY <1>2, <2>1, AppendProperties
  <2> HIDE DEF t
  <2>4. t \in Seq(S) /\ Len(t) = 3 /\ t[1] = x /\ t[2] = y /\ t[3] = z
    BY <2>2, <2>3
  <2>5. t \in [1..3 -> S]
    BY <2>4
  <2>6. t = <<x, y, z>>
    BY <2>4, <2>5
  <2> QED BY <2>6 DEF s, t
<1> QED BY <1>3, <1>4, <1>5

AlgFinding == Finding("alg", "-")

(* What there is to report when the words are done with.                   *)
Weaknesses ==
  IF token.alg = "none" THEN <<>>
  ELSE IF token.alg = "hs256" /\ token.key \in Candidates THEN <<AlgFinding, Finding("secret", token.key)>>
  ELSE <<AlgFinding>>

(* Where the audit stands tells what it has found: nothing at first, the   *)
(* algorithm while the words are tried, none of which fitted so far, and   *)
(* all weaknesses but the kid behind them.                                 *)
TokenInv ==
  /\ file \in Files
  /\ step \in {"decode", "words", "kid", "done", "raised"}
  /\ step = "decode" => found = <<>> /\ tried = 0
  /\ step = "words" =>
       /\ token.decodes /\ token.alg = "hs256" /\ found = <<AlgFinding>>
       /\ tried \in 0..Len(LoadPayloads) /\ \A i \in 1..tried : LoadPayloads[i] # token.key
  /\ step = "kid" => token.decodes /\ found = Weaknesses
  /\ SecretReported

(* Nothing is found yet when an audit begins.                              *)
LEMMA TokenInitHolds == TokenInit => TokenInv
BY DEF TokenInit, TokenInv, SecretReported

(* Every step of an audit keeps the invariant.                             *)
LEMMA TokenStep == TokenInv /\ [TokenNext]_tokenVars => TokenInv'
<1> SUFFICES ASSUME TokenInv, [TokenNext]_tokenVars PROVE TokenInv'
  OBVIOUS
<1> DEFINE n == Len(LoadPayloads)
<1>1. /\ LoadPayloads \in Seq(STRING) /\ WordsIn(LoadPayloads) = Candidates
      /\ n \in Nat /\ DOMAIN LoadPayloads = 1..n
  BY PayloadFacts DEF TokenInv
<1>2. ASSUME file' = file PROVE LoadPayloads' = LoadPayloads /\ Candidates' = Candidates
  BY <1>2 DEF LoadPayloads, Candidates
<1>3. CASE UNCHANGED tokenVars
  BY <1>2, <1>3 DEF tokenVars, TokenInv, SecretReported, Weaknesses
<1>4. CASE Decline
  <2>1. found' = <<>> /\ step' = "done" /\ file' = file /\ token' = token /\ ~token.decodes
    BY <1>4 DEF Decline, TokenInv
  <2>2. SecretReported'
    BY <2>1 DEF SecretReported
  <2> QED BY <2>1, <2>2 DEF TokenInv
<1>5. CASE Raise
  BY <1>5 DEF Raise, TokenInv, SecretReported
<1>6. CASE FlagAlg
  <2>1. CASE token.alg = "hs256"
    <3>1. /\ step' = "words" /\ file' = file /\ token' = token /\ tried' = 0 /\ token.decodes
          /\ found' = <<AlgFinding>>
      BY <1>6, <2>1 DEF FlagAlg, TokenInv, AlgFinding
    <3> QED BY <1>1, <1>2, <2>1, <3>1 DEF TokenInv, SecretReported
  <2>2. CASE token.alg # "hs256"
    <3>1. /\ step' = "kid" /\ file' = file /\ token' = token /\ token.decodes
          /\ found' = IF token.alg = "none" THEN <<>> ELSE <<AlgFinding>>
      BY <1>6, <2>2, Appending DEF FlagAlg, TokenInv, AlgFinding
    <3> QED BY <2>2, <3>1 DEF TokenInv, SecretReported, Weaknesses
  <2> QED BY <2>1, <2>2
<1>7. CASE TryWord
  <2>1. /\ step = "words" /\ step' = "words" /\ UNCHANGED <<token, file, found>>
        /\ tried \in 0..n /\ tried < n /\ tried' = tried + 1
        /\ LoadPayloads[tried + 1] # token.key
    BY <1>7 DEF TryWord, TokenInv
  <2>2. \A i \in 1..tried' : LoadPayloads[i] # token.key
    BY <2>1 DEF TokenInv
  <2>3. tried' \in 0..n
    BY <1>1, <2>1
  <2> QED BY <1>2, <2>1, <2>2, <2>3 DEF TokenInv, SecretReported
<1>8. CASE FindWord
  <2>1. /\ step = "words" /\ step' = "kid" /\ UNCHANGED <<token, file>>
        /\ token.decodes /\ token.alg = "hs256" /\ found = <<AlgFinding>>
        /\ tried \in 0..n /\ tried < n /\ LoadPayloads[tried + 1] = token.key
        /\ found' = Append(found, Finding("secret", token.key))
    BY <1>8 DEF FindWord, TokenInv
  <2>2. tried + 1 \in DOMAIN LoadPayloads
    BY <1>1, <2>1
  <2>3. token.key \in Candidates
    BY <1>1, <2>1, <2>2 DEF WordsIn
  <2>4. found' = <<AlgFinding, Finding("secret", token.key)>>
    BY <2>1, Appending
  <2> QED BY <1>2, <2>1, <2>3, <2>4 DEF TokenInv, SecretReported, Weaknesses
<1>9. CASE EndOfWords
  <2>1. /\ step = "words" /\ step' = "kid" /\ UNCHANGED <<token, file, found>>
        /\ token.decodes /\ token.alg = "hs256" /\ found = <<AlgFinding>>
        /\ tried = n /\ \A i \in 1..tried : LoadPayloads[i] # token.key
    BY <1>9 DEF EndOfWords, TokenInv
  <2>2. token.key \notin Candidates
    BY <1>1, <2>1 DEF WordsIn
  <2> QED BY <1>2, <2>1, <2>2 DEF TokenInv, SecretReported, Weaknesses
<1>10. CASE FlagKid
  <2>1. /\ step = "kid" /\ step' = "done" /\ UNCHANGED <<token, file>>
        /\ token.decodes /\ found = Weaknesses
        /\ found' = IF token.kid THEN Append(found, Finding("kid", "-")) ELSE found
    BY <1>10 DEF FlagKid, TokenInv
  <2>2. SecretReported'
    <3> DEFINE secret == Finding("secret", token.key)
               kid == Finding("kid", "-")
    <3>1. found' \in {<<>>, <<kid>>, <<AlgFinding>>, <<AlgFinding, kid>>, <<AlgFinding, secret>>,
                      <<AlgFinding, secret, kid>>}
      <4> HIDE DEF kid, secret
      <4>1. found \in {<<>>, <<AlgFinding>>, <<AlgFinding, secret>>}
        BY <2>1 DEF Weaknesses, secret
      <4>2. found' = found \/ found' = Append(found, kid)
        BY <2>1 DEF kid
      <4> QED BY <4>1, <4>2, Appending
    <3>2. (\E i \in DOMAIN found' : found'[i] = secret) <=> token.alg = "hs256" /\ token.key \in Candidates
      BY <2>1 DEF Weaknesses, Finding, AlgFinding
    <3>3. \A i \in DOMAIN found' : found'[i].kind = "secret" <=> found'[i] = secret
      BY <3>1 DEF Finding, AlgFinding
    <3>4. \A i, j \in DOMAIN found' : found'[i] = found'[j] => i = j
      BY <3>1 DEF Finding, AlgFinding
    <3>5. {f \in {found'[i] : i \in DOMAIN found'} : f.kind = "secret"} =
            IF token.alg = "hs256" /\ token.key \in Candidates THEN {secret} ELSE {}
      <4> HIDE DEF secret
      <4> QED BY <3>2, <3>3
    <3> QED BY <1>2, <2>1, <3>4, <3>5 DEF SecretReported
  <2> QED BY <2>1, <2>2 DEF TokenInv
<1> QED BY <1>3, <1>4, <1>5, <1>6, <1>7, <1>8, <1>9, <1>10 DEF TokenNext

(* Whatever the file holds: a key among the words in use is reported, once *)
(* and by its name, and no other (audit_jwt and load_payloads).            *)
THEOREM SecretCorrect == TokenSpec => []SecretReported
<1>1. TokenInv => SecretReported
  BY DEF TokenInv
<1> QED BY <1>1, TokenInitHolds, TokenStep, PTL DEF TokenSpec

=============================================================================
