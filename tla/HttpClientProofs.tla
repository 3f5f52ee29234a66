--------------------------- MODULE HttpClientProofs ---------------------------
(***************************************************************************)
(* Proofs about the HTTP client, for any number of calls, retries and      *)
(* redirects, wherever the audit callback fails.                           *)
(***************************************************************************)
EXTENDS HttpClient, SequenceTheorems, FiniteSetTheorems, TLAPS

(* A call in progress has no outcome yet; it pauses only while attempts    *)
(* are left.                                                               *)
InProgress ==
  /\ pc # "idle" => outcome[call.id] = NoOutcome
  /\ pc = "resting" => attempt < MaxRetries

(* AuditAgrees is not inductive: that a call cannot be logged twice needs  *)
(* the fact that the call in progress has not ended before.                *)
AuditInv == TypeOK /\ InProgress /\ AuditAgrees

(* What the entries of a typed trail hold.                                 *)
LEMMA EntryTyped ==
  ASSUME NEW s \in Seq([call : Call, outcome : Logged]), NEW i \in DOMAIN s
  PROVE  s[i].call \in Call /\ s[i].outcome \in Logged
<1>1. s[i] \in [call : Call, outcome : Logged] 
  BY ElementOfSeq, LenProperties
<1> QED BY <1>1

(* The initial state satisfies the invariant.                              *)
LEMMA AuditInit == Init => AuditInv
  BY RetriesAssumption DEF Init, AuditInv, TypeOK, InProgress, AuditAgrees, NoOutcome, Logged

(* Ending the call in progress with an outcome that is logged, or lost by  *)
(* a callback that fails.                                                  *)
LEMMA LoggedReturn ==
  ASSUME AuditInv, pc # "idle", NEW o \in Logged, Return(o), EmitAudit(o), UNCHANGED call
  PROVE  /\ outcome' \in [Call -> {NoOutcome} \union Logged \union Unlogged]
         /\ audit' \in Seq([call : Call, outcome : Logged])
         /\ InProgress' /\ AuditAgrees'
<1> USE DEF AuditInv, TypeOK, Calls, Return, NoOutcome
<1>1. call.id \in Call /\ outcome[call.id] = NoOutcome
  BY DEF InProgress
<1>2. \A i \in DOMAIN audit : audit[i].call # call.id
  <2>1. \A i \in DOMAIN audit : audit[i].call \in Call /\ audit[i].outcome \in Logged
    BY EntryTyped
  <2>2. NoOutcome \notin Logged
    BY DEF Logged
  <2> QED BY <1>1, <2>1, <2>2 DEF AuditAgrees
<1>3. outcome' \in [Call -> {NoOutcome} \union Logged \union Unlogged] /\ InProgress'
  BY <1>1 DEF InProgress
<1>4. CASE audit' = Append(audit, [call |-> call.id, outcome |-> o])
  <2>1. audit' \in Seq([call : Call, outcome : Logged])
    BY <1>1, <1>4
  <2>2. /\ Len(audit') = Len(audit) + 1 /\ audit'[Len(audit) + 1] = [call |-> call.id, outcome |-> o]
        /\ \A i \in DOMAIN audit : audit'[i] = audit[i]
        /\ DOMAIN audit' = DOMAIN audit \union {Len(audit) + 1}
    BY <1>1, <1>4
  <2>3. \A i, j \in DOMAIN audit' : audit'[i].call = audit'[j].call => i = j
    BY <1>2, <2>2 DEF AuditAgrees
  <2>4. \A i \in DOMAIN audit' : outcome'[audit'[i].call] = audit'[i].outcome
    BY <1>1, <1>2, <2>2 DEF AuditAgrees
  <2>5. ASSUME NEW c \in Call \ Unwritable, outcome'[c] \in Logged
        PROVE  \E i \in DOMAIN audit' : audit'[i].call = c
    <3>1. CASE c = call.id
      <4>1. Len(audit) + 1 \in DOMAIN audit' /\ audit'[Len(audit) + 1].call = c
        BY <2>2, <3>1
      <4> QED BY <4>1
    <3>2. CASE c # call.id
      <4>1. outcome[c] \in Logged
        BY <1>1, <2>5, <3>2
      <4>2. PICK i \in DOMAIN audit : audit[i].call = c
        BY <2>5, <4>1 DEF AuditAgrees
      <4>3. i \in DOMAIN audit' /\ audit'[i].call = c
        BY <2>2, <4>2
      <4> QED BY <4>3
    <3> QED BY <3>1, <3>2
  <2> QED BY <1>3, <2>1, <2>3, <2>4, <2>5 DEF AuditAgrees
<1>5. CASE call.id \in Unwritable /\ audit' = audit
  <2>1. \A i \in DOMAIN audit : outcome'[audit[i].call] = outcome[audit[i].call]
    BY <1>1, <1>2, EntryTyped
  <2> QED BY <1>3, <1>5, <2>1 DEF AuditAgrees
<1> QED BY <1>4, <1>5 DEF EmitAudit

(* Ending it with an outcome that leaves no entry.                         *)
LEMMA UnloggedReturn ==
  ASSUME AuditInv, pc # "idle", NEW o \in Unlogged, Return(o), UNCHANGED <<call, audit>>
  PROVE  /\ outcome' \in [Call -> {NoOutcome} \union Logged \union Unlogged]
         /\ InProgress' /\ AuditAgrees'
<1> USE DEF AuditInv, TypeOK, Calls, Return, NoOutcome
<1>1. call.id \in Call /\ outcome[call.id] = NoOutcome
  BY DEF InProgress
<1>2. \A i \in DOMAIN audit : audit[i].call # call.id
  <2>1. \A i \in DOMAIN audit : audit[i].call \in Call /\ audit[i].outcome \in Logged
    BY EntryTyped
  <2>2. NoOutcome \notin Logged
    BY DEF Logged
  <2> QED BY <1>1, <2>1, <2>2 DEF AuditAgrees
<1>3. \A i \in DOMAIN audit : outcome'[audit[i].call] = outcome[audit[i].call]
  BY <1>1, <1>2, EntryTyped
<1>4. o \notin Logged /\ \A c \in Call \ {call.id} : outcome'[c] = outcome[c]
  BY <1>1 DEF Logged, Unlogged
<1>5. AuditAgrees'
  BY <1>1, <1>3, <1>4 DEF AuditAgrees
<1> QED BY <1>1, <1>5 DEF InProgress

(* Every step preserves the invariant.                                     *)
LEMMA AuditStep == AuditInv /\ [Next]_vars => AuditInv'
<1> SUFFICES ASSUME AuditInv, [Next]_vars PROVE AuditInv'
  OBVIOUS
<1> USE RetriesAssumption DEF AuditInv, TypeOK, Calls, Follows, Asked
<1>1. ASSUME NEW new \in Calls, Begin(new) PROVE AuditInv'
  BY <1>1 DEF Begin, InProgress, AuditAgrees
<1>2. CASE Reject
  BY <1>2, UnloggedReturn DEF Reject, Unlogged, Return
<1>3. CASE Open
  BY <1>3 DEF Open, Put, InProgress, AuditAgrees
<1>4. ASSUME NEW u \in Url, FollowRedirect(u) PROVE AuditInv'
  BY <1>4 DEF FollowRedirect, Put, InProgress, AuditAgrees
<1>5. CASE Respond
  BY <1>5, LoggedReturn DEF Respond, Logged, Return
<1>6. CASE HttpError
  BY <1>6 DEF HttpError, InProgress, AuditAgrees
<1>7. CASE ReadErrorBody
  BY <1>7, LoggedReturn DEF ReadErrorBody, Logged, Return
<1>8. CASE ErrorBodyFails
  BY <1>8, UnloggedReturn DEF ErrorBodyFails, Unlogged, Return
<1>9. CASE Transient
  <2>1. CASE attempt < MaxRetries /\ pc' = "resting" /\ UNCHANGED <<outcome, audit>>
    BY <1>9, <2>1 DEF Transient, InProgress, AuditAgrees
  <2>2. CASE attempt = MaxRetries /\ Return("error") /\ EmitAudit("error")
    BY <1>9, <2>2, LoggedReturn DEF Transient, Logged, Return
  <2> QED BY <1>9, <2>1, <2>2 DEF Transient
<1>10. CASE Retry
  BY <1>10 DEF Retry, InProgress, AuditAgrees
<1>11. CASE UNCHANGED vars
  BY <1>11 DEF vars, InProgress, AuditAgrees
<1> QED BY <1>1, <1>2, <1>3, <1>4, <1>5, <1>6, <1>7, <1>8, <1>9, <1>10, <1>11 DEF Next, Step

-----------------------------------------------------------------------------
(* The client's state keeps its types, whatever the target answers.        *)
THEOREM TypeCorrect == Spec => []TypeOK
<1>1. AuditInv => TypeOK
  BY DEF AuditInv
<1> QED BY <1>1, AuditInit, AuditStep, PTL DEF Spec

(* For any calls and limits, the trail holds at most one entry per call,   *)
(* the outcome the caller was given, and no logged call is missing from it *)
(* where append_audit worked.                                              *)
THEOREM AuditCorrect == Spec => []AuditAgrees
<1>1. AuditInv => AuditAgrees
  BY DEF AuditInv
<1> QED BY <1>1, AuditInit, AuditStep, PTL DEF Spec

(* A call that has sent anything has ended or is the one in progress: the  *)
(* part of the wire that StaysPut needs to know about when a call begins.  *)
WireKnown ==
  \A i \in DOMAIN wire :
    outcome[wire[i].call] # NoOutcome \/ (pc # "idle" /\ wire[i].call = call.id)

WireInv == AuditInv /\ WireKnown /\ StaysPut

(* What the entries of the wire hold, and what putting one more does.      *)
LEMMA WireTyped ==
  ASSUME TypeOK
  PROVE  \A i \in DOMAIN wire : wire[i] \in [call : Call, url : Url, first : BOOLEAN]
<1> QED BY ElementOfSeq, LenProperties DEF TypeOK

(* What sending one request does to the wire.                              *)
LEMMA PutExtends ==
  ASSUME TypeOK, NEW u \in Url, NEW first \in BOOLEAN, Put(u, first)
  PROVE  /\ DOMAIN wire' = DOMAIN wire \union {Len(wire) + 1}
         /\ Len(wire) + 1 \notin DOMAIN wire
         /\ wire'[Len(wire) + 1].call = call.id /\ wire'[Len(wire) + 1].url = u
         /\ \A i \in DOMAIN wire : wire'[i] = wire[i]
<1> QED BY DEF TypeOK, Put, Calls

(* The recorded requests of a step that sends none are those before it.    *)
LEMMA WireInvStep == WireInv /\ [Next]_vars => WireInv'
<1> SUFFICES ASSUME WireInv, [Next]_vars PROVE WireKnown' /\ StaysPut'
  BY AuditStep DEF WireInv
<1> USE DEF WireInv, AuditInv
<1>0. TypeOK /\ call.id \in Call /\ (\A i \in DOMAIN wire : wire[i].call \in Call)
  BY WireTyped DEF TypeOK, Calls
<1>1. ASSUME NEW new \in Calls, Begin(new) PROVE WireKnown' /\ StaysPut'
  <2>1. \A i \in DOMAIN wire : wire[i].call # new.id
    BY <1>1 DEF Begin, WireKnown
  <2> QED BY <1>1, <2>1 DEF Begin, WireKnown, StaysPut
<1>2. ASSUME NEW o \in Logged \union Unlogged, pc # "idle", Return(o), UNCHANGED <<call, wire>>
      PROVE WireKnown' /\ StaysPut'
  <2>1. o # NoOutcome
    BY DEF Logged, Unlogged, NoOutcome
  <2>2. \A c \in Call : outcome'[c] = IF c = call.id THEN o ELSE outcome[c]
    BY <1>0, <1>2 DEF Return, TypeOK
  <2> QED BY <1>0, <1>2, <2>1, <2>2 DEF WireKnown, StaysPut
<1>3. CASE Open
  <2>1. call.url \in Url /\ Put(call.url, TRUE)
    BY <1>0, <1>3 DEF Open, TypeOK, Calls
  <2> QED BY <1>0, <1>3, <2>1, PutExtends DEF Open, WireKnown, StaysPut
<1>4. ASSUME NEW u \in Url, FollowRedirect(u) PROVE WireKnown' /\ StaysPut'
  BY <1>0, <1>4, PutExtends DEF FollowRedirect, WireKnown, StaysPut
<1>5. ASSUME UNCHANGED <<call, wire, outcome>>, pc # "idle" => pc' # "idle"
      PROVE WireKnown' /\ StaysPut'
  BY <1>5 DEF WireKnown, StaysPut
<1>6. CASE Reject
  BY <1>2, <1>6 DEF Reject, Unlogged
<1>7. CASE Respond
  BY <1>2, <1>7 DEF Respond, Logged
<1>8. CASE ReadErrorBody
  BY <1>2, <1>8 DEF ReadErrorBody, Logged
<1>9. CASE ErrorBodyFails
  BY <1>2, <1>9 DEF ErrorBodyFails, Unlogged
<1>10. CASE Transient
  BY <1>2, <1>5, <1>10 DEF Transient, Logged
<1>11. CASE HttpError \/ Retry \/ UNCHANGED vars
  BY <1>5, <1>11 DEF HttpError, Retry, vars
<1> QED BY <1>1, <1>3, <1>4, <1>6, <1>7, <1>8, <1>9, <1>10, <1>11 DEF Next, Step

(* follow_redirects=False, or left out where that is its default, keeps a  *)
(* call on its own URL through every retry and whatever the target sends.  *)
THEOREM NeverLedAway == Spec => []StaysPut
<1>1. Init => WireInv
  BY AuditInit DEF Init, WireInv, WireKnown, StaysPut
<1>2. WireInv => StaysPut
  BY DEF WireInv
<1> QED BY <1>1, <1>2, WireInvStep, PTL DEF Spec

(* No request of a call follows its error answer or its end.               *)
THEOREM NothingAfterTheAnswer == Spec => ErrorAnswerIsFinal
<1>1. ASSUME AuditInv, [Next]_vars, NEW c \in Call,
             outcome[c] # NoOutcome \/ (pc = "denied" /\ call.id = c)
      PROVE  Sent(c)' = Sent(c)
  <2> USE DEF AuditInv
  <2>1. CASE wire' = wire
    BY <2>1 DEF Sent
  <2>2. ASSUME NEW u \in Url, NEW first \in BOOLEAN, Put(u, first), pc \in {"pacing", "open"}
        PROVE  Sent(c)' = Sent(c)
    <3>1. call.id # c
      BY <1>1, <2>2 DEF InProgress
    <3> QED BY <1>1, <2>2, <3>1, PutExtends DEF Sent
  <2>3. CASE Open
    BY <1>1, <2>2, <2>3 DEF Open, TypeOK, Calls
  <2>4. ASSUME NEW u \in Url, FollowRedirect(u) PROVE Sent(c)' = Sent(c)
    BY <2>2, <2>4 DEF FollowRedirect
  <2> QED BY <1>1, <2>1, <2>3, <2>4 DEF Next, Step, Begin, Reject, Respond, HttpError,
       ReadErrorBody, ErrorBodyFails, Transient, Retry, vars
<1>2. AuditInv /\ [Next]_vars =>
        [\A c \in Call :
          (outcome[c] # NoOutcome \/ (pc = "denied" /\ call.id = c)) => Sent(c)' = Sent(c)]_vars
  BY <1>1
<1> QED BY <1>2, AuditInit, AuditStep, PTL DEF Spec, ErrorAnswerIsFinal

-----------------------------------------------------------------------------
(* The requests of the call in progress: those of a whole attempt for each *)
(* attempt that is over, and for the present one its redirects so far.     *)
Budget(n) == n * (MaxHops + 1)
Allowance ==
  CASE pc = "pacing" -> Budget(attempt)
    [] pc = "open" -> Budget(attempt) + hops + 1
    [] OTHER -> Budget(attempt + 1)
WithinBudget == pc # "idle" => Cardinality(Sent(call.id)) <= Allowance

BudgetInv == WireInv /\ WithinBudget /\ RequestsBounded

(* The budget grows by one attempt's worth per attempt, up to the bound.   *)
LEMMA BudgetGrows ==
  /\ Budget(0) = 0 /\ Budget(MaxRetries + 1) = (MaxRetries + 1) * (MaxHops + 1)
  /\ \A n \in Nat : Budget(n) \in Nat /\ Budget(n + 1) = Budget(n) + MaxHops + 1
  /\ \A n \in 0..MaxRetries : Budget(n + 1) <= Budget(MaxRetries + 1)
<1> USE RetriesAssumption DEF Budget
<1>1. \A n, d \in Nat : d * (MaxHops + 1) \in Nat /\ (n + d) * (MaxHops + 1) = n * (MaxHops + 1) + d * (MaxHops + 1)
  OBVIOUS
<1>2. ASSUME NEW n \in 0..MaxRetries PROVE Budget(n + 1) <= Budget(MaxRetries + 1)
  <2>1. n + 1 \in Nat /\ MaxRetries - n \in Nat /\ (n + 1) + (MaxRetries - n) = MaxRetries + 1
    OBVIOUS
  <2>2. Budget(MaxRetries + 1) = Budget(n + 1) + (MaxRetries - n) * (MaxHops + 1)
    BY <1>1, <2>1
  <2> QED BY <1>1, <2>1, <2>2
<1>3. \A n \in Nat : Budget(n) \in Nat /\ Budget(n + 1) = Budget(n) + MaxHops + 1
  BY <1>1
<1> QED BY <1>2, <1>3

(* The requests of a call can be counted.                                  *)
LEMMA SentFinite ==
  ASSUME TypeOK
  PROVE  \A c : IsFiniteSet(Sent(c)) /\ Cardinality(Sent(c)) \in Nat
<1>1. Len(wire) \in Nat /\ DOMAIN wire = 1..Len(wire)
  BY DEF TypeOK
<1>2. IsFiniteSet(DOMAIN wire)
  BY <1>1, FS_Interval
<1> QED BY <1>2, FS_Subset, FS_CardinalityType DEF Sent

(* A request counts for the call in progress, and for no other.            *)
LEMMA PutCounts ==
  ASSUME TypeOK, NEW u \in Url, NEW first \in BOOLEAN, Put(u, first)
  PROVE  \A c : Cardinality(Sent(c)') = IF c = call.id THEN Cardinality(Sent(c)) + 1 ELSE Cardinality(Sent(c))
<1> TAKE c
<1>1. CASE c = call.id
  <2>1. Sent(c)' = Sent(c) \union {Len(wire) + 1} /\ Len(wire) + 1 \notin Sent(c)
    BY <1>1, PutExtends DEF Sent
  <2> QED BY <1>1, <2>1, SentFinite, FS_AddElement
<1>2. CASE c # call.id
  <2>1. Sent(c)' = Sent(c)
    BY <1>2, PutExtends DEF Sent
  <2> QED BY <1>2, <2>1
<1> QED BY <1>1, <1>2

(* Every step keeps the call in progress within its budget.                *)
LEMMA BudgetStep == BudgetInv /\ [Next]_vars => BudgetInv'
<1> SUFFICES ASSUME BudgetInv, [Next]_vars PROVE WithinBudget' /\ RequestsBounded'
  BY WireInvStep DEF BudgetInv
<1>1. /\ TypeOK /\ WireKnown /\ WithinBudget /\ RequestsBounded
      /\ call.id \in Call /\ attempt \in 0..MaxRetries /\ hops \in 0..MaxHops
      /\ pc \in {"idle", "pacing", "open", "denied", "resting"}
      /\ pc = "resting" => attempt < MaxRetries
  BY DEF BudgetInv, WireInv, AuditInv, TypeOK, InProgress, Calls
<1>2. \A c : Cardinality(Sent(c)) \in Nat
  BY <1>1, SentFinite
<1>3. Budget(attempt) \in Nat /\ Budget(attempt + 1) = Budget(attempt) + MaxHops + 1
  BY <1>1, BudgetGrows, RetriesAssumption
<1> DEFINE sent(c) == Cardinality(Sent(c))
<1>4. ASSUME wire' = wire PROVE \A c : Sent(c)' = Sent(c)
  BY <1>4 DEF Sent
<1>5. ASSUME UNCHANGED <<wire, call>>, pc' # "idle" => Allowance <= Allowance' /\ pc # "idle",
             pc' # "idle" => Allowance \in Nat /\ Allowance' \in Nat
      PROVE  WithinBudget' /\ RequestsBounded'
  BY <1>1, <1>2, <1>4, <1>5 DEF WithinBudget, RequestsBounded
<1>6. ASSUME NEW new \in Calls, Begin(new) PROVE WithinBudget' /\ RequestsBounded'
  <2>1. Sent(new.id) = {} /\ new.id \in Call
    BY <1>1, <1>6 DEF Begin, WireKnown, Sent, Calls
  <2>2. call' = new /\ pc' = "pacing" /\ attempt' = 0 /\ wire' = wire
    BY <1>6 DEF Begin
  <2>3. Allowance' = 0
    BY <2>2, BudgetGrows DEF Allowance
  <2>4. Sent(call.id)' = {}
    BY <2>1, <2>2 DEF Sent
  <2>5. Cardinality(Sent(call.id))' = 0
    BY <2>4, FS_EmptySet
  <2>6. WithinBudget'
    BY <2>3, <2>5 DEF WithinBudget
  <2> QED BY <1>1, <1>4, <2>2, <2>6 DEF RequestsBounded
<1>7. ASSUME NEW u \in Url, NEW first \in BOOLEAN, Put(u, first), UNCHANGED call,
             sent(call.id) + 1 <= Allowance', Allowance' <= Budget(attempt + 1), Allowance' \in Nat
      PROVE  WithinBudget' /\ RequestsBounded'
  <2>1. \A c : Cardinality(Sent(c)') = IF c = call.id THEN sent(c) + 1 ELSE sent(c)
    BY <1>1, <1>7, PutCounts
  <2>2. Cardinality(Sent(call.id))' = sent(call.id) + 1
    BY <1>7, <2>1
  <2>3. Budget(attempt + 1) <= Budget(MaxRetries + 1) /\ Budget(MaxRetries + 1) \in Nat
    BY <1>1, BudgetGrows, RetriesAssumption
  <2>4. sent(call.id) + 1 <= Budget(MaxRetries + 1)
    <3>1. sent(call.id) \in Nat /\ Budget(attempt + 1) \in Nat
      BY <1>2, <1>3, RetriesAssumption
    <3> HIDE DEF sent
    <3> QED BY <1>7, <2>3, <3>1
  <2>5. RequestsBounded'
    BY <1>1, <2>1, <2>4, BudgetGrows DEF RequestsBounded
  <2>6. WithinBudget'
    BY <1>7, <2>2 DEF WithinBudget
  <2> QED BY <2>5, <2>6
<1>8. CASE Open
  <2>1. Put(call.url, TRUE) /\ pc = "pacing" /\ hops' = 0 /\ pc' = "open" /\ UNCHANGED <<call, attempt>>
    BY <1>8 DEF Open
  <2>2. sent(call.id) <= Budget(attempt)
    BY <1>1, <2>1 DEF WithinBudget, Allowance
  <2>3. Allowance' = Budget(attempt) + 1 /\ Budget(attempt) \in Nat
    BY <1>3, <2>1 DEF Allowance, Budget
  <2>4. /\ call.url \in Url /\ sent(call.id) + 1 <= Allowance'
        /\ Allowance' <= Budget(attempt + 1) /\ Allowance' \in Nat
    <3>1. call.url \in Url /\ sent(call.id) \in Nat
      BY <1>1, <1>2 DEF TypeOK, Calls
    <3> HIDE DEF sent
    <3> QED BY <1>3, <2>2, <2>3, <3>1, RetriesAssumption
  <2> QED BY <1>7, <2>1, <2>4
<1>9. ASSUME NEW u \in Url, FollowRedirect(u) PROVE WithinBudget' /\ RequestsBounded'
  <2>1. Put(u, FALSE) /\ pc = "open" /\ hops < MaxHops /\ hops' = hops + 1 /\ UNCHANGED <<pc, call, attempt>>
    BY <1>9 DEF FollowRedirect
  <2>2. sent(call.id) <= Budget(attempt) + hops + 1
    BY <1>1, <2>1 DEF WithinBudget, Allowance
  <2>3. Allowance' = Budget(attempt) + hops + 2
    BY <1>1, <1>3, <2>1 DEF Allowance, Budget
  <2>4. /\ sent(call.id) + 1 <= Allowance'
        /\ Allowance' <= Budget(attempt + 1) /\ Allowance' \in Nat
    <3>1. sent(call.id) \in Nat /\ hops \in Nat
      BY <1>1, <1>2
    <3> HIDE DEF sent
    <3> QED BY <1>3, <2>1, <2>2, <2>3, <3>1, RetriesAssumption
  <2> QED BY <1>7, <1>9, <2>1, <2>4
<1>10. CASE Respond \/ ReadErrorBody \/ ErrorBodyFails \/ Reject
  <2>1. UNCHANGED <<wire, call>> /\ pc' = "idle"
    BY <1>10 DEF Respond, ReadErrorBody, ErrorBodyFails, Reject, Return
  <2> QED BY <1>5, <2>1
<1>11. CASE HttpError
  <2>1. UNCHANGED <<wire, call, attempt>> /\ pc = "open" /\ pc' = "denied"
    BY <1>11 DEF HttpError
  <2>2. Allowance = Budget(attempt) + hops + 1 /\ Allowance' = Budget(attempt + 1)
    BY <2>1 DEF Allowance
  <2> QED BY <1>1, <1>3, <1>5, <2>1, <2>2, RetriesAssumption
<1>12. CASE Transient
  <2>1. UNCHANGED <<wire, call, attempt>> /\ pc \in {"pacing", "open"} /\ pc' \in {"resting", "idle"}
    BY <1>12 DEF Transient, Return
  <2>2. /\ Allowance \in {Budget(attempt), Budget(attempt) + hops + 1}
        /\ pc' = "resting" => Allowance' = Budget(attempt + 1)
    BY <2>1 DEF Allowance
  <2> QED BY <1>1, <1>3, <1>5, <2>1, <2>2, RetriesAssumption
<1>13. CASE Retry
  <2>1. UNCHANGED <<wire, call>> /\ attempt' = attempt + 1 /\ pc = "resting" /\ pc' = "pacing"
    BY <1>13 DEF Retry
  <2>2. Allowance = Budget(attempt + 1) /\ Allowance' = Budget(attempt + 1)
    BY <2>1 DEF Allowance
  <2> QED BY <1>1, <1>3, <1>5, <2>1, <2>2, RetriesAssumption
<1>14. CASE UNCHANGED vars
  <2>1. UNCHANGED <<wire, call, pc, attempt, hops>>
    BY <1>14 DEF vars
  <2>2. Allowance' = Allowance /\ Sent(call.id)' = Sent(call.id)
    BY <2>1 DEF Allowance, Sent, Budget
  <2> QED BY <1>1, <1>4, <2>1, <2>2 DEF WithinBudget, RequestsBounded
<1> QED BY <1>6, <1>8, <1>9, <1>10, <1>11, <1>12, <1>13, <1>14 DEF Next, Step

(* Retries and redirects multiply, and no further.                         *)
THEOREM RequestsCorrect == Spec => []RequestsBounded
<1>1. ASSUME Init PROVE BudgetInv
  <2>1. WireInv /\ pc = "idle" /\ \A c : Sent(c) = {}
    BY <1>1, AuditInit DEF Init, WireInv, WireKnown, StaysPut, Sent
  <2>2. (MaxRetries + 1) * (MaxHops + 1) \in Nat
    BY BudgetGrows, RetriesAssumption
  <2>3. RequestsBounded
    BY <2>1, <2>2, FS_EmptySet DEF RequestsBounded
  <2> QED BY <2>1, <2>3 DEF BudgetInv, WithinBudget
<1>2. BudgetInv => RequestsBounded
  BY DEF BudgetInv
<1> QED BY <1>1, <1>2, BudgetStep, PTL DEF Spec

(* The client implements the audit promise: attempts, redirects and the    *)
(* reading of an error body are stutters, and the step that ends a call is *)
(* the abstract Finish, for a call that has not ended before.              *)
THEOREM ClientRefinesPromise == Spec => ImplementsAuditedCalls
<1>1. Init => Abstract!Init
  BY DEF Init, Abstract!Init, NoOutcome, Abstract!NoOutcome
<1>2. ASSUME AuditInv, [Next]_vars PROVE [Abstract!Next]_<<outcome, audit>>
  <2> USE DEF AuditInv
  <2>1. ASSUME NEW o \in Logged, pc # "idle", Return(o), EmitAudit(o) PROVE Abstract!Next
    <3>1. call.id \in Call /\ outcome[call.id] = NoOutcome
      BY <1>2, <2>1 DEF InProgress, TypeOK, Calls
    <3>2. Abstract!Finish(call.id, o)
      BY <2>1, <3>1 DEF Abstract!Finish, Return, EmitAudit, NoOutcome, Abstract!NoOutcome
    <3> QED BY <3>1, <3>2 DEF Abstract!Next
  <2>2. ASSUME NEW o \in Unlogged, pc # "idle", Return(o), UNCHANGED audit PROVE Abstract!Next
    <3>1. call.id \in Call /\ outcome[call.id] = NoOutcome
      BY <1>2, <2>2 DEF InProgress, TypeOK, Calls
    <3>2. Abstract!Finish(call.id, o)
      BY <2>2, <3>1 DEF Abstract!Finish, Return, NoOutcome, Abstract!NoOutcome
    <3> QED BY <3>1, <3>2 DEF Abstract!Next
  <2>3. CASE Reject
    BY <2>2, <2>3 DEF Reject, Unlogged
  <2>4. CASE Respond
    BY <2>1, <2>4 DEF Respond, Logged
  <2>5. CASE ReadErrorBody
    BY <2>1, <2>5 DEF ReadErrorBody, Logged
  <2>6. CASE ErrorBodyFails
    BY <2>2, <2>6 DEF ErrorBodyFails, Unlogged
  <2>7. CASE Transient
    BY <2>1, <2>7 DEF Transient, Logged
  <2>8. CASE UNCHANGED <<outcome, audit>>
    BY <2>8
  <2> QED BY <1>2, <2>3, <2>4, <2>5, <2>6, <2>7, <2>8
       DEF Next, Step, Begin, Open, FollowRedirect, HttpError, Retry, vars
<1> QED BY <1>1, <1>2, AuditInit, AuditStep, PTL DEF Spec, ImplementsAuditedCalls, Abstract!Spec
=============================================================================
