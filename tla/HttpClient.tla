------------------------------ MODULE HttpClient ------------------------------
(***************************************************************************)
(* http_get, http_post and http_request of src/dribik/scanner.py: one call *)
(* at a time, each a loop of attempts.  An attempt waits for the rate      *)
(* limiter, opens the URL, may be led through redirects, and ends with a   *)
(* response, with an HTTPError whose body is then read, or with a          *)
(* transient exception that is retried after a pause while attempts last.  *)
(*                                                                         *)
(* The target and the network are the environment: whatever they may do to *)
(* an open request is a disjunct below.  Bodies, headers and timing are    *)
(* left out.  The loops of the three functions are the same, clause by     *)
(* clause; they differ in their default for follow_redirects and in the    *)
(* method test of http_request only.                                       *)
(***************************************************************************)
EXTENDS Integers, Sequences, FiniteSets

CONSTANTS
  Call,            \* identities of the calls a command makes, in any order
  Url,
  MaxRetries,      \* max_retries
  MaxHops,         \* redirections urllib follows before it raises HTTPError
  Unwritable       \* calls at whose end append_audit may raise, e.g. on a full disk

ASSUME RetriesAssumption == MaxRetries \in Nat /\ MaxHops \in Nat
ASSUME UnwritableAssumption == Unwritable \subseteq Call

VARIABLES
  pc,        \* where the call in progress stands
  call,      \* the call in progress, or the last one
  attempt,   \* its loop variable
  hops,      \* redirects followed in this attempt
  wire,      \* every request put on the wire: [call, url, first]
  outcome,   \* call -> how it ended
  audit      \* audit.jsonl

vars == <<pc, call, attempt, hops, wire, outcome, audit>>

Function == {"http_get", "http_post", "http_request"}
Logged == {"response", "http_error", "error"}
Unlogged == {"raised", "rejected"}
NoOutcome == "none"

(* follow_redirects as the caller passes it, or leaves it out.             *)
Asked == {"default", "follow", "stay"}
DefaultFollow(fn) == fn = "http_get"
Follows(fn, asked) == asked = "follow" \/ (asked = "default" /\ DefaultFollow(fn))

Calls == [id : Call, fn : Function, url : Url, asked : Asked]

Init ==
  /\ pc = "idle" /\ attempt = 0 /\ hops = 0
  /\ call \in Calls      \* means nothing before the first Begin
  /\ wire = <<>> /\ audit = <<>>
  /\ outcome = [c \in Call |-> NoOutcome]

(* _emit_audit: a callback that raises is swallowed, the entry is lost.    *)
EmitAudit(o) ==
  \/ audit' = Append(audit, [call |-> call.id, outcome |-> o])
  \/ call.id \in Unwritable /\ audit' = audit

Return(o) ==
  /\ outcome' = [outcome EXCEPT ![call.id] = o]
  /\ pc' = "idle"

Begin(new) ==
  /\ pc = "idle" /\ outcome[new.id] = NoOutcome
  /\ call' = new
  /\ attempt' = 0 /\ hops' = 0 /\ pc' = "pacing"
  /\ UNCHANGED <<wire, outcome, audit>>

(* http_request refuses a method that is not made of letters.              *)
Reject ==
  /\ pc = "pacing" /\ call.fn = "http_request" /\ attempt = 0
  /\ Return("rejected")
  /\ UNCHANGED <<call, attempt, hops, wire, audit>>

Put(u, first) == wire' = Append(wire, [call |-> call.id, url |-> u, first |-> first])

(* The limiter let the attempt through: opener.open(req).                  *)
Open ==
  /\ pc = "pacing"
  /\ Put(call.url, TRUE)
  /\ hops' = 0 /\ pc' = "open"
  /\ UNCHANGED <<call, attempt, outcome, audit>>

(* Slip: the opener is built without regard to follow_redirects.           *)
FollowRedirectAlways(u) ==
  /\ pc = "open" /\ hops < MaxHops
  /\ Put(u, FALSE)
  /\ hops' = hops + 1
  /\ UNCHANGED <<pc, call, attempt, outcome, audit>>

(* HTTPRedirectHandler: the new request goes out without another wait.     *)
FollowRedirect(u) ==
  /\ pc = "open" /\ Follows(call.fn, call.asked) /\ hops < MaxHops
  /\ Put(u, FALSE)
  /\ hops' = hops + 1
  /\ UNCHANGED <<pc, call, attempt, outcome, audit>>

(* The final response arrived and up to 64 KB of it was read.              *)
Respond ==
  /\ pc = "open"
  /\ Return("response") /\ EmitAudit("response")
  /\ UNCHANGED <<call, attempt, hops, wire>>

(* urllib raises HTTPError: a 4xx or 5xx status, a redirect that is not    *)
(* followed, or one too many.                                              *)
HttpError ==
  /\ pc = "open"
  /\ pc' = "denied"
  /\ UNCHANGED <<call, attempt, hops, wire, outcome, audit>>

ReadErrorBody ==
  /\ pc = "denied"
  /\ Return("http_error") /\ EmitAudit("http_error")
  /\ UNCHANGED <<call, attempt, hops, wire>>

(* e.read() raises inside the handler; no clause of the same try catches   *)
(* that, so the exception leaves the function.                             *)
ErrorBodyFails ==
  /\ pc = "denied"
  /\ Return("raised")
  /\ UNCHANGED <<call, attempt, hops, wire, audit>>

(* Slips: one attempt too many; an audit entry for every failed attempt.   *)
TransientOnceMore ==
  /\ pc \in {"pacing", "open"}
  /\ \/ attempt <= MaxRetries /\ pc' = "resting" /\ UNCHANGED <<outcome, audit>>
     \/ attempt > MaxRetries /\ Return("error") /\ EmitAudit("error")
  /\ UNCHANGED <<call, attempt, hops, wire>>

TransientLogsRetries ==
  /\ pc \in {"pacing", "open"}
  /\ \/ attempt < MaxRetries /\ pc' = "resting" /\ EmitAudit("error") /\ UNCHANGED outcome
     \/ attempt = MaxRetries /\ Return("error") /\ EmitAudit("error")
  /\ UNCHANGED <<call, attempt, hops, wire>>

(* Any other exception: no connection, hence nothing sent; a timeout; a    *)
(* body cut short.  With no attempt left the error becomes the result.     *)
Transient ==
  /\ pc \in {"pacing", "open"}
  /\ \/ attempt < MaxRetries /\ pc' = "resting" /\ UNCHANGED <<outcome, audit>>
     \/ attempt = MaxRetries /\ Return("error") /\ EmitAudit("error")
  /\ UNCHANGED <<call, attempt, hops, wire>>

(* Slips: the attempt is not counted; the loop ends without a result.      *)
RetryUncounted ==
  /\ pc = "resting"
  /\ pc' = "pacing"
  /\ UNCHANGED <<attempt, call, hops, wire, outcome, audit>>

RetryOneShort ==
  /\ pc = "resting" /\ attempt + 1 < MaxRetries
  /\ attempt' = attempt + 1 /\ pc' = "pacing"
  /\ UNCHANGED <<call, hops, wire, outcome, audit>>

(* The backoff sleep is over and the loop goes round.                      *)
Retry ==
  /\ pc = "resting"
  /\ attempt' = attempt + 1 /\ pc' = "pacing"
  /\ UNCHANGED <<call, hops, wire, outcome, audit>>

Step ==
  \/ Reject \/ Open \/ Respond \/ HttpError \/ ReadErrorBody
  \/ ErrorBodyFails \/ Transient \/ Retry
  \/ \E u \in Url : FollowRedirect(u)

Next ==
  \/ \E new \in Calls : Begin(new)
  \/ Step

(* A call in progress goes on: the limiter's wait and the backoff end, and *)
(* every socket operation has a timeout.  Commands need not make a call.   *)
Spec == Init /\ [][Next]_vars /\ WF_vars(Step)
-----------------------------------------------------------------------------
(* Types of the client's state.                                            *)
TypeOK ==
  /\ pc \in {"idle", "pacing", "open", "denied", "resting"}
  /\ call \in Calls
  /\ attempt \in 0..MaxRetries
  /\ hops \in 0..MaxHops
  /\ wire \in Seq([call : Call, url : Url, first : BOOLEAN])
  /\ outcome \in [Call -> {NoOutcome} \union Logged \union Unlogged]
  /\ audit \in Seq([call : Call, outcome : Logged])

(* The audit trail agrees with what the callers were told: one entry at    *)
(* most per call, with the outcome that was returned, and, where the       *)
(* callback works, an entry for every call that returned a result.         *)
AuditAgrees ==
  /\ \A i, j \in DOMAIN audit : audit[i].call = audit[j].call => i = j
  /\ \A i \in DOMAIN audit : outcome[audit[i].call] = audit[i].outcome
  /\ \A c \in Call \ Unwritable :
       outcome[c] \in Logged => \E i \in DOMAIN audit : audit[i].call = c

(* A call that does not follow redirects sends nothing but to its own URL, *)
(* whichever of the three functions it is and however often it retries.    *)
StaysPut ==
  ~Follows(call.fn, call.asked) =>
    \A i \in DOMAIN wire : wire[i].call = call.id => wire[i].url = call.url

Sent(c) == {i \in DOMAIN wire : wire[i].call = c}

(* Retries and redirects multiply, and no further: the requests of one     *)
(* call never exceed attempts times one more than the redirect limit.      *)
RequestsBounded ==
  \A c \in Call : Cardinality(Sent(c)) <= (MaxRetries + 1) * (MaxHops + 1)

(* Once the target has answered with an error status, or the call has      *)
(* ended, no further request of that call goes out: an error answer is     *)
(* final, only transient failures are retried.                             *)
ErrorAnswerIsFinal ==
  [][\A c \in Call :
       (outcome[c] # NoOutcome \/ (pc = "denied" /\ call.id = c)) => Sent(c)' = Sent(c)]_vars

(* Every call that begins ends, whatever the target does.                  *)
CallsEnd == pc # "idle" ~> pc = "idle"

(* The client implements the audit promise.                                *)
Abstract == INSTANCE AuditedCalls WITH MayLose <- Unwritable
ImplementsAuditedCalls == Abstract!Spec

(* The docstring of http_get: redirects are not followed by default.       *)
DefaultStaysPut ==
  call.asked = "default" =>
    \A i \in DOMAIN wire : wire[i].call = call.id => wire[i].url = call.url
=============================================================================
