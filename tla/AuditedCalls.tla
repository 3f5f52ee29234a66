----------------------------- MODULE AuditedCalls -----------------------------
(***************************************************************************)
(* What the HTTP client promises its callers, without attempts, backoff or *)
(* redirects: every call that is made ends at most once, and in the step   *)
(* that ends it the audit trail grows by the entry of that call and by     *)
(* nothing else.  A call that is rejected before anything is sent, or that *)
(* ends by an exception, leaves no entry.                                  *)
(***************************************************************************)
EXTENDS Sequences

CONSTANTS
  Call,        \* the calls a command makes, each with an identity of its own
  Logged,      \* outcomes that go to the audit trail
  Unlogged,    \* outcomes that do not
  MayLose      \* calls whose entry the audit callback may fail to write

VARIABLES outcome, audit

NoOutcome == "none"

Init == outcome = [c \in Call |-> NoOutcome] /\ audit = <<>>

Finish(c, o) ==
  /\ outcome[c] = NoOutcome
  /\ outcome' = [outcome EXCEPT ![c] = o]
  /\ \/ o \in Logged /\ audit' = Append(audit, [call |-> c, outcome |-> o])
     \/ (o \in Unlogged \/ c \in MayLose) /\ audit' = audit

Next == \E c \in Call, o \in Logged \union Unlogged : Finish(c, o)

Spec == Init /\ [][Next]_<<outcome, audit>>
=============================================================================
