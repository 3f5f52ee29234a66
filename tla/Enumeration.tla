------------------------------ MODULE Enumeration ------------------------------
(***************************************************************************)
(* subdomains enum (src/dribik/subdomains.py and cli.py): candidate names  *)
(* are resolved by a pool of threads, collected as they complete, sorted,  *)
(* and added to the asset graph.  A name that does not resolve is left     *)
(* out; any other exception of the resolver, such as UnicodeError for a    *)
(* label that is too long, leaves the collecting loop, and the command     *)
(* ends once the pool has worked off every name it was given.              *)
(***************************************************************************)
EXTENDS Naturals, FiniteSets

CONSTANTS
  Name,         \* positions in the list of candidates
  Workers       \* max_workers

VARIABLES
  pool,        \* "collecting", "leaving", "done" or "raised"
  waiting,      \* names no thread has taken yet
  running,      \* names being resolved
  answer,       \* name -> what the resolver said
  collected,    \* futures the loop has been through
  resolved,
  hosts         \* hosts the command added to the graph

nameVars == <<pool, waiting, running, answer, collected, resolved, hosts>>

Outcomes == {"addresses", "unknown", "raises"}
Pending == "pending"

NamesInit ==
  /\ pool = "collecting" /\ waiting = Name /\ running = {}
  /\ answer = [n \in Name |-> Pending]
  /\ collected = {} /\ resolved = {} /\ hosts = {}

(* A thread of the pool takes a name.                                      *)
Start(n) ==
  /\ n \in waiting /\ Cardinality(running) < Workers
  /\ waiting' = waiting \ {n} /\ running' = running \union {n}
  /\ UNCHANGED <<pool, answer, collected, resolved, hosts>>

(* _resolve returns or raises.                                             *)
Resolve(n, outcome) ==
  /\ n \in running
  /\ running' = running \ {n} /\ answer' = [answer EXCEPT ![n] = outcome]
  /\ UNCHANGED <<pool, waiting, collected, resolved, hosts>>

(* Slip: hosts are added one by one.                                       *)
CollectAndAdd(n) ==
  /\ pool = "collecting" /\ n \notin collected /\ answer[n] # Pending
  /\ collected' = collected \union {n}
  /\ pool' = IF answer[n] = "raises" THEN "leaving" ELSE pool
  /\ resolved' = IF answer[n] = "addresses" THEN resolved \union {n} ELSE resolved
  /\ hosts' = resolved'
  /\ UNCHANGED <<waiting, running, answer>>

(* One round of the loop over as_completed.                                *)
Collect(n) ==
  /\ pool = "collecting" /\ n \notin collected /\ answer[n] # Pending
  /\ collected' = collected \union {n}
  /\ pool' = IF answer[n] = "raises" THEN "leaving" ELSE pool
  /\ resolved' = IF answer[n] = "addresses" THEN resolved \union {n} ELSE resolved
  /\ UNCHANGED <<waiting, running, answer, hosts>>

(* The loop is over, the pool is shut down, the hosts are added.           *)
AddResolved ==
  /\ pool = "collecting" /\ collected = Name
  /\ pool' = "done" /\ hosts' = resolved
  /\ UNCHANGED <<waiting, running, answer, collected, resolved>>

(* The exception passes the end of the with block, which waits.            *)
Leave ==
  /\ pool = "leaving" /\ waiting = {} /\ running = {}
  /\ pool' = "raised"
  /\ UNCHANGED <<waiting, running, answer, collected, resolved, hosts>>

NamesNext ==
  \/ \E n \in Name : Start(n) \/ Collect(n) \/ \E o \in Outcomes : Resolve(n, o)
  \/ AddResolved \/ Leave

(* The resolver answers sooner or later, and the loop takes its answers.   *)
NamesSpec == NamesInit /\ [][NamesNext]_nameVars /\ WF_nameVars(NamesNext)
-----------------------------------------------------------------------------
(* All or nothing: either every name that resolved is added to the graph,  *)
(* or none is, and none only if a name made the resolver raise; in which   *)
(* order threads finish makes no difference.                               *)
AllOrNothing ==
  /\ pool = "done" => hosts = {n \in Name : answer[n] = "addresses"}
  /\ pool # "done" => hosts = {}
  /\ pool = "raised" => \E n \in Name : answer[n] = "raises"

=============================================================================
