------------------------------ MODULE Engagement ------------------------------
(***************************************************************************)
(* Commands that contact targets, from the gate to the last request, while *)
(* the operator changes the workspace and time passes (src/dribik/cli.py   *)
(* with the modules it calls).                                             *)
(*                                                                         *)
(* A command is [kind, target, follow].  The gate (_require_authorized_    *)
(* target or _host) loads the scope, classifies the target, loads the      *)
(* consent log and checks it; most commands then load the scope once more  *)
(* and work with that copy to the end.  Loading a file is one step here:   *)
(* module Workspace takes it apart.  Attempts and audit entries are those  *)
(* of module HttpClient, the order of a crawl that of module Crawler.      *)
(***************************************************************************)
EXTENDS Scope, Consent, Naturals

CONSTANTS
  Process,      \* commands running at the same time
  Url,          \* URLs, as assets
  Command,      \* commands the operator may start
  Scopes,       \* scope files the operator may load
  Grants,       \* consent records the operator may add
  MaxEdits,     \* bound on loads of a scope file
  MaxTime       \* bound on the clock

ASSUME BoundsAssumption == MaxEdits \in Nat /\ MaxTime \in Nat
Kind == {"crawl", "content", "probe", "robots", "tech", "replay", "takeover"}
ASSUME CommandAssumption ==
  \A c \in Command : c.kind \in Kind /\ (c.kind # "takeover" => c.target \in Url)

VARIABLES
  scope,        \* scope.yaml
  consent,      \* consent.json, a set of records
  edits,        \* how often a scope was loaded
  now,
  run,          \* process -> its command and how far that is: [stage, cmd,
                \*   gate: the scope the gate saw, time: when it passed,
                \*   copy: the scope it works with, version: edits at that load]
  wire          \* requests sent: [by, url, hop], hop for a followed redirect

vars == <<scope, consent, edits, now, run, wire>>

Blanket == <<"active_exploitation">>
Capability(kind) ==
  IF kind \in {"crawl", "content", "probe"} THEN Blanket \o <<kind>> ELSE Blanket

(* Commands that load the scope again after the gate.                      *)
Rereads(kind) == kind \notin {"tech", "replay"}
FollowsRedirects(c) == IF c.kind = "replay" THEN c.follow ELSE c.kind # "content"

(* The requests a command makes itself, under its copy s of the scope.     *)
(* Payloads in a query are left out, and so is the random path that        *)
(* content discovery takes as its baseline: no rule tells it from others.  *)
CrawlRequests(s) == {u \in Url : InScope(s, u)}

ContentRequests(target, s) ==
  {u \in Url : InScope(s, target) /\ u.host = target.host /\ InScope(s, u)}

ProbeRequests(target, s) == {u \in Url : InScope(s, target) /\ u = target}

(* robots.txt itself is requested unseen, sitemaps if they are in scope.   *)
RobotsRequests(target, s) ==
  {u \in Url : u.text = target.text \o <<"robots.txt">> \/ InScope(s, u)}

TakeoverRequests(target, s) ==
  {u \in Url : /\ InScope(s, target) /\ u.host = target.host
               /\ \E scheme \in {"https", "http"} : u.text = <<scheme>> \o target.text}

Requests(c, s) ==
  CASE c.kind = "crawl" -> CrawlRequests(s)
    [] c.kind = "content" -> ContentRequests(c.target, s)
    [] c.kind = "probe" -> ProbeRequests(c.target, s)
    [] c.kind = "robots" -> RobotsRequests(c.target, s)
    [] c.kind = "takeover" -> TakeoverRequests(c.target, s)
    [] OTHER -> {u \in Url : u = c.target}

NoScope == [allow |-> {}, deny |-> {}]
Idle(c) == [stage |-> "idle", cmd |-> c, gate |-> NoScope, time |-> 0, copy |-> NoScope, version |-> 0]

(* A process runs one command; which one is settled when it starts.        *)
Init ==
  /\ scope \in Scopes /\ consent \in SUBSET Grants
  /\ edits = 0 /\ now = 0 /\ wire = {}
  /\ run \in [Process -> {Idle(c) : c \in Command}]

UnchangedWorkspace == UNCHANGED <<scope, consent, edits, now, wire>>

(* classify(ws.load_scope(), url) in the gate.                             *)
CheckScope(p) ==
  /\ run[p].stage = "idle"
  /\ run' = IF InScope(scope, run[p].cmd.target)
            THEN [run EXCEPT ![p].stage = "consent", ![p].gate = scope,
                             ![p].copy = scope, ![p].version = edits]
            ELSE [run EXCEPT ![p].stage = "refused"]
  /\ UnchangedWorkspace

(* Slip: any record of the host will do.                                   *)
CheckAnyRecord(p) ==
  /\ run[p].stage = "consent"
  /\ LET c == run[p].cmd IN
       run' = IF \E r \in consent : Folded[r.target] = Folded[c.target.host]
              THEN [run EXCEPT ![p].stage = IF Rereads(c.kind) THEN "reread" ELSE "working",
                               ![p].time = now]
              ELSE [run EXCEPT ![p].stage = "refused"]
  /\ UnchangedWorkspace

(* consent_require(ws.load_consent(), ...), and the audit log is enabled.  *)
CheckConsent(p) ==
  /\ run[p].stage = "consent"
  /\ LET c == run[p].cmd IN
       run' = IF HasConsent(consent, c.target.host, Capability(c.kind), now)
              THEN [run EXCEPT ![p].stage = IF Rereads(c.kind) THEN "reread" ELSE "working",
                               ![p].time = now]
              ELSE [run EXCEPT ![p].stage = "refused"]
  /\ UnchangedWorkspace

(* Slip: the scope of the gate is kept.                                    *)
RereadNothing(p) ==
  /\ run[p].stage = "reread"
  /\ run' = [run EXCEPT ![p].stage = "working", ![p].version = edits]
  /\ UnchangedWorkspace

Reread(p) ==
  /\ run[p].stage = "reread"
  /\ run' = [run EXCEPT ![p].stage = "working", ![p].copy = scope, ![p].version = edits]
  /\ UnchangedWorkspace

Send(p, u) ==
  /\ run[p].stage = "working" /\ u \in Requests(run[p].cmd, run[p].copy)
  /\ wire' = wire \union {[by |-> p, url |-> u, hop |-> FALSE]}
  /\ UNCHANGED <<scope, consent, edits, now, run>>

(* A target answers a request of p with a redirect, and it is followed.    *)
Redirect(p, u) ==
  /\ run[p].stage = "working" /\ FollowsRedirects(run[p].cmd)
  /\ \E w \in wire : w.by = p
  /\ wire' = wire \union {[by |-> p, url |-> u, hop |-> TRUE]}
  /\ UNCHANGED <<scope, consent, edits, now, run>>

(* dribik scope load, in another shell.                                    *)
LoadScope(s) ==
  /\ edits < MaxEdits
  /\ scope' = s /\ edits' = edits + 1
  /\ UNCHANGED <<consent, now, run, wire>>

(* dribik consent grant: records are added, never taken away.              *)
Grant(r) ==
  /\ consent' = consent \union {r}
  /\ UNCHANGED <<scope, edits, now, run, wire>>

Tick ==
  /\ now < MaxTime /\ now' = now + 1
  /\ UNCHANGED <<scope, consent, edits, run, wire>>

Next ==
  \/ \E p \in Process :
       \/ CheckScope(p) \/ CheckConsent(p) \/ Reread(p)
       \/ \E u \in Url : Send(p, u) \/ Redirect(p, u)
  \/ \E s \in Scopes : LoadScope(s)
  \/ \E r \in Grants : Grant(r)
  \/ Tick

Spec == Init /\ [][Next]_vars
-----------------------------------------------------------------------------
(* Types of the engagement's state.                                        *)
TypeOK ==
  /\ scope \in Scopes /\ consent \subseteq Grants
  /\ edits \in 0..MaxEdits /\ now \in 0..MaxTime
  /\ run \in [Process -> [stage : {"idle", "consent", "reread", "working", "refused"}, cmd : Command,
                          gate : Scopes \union {NoScope}, time : 0..MaxTime,
                          copy : Scopes \union {NoScope}, version : 0..MaxEdits]]
  /\ wire \subseteq [by : Process, url : Url, hop : BOOLEAN]

(* Whatever is on the wire was sent for a command whose target was in the  *)
(* scope its gate saw and which had consent for its own capability at the  *)
(* moment of the gate, whatever the operator did to the files meanwhile.   *)
GateHeld ==
  \A w \in wire :
    LET r == run[w.by] IN
      /\ InScope(r.gate, r.cmd.target)
      /\ HasConsent(consent, r.cmd.target.host, Capability(r.cmd.kind), r.time)

(* A narrowed scope takes hold: if no scope was loaded since a command     *)
(* read its copy, each of its own requests is in scope by the file on      *)
(* disk.  Two kinds of command request URLs they have not classified and   *)
(* are not covered: recon robots and subdomains takeover.                  *)
NarrowingNoticed ==
  \A w \in wire :
    LET r == run[w.by] IN
      ~w.hop /\ r.version = edits /\ r.cmd.kind \notin {"robots", "takeover"} => InScope(scope, w.url)

(* README.md:41: the scope is checked before every active probe.           *)
EveryProbeInScope ==
  \A w \in wire : ~w.hop => InScope(run[w.by].copy, w.url) \/ InScope(run[w.by].gate, w.url)

=============================================================================
