--------------------------- MODULE EngagementProofs ---------------------------
(***************************************************************************)
(* Proofs about the gates, for any processes, URLs, commands, scope files  *)
(* and consent records.                                                    *)
(***************************************************************************)
EXTENDS Engagement, TLAPS

(* Granting only ever adds: a check that passes stays passed.              *)
LEMMA ConsentStays ==
  ASSUME NEW log, NEW r, NEW target, NEW cap, NEW t, HasConsent(log, target, cap, t)
  PROVE  HasConsent(log \union {r}, target, cap, t)
  BY DEF HasConsent

(* What the stage of a command says about the checks it has passed and the *)
(* scope it works with.                                                    *)
Vetted(r) ==
  /\ r.stage \in {"consent", "reread", "working"} =>
       /\ InScope(r.gate, r.cmd.target)
       /\ r.version <= edits /\ (r.version = edits => r.copy = scope)
  /\ r.stage \in {"reread", "working"} =>
       HasConsent(consent, r.cmd.target.host, Capability(r.cmd.kind), r.time)
  /\ r.stage = "reread" => Rereads(r.cmd.kind)
  /\ r.stage \in {"consent", "working"} /\ ~Rereads(r.cmd.kind) => r.copy = r.gate

(* A request on the wire belongs to a command that is at work.             *)
Accounted(w) ==
  LET r == run[w.by] IN
    /\ r.stage = "working"
    /\ ~w.hop => w.url \in Requests(r.cmd, r.copy)

GateInv ==
  /\ TypeOK
  /\ \A p \in Process : Vetted(run[p])
  /\ \A w \in wire : Accounted(w)

(* Nothing is on the wire before a command has passed its gate.            *)
LEMMA GateInit == Init => GateInv
<1> SUFFICES ASSUME Init PROVE GateInv
  OBVIOUS
<1>1. TypeOK
  BY BoundsAssumption DEF Init, TypeOK, Idle
<1> QED BY <1>1 DEF Init, GateInv, Vetted, Accounted, Idle

Run == [stage : {"idle", "consent", "reread", "working", "refused"}, cmd : Command,
        gate : Scopes \union {NoScope}, time : 0..MaxTime,
        copy : Scopes \union {NoScope}, version : 0..MaxEdits]

(* A command that is not at work yet takes a step, and the workspace stays.*)
LEMMA Advance ==
  ASSUME GateInv, NEW p \in Process, run[p].stage # "working", UnchangedWorkspace,
         NEW r \in Run, Vetted(r), run' = [run EXCEPT ![p] = r]
  PROVE  GateInv'
<1> USE DEF GateInv, UnchangedWorkspace
<1>1. run \in [Process -> Run] /\ run' \in [Process -> Run]
  BY DEF TypeOK, Run
<1>2. TypeOK'
  BY <1>1 DEF TypeOK, Run
<1>3. \A q \in Process : Vetted(run[q])'
  BY <1>1 DEF Vetted
<1>4. ASSUME NEW w \in wire PROVE Accounted(w)'
  <2>1. w.by \in Process /\ w.by # p
    BY DEF TypeOK, Accounted
  <2> QED BY <1>1, <2>1 DEF Accounted
<1> QED BY <1>2, <1>3, <1>4

(* The operator or the clock takes a step: no command and no request does. *)
LEMMA Elsewhere ==
  ASSUME GateInv, UNCHANGED <<run, wire>>, TypeOK',
         consent \subseteq consent',
         UNCHANGED <<scope, edits>> \/ edits' = edits + 1
  PROVE  GateInv'
<1> USE DEF GateInv
<1>1. ASSUME NEW p \in Process PROVE Vetted(run[p])'
  <2>1. Vetted(run[p]) /\ run[p].version \in Nat /\ edits \in Nat
    BY BoundsAssumption DEF TypeOK
  <2>2. ASSUME HasConsent(consent, run[p].cmd.target.host, Capability(run[p].cmd.kind), run[p].time)
        PROVE  HasConsent(consent, run[p].cmd.target.host, Capability(run[p].cmd.kind), run[p].time)'
    BY <2>2 DEF HasConsent
  <2> QED BY <2>1, <2>2 DEF Vetted
<1>2. ASSUME NEW w \in wire PROVE Accounted(w)'
  BY DEF Accounted
<1> QED BY <1>1, <1>2

(* Neither a command nor the operator breaks the invariant.                *)
LEMMA GateStep == GateInv /\ [Next]_vars => GateInv'
<1> SUFFICES ASSUME GateInv, [Next]_vars PROVE GateInv'
  OBVIOUS
<1> USE BoundsAssumption
<1>0. /\ run \in [Process -> Run] /\ edits \in 0..MaxEdits /\ now \in 0..MaxTime
      /\ scope \in Scopes /\ TypeOK
  BY DEF GateInv, TypeOK, Run
<1>1. ASSUME NEW p \in Process, CheckScope(p) PROVE GateInv'
  <2>1. CASE InScope(scope, run[p].cmd.target)
    <3> DEFINE r == [run[p] EXCEPT !.stage = "consent", !.gate = scope, !.copy = scope, !.version = edits]
    <3>1. r \in Run /\ run' = [run EXCEPT ![p] = r]
      BY <1>0, <1>1, <2>1 DEF CheckScope, Run
    <3>2. /\ r.stage = "consent" /\ r.gate = scope /\ r.copy = scope /\ r.version = edits
          /\ r.cmd = run[p].cmd
      BY <1>0 DEF Run
    <3>3. Vetted(r)
      BY <1>0, <2>1, <3>2 DEF Vetted
    <3> QED BY <1>1, <3>1, <3>3, Advance DEF CheckScope
  <2>2. CASE ~InScope(scope, run[p].cmd.target)
    <3> DEFINE r == [run[p] EXCEPT !.stage = "refused"]
    <3>1. r \in Run /\ run' = [run EXCEPT ![p] = r] /\ Vetted(r)
      BY <1>0, <1>1, <2>2 DEF CheckScope, Run, Vetted
    <3> QED BY <1>1, <3>1, Advance DEF CheckScope
  <2> QED BY <2>1, <2>2
<1>2. ASSUME NEW p \in Process, CheckConsent(p) PROVE GateInv'
  <2> DEFINE has == HasConsent(consent, run[p].cmd.target.host, Capability(run[p].cmd.kind), now)
  <2>1. Vetted(run[p]) /\ run[p].stage = "consent"
    BY <1>2 DEF CheckConsent, GateInv
  <2>2. CASE has
    <3> DEFINE r == [run[p] EXCEPT !.stage = IF Rereads(run[p].cmd.kind) THEN "reread" ELSE "working",
                                   !.time = now]
    <3>1. r \in Run /\ run' = [run EXCEPT ![p] = r]
      BY <1>0, <1>2, <2>2 DEF CheckConsent, Run
    <3>2. Vetted(r)
      BY <1>0, <2>1, <2>2 DEF Vetted, Run
    <3> QED BY <1>2, <3>1, <3>2, Advance DEF CheckConsent
  <2>3. CASE ~has
    <3> DEFINE r == [run[p] EXCEPT !.stage = "refused"]
    <3>1. r \in Run /\ run' = [run EXCEPT ![p] = r] /\ Vetted(r)
      BY <1>0, <1>2, <2>3 DEF CheckConsent, Run, Vetted
    <3> QED BY <1>2, <3>1, Advance DEF CheckConsent
  <2> QED BY <2>2, <2>3
<1>3. ASSUME NEW p \in Process, Reread(p) PROVE GateInv'
  <2> DEFINE r == [run[p] EXCEPT !.stage = "working", !.copy = scope, !.version = edits]
  <2>1. Vetted(run[p]) /\ run[p].stage = "reread"
    BY <1>3 DEF Reread, GateInv
  <2>2. r \in Run /\ run' = [run EXCEPT ![p] = r]
    BY <1>0, <1>3 DEF Reread, Run
  <2>3. /\ r.stage = "working" /\ r.copy = scope /\ r.version = edits
        /\ r.cmd = run[p].cmd /\ r.gate = run[p].gate /\ r.time = run[p].time
    BY <1>0 DEF Run
  <2>4. Vetted(r)
    BY <1>0, <1>3, <2>1, <2>3 DEF Vetted
  <2> QED BY <1>3, <2>2, <2>4, Advance DEF Reread
<1>4. ASSUME NEW p \in Process, NEW u \in Url, Send(p, u) \/ Redirect(p, u) PROVE GateInv'
  <2>1. PICK w \in [by : Process, url : Url, hop : BOOLEAN] :
          wire' = wire \union {w} /\ Accounted(w)
    <3>1. CASE Send(p, u)
      <4> DEFINE x == [by |-> p, url |-> u, hop |-> FALSE]
      <4>1. x \in [by : Process, url : Url, hop : BOOLEAN] /\ wire' = wire \union {x} /\ Accounted(x)
        BY <3>1 DEF Send, Accounted
      <4> QED BY <4>1
    <3>2. CASE Redirect(p, u)
      <4> DEFINE x == [by |-> p, url |-> u, hop |-> TRUE]
      <4>1. x \in [by : Process, url : Url, hop : BOOLEAN] /\ wire' = wire \union {x} /\ Accounted(x)
        BY <3>2 DEF Redirect, Accounted
      <4> QED BY <4>1
    <3> QED BY <1>4, <3>1, <3>2
  <2>2. UNCHANGED <<scope, consent, edits, now, run>>
    BY <1>4 DEF Send, Redirect
  <2>3. TypeOK' /\ (\A q \in Process : Vetted(run[q])')
    BY <1>0, <2>1, <2>2 DEF GateInv, TypeOK, Vetted
  <2>4. ASSUME NEW x \in wire \union {w} PROVE Accounted(x)'
    BY <2>1, <2>2 DEF GateInv, Accounted
  <2> QED BY <2>1, <2>3, <2>4 DEF GateInv
<1>5. ASSUME NEW s \in Scopes, LoadScope(s) PROVE GateInv'
  <2>1. TypeOK'
    BY <1>0, <1>5 DEF LoadScope, TypeOK
  <2> QED BY <1>5, <2>1, Elsewhere DEF LoadScope
<1>6. ASSUME NEW r \in Grants, Grant(r) PROVE GateInv'
  <2>1. TypeOK'
    BY <1>0, <1>6 DEF Grant, TypeOK
  <2> QED BY <1>6, <2>1, Elsewhere DEF Grant
<1>7. CASE Tick
  <2>1. TypeOK'
    BY <1>0, <1>7 DEF Tick, TypeOK
  <2> QED BY <1>7, <2>1, Elsewhere DEF Tick
<1>8. CASE UNCHANGED vars
  <2>1. TypeOK'
    BY <1>0, <1>8 DEF vars, TypeOK
  <2> QED BY <1>8, <2>1, Elsewhere DEF vars
<1> QED BY <1>1, <1>2, <1>3, <1>4, <1>5, <1>6, <1>7, <1>8 DEF Next

(* The engagement's state keeps its types.                                 *)
THEOREM TypeCorrect == Spec => []TypeOK
<1>1. GateInv => TypeOK
  BY DEF GateInv
<1> QED BY <1>1, GateInit, GateStep, PTL DEF Spec

(* No request leaves for a command whose gate did not find its target in   *)
(* scope and consent in force, whatever happens to the files.              *)
THEOREM GateCorrect == Spec => []GateHeld
<1>1. GateInv => GateHeld
  BY DEF GateInv, GateHeld, TypeOK, Vetted, Accounted
<1> QED BY <1>1, GateInit, GateStep, PTL DEF Spec

(* While no scope is loaded behind its back, a command stays in the scope  *)
(* on disk.                                                                *)
THEOREM NarrowingCorrect == Spec => []NarrowingNoticed
<1>1. GateInv => NarrowingNoticed
  <2> SUFFICES ASSUME GateInv, NEW w \in wire, ~w.hop, run[w.by].version = edits,
                      run[w.by].cmd.kind \notin {"robots", "takeover"}
               PROVE  InScope(scope, w.url)
    BY DEF NarrowingNoticed
  <2> DEFINE r == run[w.by]
  <2>1. /\ r.stage = "working" /\ w.url \in Requests(r.cmd, r.copy)
        /\ InScope(r.gate, r.cmd.target) /\ r.copy = scope
        /\ ~Rereads(r.cmd.kind) => r.copy = r.gate
        /\ r.cmd.kind \in Kind \ {"robots", "takeover"}
    BY CommandAssumption DEF GateInv, TypeOK, Vetted, Accounted
  <2> HIDE DEF r
  <2>2. CASE r.cmd.kind \in {"tech", "replay"}
    BY <2>1, <2>2 DEF Requests, Rereads
  <2>3. CASE r.cmd.kind \in {"crawl", "content", "probe"}
    BY <2>1, <2>3 DEF Requests, CrawlRequests, ContentRequests, ProbeRequests
  <2> QED BY <2>1, <2>2, <2>3 DEF Kind
<1> QED BY <1>1, GateInit, GateStep, PTL DEF Spec
=============================================================================
