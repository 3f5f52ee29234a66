----------------------------- MODULE MCWorkspace -----------------------------
(***************************************************************************)
(* The files of a workspace: the audit file, with up to five appends, any  *)
(* of them interrupted; the files that are loaded and saved, with two      *)
(* commands at a time over two records; and the lines of scope.yaml, with  *)
(* two saves of up to two rules to a list, either cut off anywhere.        *)
(*                                                                         *)
(* The three share no state, so they are explored side by side: each moves *)
(* while the others are as they began.  A behaviour of any of them is then *)
(* exactly one of its own specification.                                   *)
(***************************************************************************)
EXTENDS Workspace, AuditFile, ScopeFile, TLC

WorkspaceInit == Init /\ AuditInit /\ ScopeInit
WorkspaceNext ==
  \/ started = 0 /\ saves = 0 /\ AuditNext /\ UNCHANGED <<vars, scopeVars>>
  \/ lines = <<>> /\ saves = 0 /\ Next /\ UNCHANGED <<auditVars, scopeVars>>
  \/ lines = <<>> /\ started = 0 /\ ScopeNext /\ UNCHANGED <<vars, auditVars>>

WorkspaceSpec == WorkspaceInit /\ [][WorkspaceNext]_<<vars, auditVars, scopeVars>>

Symmetric == Permutations(Process) \union Permutations(Record)

=============================================================================
