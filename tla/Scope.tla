-------------------------------- MODULE Scope --------------------------------
(***************************************************************************)
(* Scope classification (src/dribik/scope.py): the pure functions every    *)
(* gate, crawler and probe consults before it sends anything.              *)
(*                                                                         *)
(* An asset is what a caller passes to classify(): a URL or a bare host.   *)
(*   host  what _host_of returns: the lower-cased host name as its labels  *)
(*         from the top-level domain down, so that the code's              *)
(*         host.endswith("." + value) is a prefix test on labels;          *)
(*   text  the lower-cased asset string itself, cut into tokens: for a URL *)
(*         its scheme, the labels of its host as written and the segments  *)
(*         of its path; for a bare host its labels alone.                  *)
(* A rule's value is compared with the host by two kinds of rule and with  *)
(* the text by the third.  A scope is a record of two sets of rules: their *)
(* order in the file decides nothing.                                      *)
(***************************************************************************)
EXTENDS SequencesExt

(* The string value ends with "." + value only when value is not empty.    *)
CoversHost(value, host) ==
  \/ host = value
  \/ value # <<>> /\ IsPrefix(value, host)

BareHost(host) == [host |-> host, text |-> Reverse(host)]

RuleMatches(rule, asset) ==
  \/ rule.kind = "host_exact" /\ asset.host = rule.value
  \/ rule.kind = "domain_suffix" /\ CoversHost(rule.value, asset.host)
  \/ rule.kind = "url_prefix" /\ IsPrefix(rule.value, asset.text)

AnyMatches(rules, asset) == \E r \in rules : RuleMatches(r, asset)

Classify(scope, asset) ==
  CASE AnyMatches(scope.deny, asset) -> "deny"
    [] ~AnyMatches(scope.deny, asset) /\ AnyMatches(scope.allow, asset) -> "allow"
    [] OTHER -> "unknown"

InScope(scope, asset) == Classify(scope, asset) = "allow"
=============================================================================
