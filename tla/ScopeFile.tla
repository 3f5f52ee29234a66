------------------------------- MODULE ScopeFile -------------------------------
(***************************************************************************)
(* The text of scope.yaml (Workspace.save_scope and load_scope of          *)
(* src/dribik/workspace.py).  Saving truncates the file and writes the     *)
(* text in pieces; a full disk or a dying process leaves any part of it,   *)
(* and a command may load the file at any moment.  A part of a YAML text   *)
(* may well be YAML.                                                       *)
(*                                                                         *)
(* The text is a sequence of lines <<sort, word>>: the program's name, the *)
(* keys allow and deny, each heading a list or holding an empty one, and   *)
(* two lines for each rule, its kind and its value.  A line cut short is a *)
(* shorter name, a shorter value ("cut"), or nothing the models accept     *)
(* ("broken").  Saves by two commands at a time are module Workspace's.    *)
(***************************************************************************)
EXTENDS Naturals, Sequences

CONSTANTS
  RuleKind, RuleValue,
  MaxRules,        \* bound on the rules of a list
  MaxSaves         \* bound on the saves

ASSUME RulesAssumption == MaxRules \in Nat /\ MaxSaves \in Nat

Rule == RuleKind \X RuleValue
RuleList == UNION {[1..n -> Rule] : n \in 0..MaxRules}
ScopeValue == [allow : RuleList, deny : RuleList]

VARIABLES
  text,            \* the lines in the file
  scope,           \* what is being saved, or was last
  pos,             \* lines of it written
  writing,
  complete,        \* whether that save ended well
  saves

scopeVars == <<text, scope, pos, writing, complete, saves>>

Broken == <<"broken", "line">>
RuleLine(rules, j) ==
  IF j % 2 = 1 THEN <<"kind", rules[(j + 1) \div 2][1]>> ELSE <<"value", rules[j \div 2][2]>>
Heading(key, rules) == <<IF rules = <<>> THEN "empty" ELSE "list", key>>
ListLines(key, rules) ==
  [j \in 1..(2 * Len(rules) + 1) |-> IF j = 1 THEN Heading(key, rules) ELSE RuleLine(rules, j - 1)]

(* yaml.safe_dump of the model, its fields in their order.                 *)
Dump(s) == << <<"scalar", "program">> >> \o ListLines("allow", s.allow) \o ListLines("deny", s.deny)

(* What a line may be while it is only partly there.                       *)
CutLine(line) ==
  {Broken} \union (IF line[1] = "scalar" THEN {line} ELSE {})
           \union (IF line[1] = "value" THEN {<<"cut", line[2]>>} ELSE {})

(* What may stand behind the first k lines of a text in the making.        *)
Parts(dump, k) ==
  {<<>>} \union IF k < Len(dump) THEN {<<c>> : c \in CutLine(dump[k + 1])} ELSE {}

NoRules == [allow |-> <<>>, deny |-> <<>>]

ScopeInit ==
  /\ text = Dump(NoRules) /\ scope = NoRules
  /\ pos = Len(text) /\ writing = FALSE /\ complete = TRUE /\ saves = 0

(* Slip: the file is opened for writing without being truncated.           *)
OpenKeeping(s) ==
  /\ ~writing /\ saves < MaxSaves
  /\ scope' = s /\ pos' = 0 /\ writing' = TRUE /\ complete' = FALSE /\ saves' = saves + 1
  /\ UNCHANGED text

OpenScope(s) ==
  /\ ~writing /\ saves < MaxSaves
  /\ text' = <<>>
  /\ scope' = s /\ pos' = 0 /\ writing' = TRUE /\ complete' = FALSE /\ saves' = saves + 1

(* The file up to line k, and maybe a part of the line after it.           *)
WriteScope ==
  /\ writing
  /\ \E k \in pos..Len(Dump(scope)) : \E part \in Parts(Dump(scope), k) :
       /\ k > pos \/ part # <<>>
       /\ text' = SubSeq(Dump(scope), 1, k) \o part \o SubSeq(text, k + Len(part) + 1, Len(text))
       /\ pos' = k
  /\ UNCHANGED <<scope, writing, complete, saves>>

CloseScope ==
  /\ writing /\ pos = Len(Dump(scope))
  /\ writing' = FALSE /\ complete' = TRUE
  /\ UNCHANGED <<text, scope, pos, saves>>

(* OSError, or the process dies.                                           *)
StopScope ==
  /\ writing
  /\ writing' = FALSE
  /\ UNCHANGED <<text, scope, pos, complete, saves>>

ScopeNext == (\E s \in ScopeValue : OpenScope(s)) \/ WriteScope \/ CloseScope \/ StopScope

ScopeSpec == ScopeInit /\ [][ScopeNext]_scopeVars
-----------------------------------------------------------------------------
(* load_scope: yaml.safe_load, then Scope.model_validate.  What is known   *)
(* of a text line by line: whether it reads so far; the list that items go *)
(* to; how far the last item is there, and its kind; for each key how it   *)
(* was given, the last time if it occurs again, and its rules, each with   *)
(* the sort of the line its value stood in.                                *)
Key == {"allow", "deny"}
Nothing ==
  [reads |-> TRUE, key |-> "none", item |-> "none", kind |-> "none",
   form |-> [k \in Key |-> "missing"], rules |-> [k \in Key |-> <<>>]]

(* An item needs a list to be in, and a value; a value needs an item.      *)
Fits(p, line) ==
  \/ line[1] \in {"scalar", "list", "empty"} /\ p.item # "kind"
  \/ line[1] = "kind" /\ p.item # "kind" /\ p.key # "none"
  \/ line[1] \in {"value", "cut"} /\ p.item # "none"

(* A value that is given again replaces the one before.                    *)
ReadValue(p, line) ==
  LET rules == p.rules[p.key]
      rule == <<p.kind, line[2], line[1]>>
  IN  [p EXCEPT !.item = "whole",
                !.rules[p.key] = IF p.item = "kind" THEN Append(rules, rule)
                                 ELSE [rules EXCEPT ![Len(rules)] = rule]]

Read(p, line) ==
  CASE ~Fits(p, line) -> [p EXCEPT !.reads = FALSE]
    [] Fits(p, line) /\ line[1] = "scalar" -> [p EXCEPT !.key = "none", !.item = "none"]
    [] Fits(p, line) /\ line[1] \in {"list", "empty"} ->
         [p EXCEPT !.key = IF line[1] = "list" THEN line[2] ELSE "none", !.item = "none",
                   !.form[line[2]] = line[1], !.rules[line[2]] = <<>>]
    [] Fits(p, line) /\ line[1] = "kind" -> [p EXCEPT !.item = "kind", !.kind = line[2]]
    [] OTHER -> ReadValue(p, line)

Parse(t) ==
  LET parse[n \in 0..Len(t)] == IF n = 0 THEN Nothing ELSE Read(parse[n - 1], t[n])
  IN  parse[Len(t)]

(* A key that heads a list without items holds nothing, which is no list.  *)
Loads(t) ==
  /\ t # <<>> /\ Parse(t).reads /\ Parse(t).item # "kind"
  /\ \A k \in Key : Parse(t).form[k] = "list" => Parse(t).rules[k] # <<>>

RulesIn(t, key) == Parse(t).rules[key]
-----------------------------------------------------------------------------
(* The first n rules, all whole or the last one cut short.                 *)
Saved(rules, n) == [i \in 1..n |-> <<rules[i][1], rules[i][2], "value">>]
SavedCut(rules, n) ==
  [i \in 1..n |-> <<rules[i][1], rules[i][2], IF i = n THEN "cut" ELSE "value">>]
All(rules) == Saved(rules, Len(rules))
FirstOf(rules) == UNION {{Saved(rules, n), SavedCut(rules, n)} : n \in 0..Len(rules)}

(* Whatever moment a scope is loaded at, and wherever a save was cut off:  *)
(* if it loads, its rules are the first ones of the latest save, deny      *)
(* rules only if the allow rules are all there, and at most the last value *)
(* is cut short; never rules of an older save.  It loads, and is exactly   *)
(* what was saved, once that save has ended well.                          *)
LoadsFirstRules ==
  /\ Loads(text) =>
       /\ RulesIn(text, "allow") \in FirstOf(scope.allow)
       /\ RulesIn(text, "deny") \in FirstOf(scope.deny)
       /\ RulesIn(text, "deny") # <<>> => RulesIn(text, "allow") = All(scope.allow)
  /\ complete =>
       /\ Loads(text)
       /\ RulesIn(text, "allow") = All(scope.allow) /\ RulesIn(text, "deny") = All(scope.deny)

=============================================================================
