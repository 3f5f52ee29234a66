-------------------------------- MODULE MCScan --------------------------------
(***************************************************************************)
(* Scans: the clock behind a time-based SQL injection probe, a quarter of  *)
(* a second being the unit; the loops of the injection scanners over three *)
(* rounds of parameters, one of them repeated, and two payloads; and the   *)
(* audit of tokens signed with a word of the file, a built-in one or       *)
(* neither.  The three share no state and are explored side by side: each  *)
(* moves while the others rest in one of their initial states.             *)
(***************************************************************************)
EXTENDS TimeOracle, Prober, JwtAudit

Place(context, name) == [context |-> context, name |-> name]
Form == <<Place("get", ""), Place("post", "")>>
Rich == <<Place("json", ""), Place("header", "X"), Place("cookie", "sid")>>
Repeated == <<Place("header", "X"), Place("header", "X")>>

MCParams == <<"id", "q", "id">>
MCPayloads == <<"quote", "sleep">>
MCTimed == {"sleep"}
MCSettings ==
  [scanner : {"xss", "sqli", "ssrf", "lfi", "redirect"}, places : {Form}]
  \union [scanner : {"sqli", "ssrf", "lfi"}, places : {Rich, Repeated}]
  \union [scanner : {"xss"}, places : {Repeated}]

Entry(kind, text) == [kind |-> kind, word |-> text]
MCFiles ==
  {<<>>, <<Entry("comment", "staging")>>,
   <<Entry("word", "changeme"), Entry("comment", "staging"), Entry("word", "changeme"), Entry("word", "secret")>>}
MCBuiltin == <<Entry("word", "secret"), Entry("word", ""), Entry("word", "secret")>>

(* Only text of an algorithm may be compared; a header that is no object   *)
(* has none.                                                               *)
MCTokens ==
  [decodes : {TRUE}, object : {TRUE}, alg : {"none", "hs256", "hs512", "missing", "no text"},
   kid : BOOLEAN, key : {"secret", "staging", "", "long"}]
  \union {[decodes |-> d, object |-> FALSE, alg |-> "missing", kid |-> FALSE, key |-> "long"] : d \in BOOLEAN}

OracleRests == stage = "probe" /\ attempt = 0 /\ interval = 0 /\ since = 0
LoopsRest == next = 0 /\ scan = [scanner |-> "xss", places |-> Form]
AuditRests == step = "decode" /\ ~token.decodes /\ file = <<>>

ScanInit ==
  /\ Init /\ ProberInit /\ TokenInit
  /\ \/ LoopsRest /\ AuditRests
     \/ OracleRests /\ AuditRests
     \/ OracleRests /\ LoopsRest
ScanNext ==
  \/ LoopsRest /\ AuditRests /\ Next /\ UNCHANGED <<loopVars, tokenVars>>
  \/ OracleRests /\ AuditRests /\ ProberNext /\ UNCHANGED <<vars, tokenVars>>
  \/ OracleRests /\ LoopsRest /\ TokenNext /\ UNCHANGED <<vars, loopVars>>

ScanSpec == ScanInit /\ [][ScanNext]_<<vars, loopVars, tokenVars>>
=============================================================================
