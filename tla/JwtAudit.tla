------------------------------- MODULE JwtAudit -------------------------------
(***************************************************************************)
(* The audit of one JSON web token (src/dribik/vulns/jwt_audit.py) against *)
(* a list of words, which load_payloads (vulns/_common.py) reads from a    *)
(* file the user may edit, or takes from the code if the file is missing   *)
(* or holds no word.  A missing file is a file without lines here.         *)
(*                                                                         *)
(* A token is what the audit can tell apart of it: whether it decodes; its *)
(* header, which may be JSON but no object; the algorithm the header       *)
(* names, folded to lower case, or something that is no text; whether it   *)
(* has a kid; and the key it was signed with under HS256.                  *)
(***************************************************************************)
EXTENDS Naturals, Sequences

CONSTANTS
  Tokens,          \* [decodes, object, alg, kid, key]
  Files,           \* what jwt_secrets.txt may hold: sequences of lines [kind, word]
  Builtin          \* _BUILTIN_SECRETS, as such lines

Line == [kind : {"word", "comment", "blank"}, word : STRING]
ASSUME WordsAssumption == Files \subseteq Seq(Line) /\ Builtin \in Seq(Line)

VARIABLES
  token,           \* one of Tokens
  file,            \* one of Files
  tried,           \* words that were tried in vain
  found,           \* the findings, in order: [kind, word]
  step             \* "decode", "words", "kid", "done" or "raised"

tokenVars == <<token, file, tried, found, step>>

Finding(kind, word) == [kind |-> kind, word |-> word]

(* Blank lines and comments are left out, and dict.fromkeys keeps every    *)
(* other line at its first place only.                                     *)
WordsIn(words) == {words[i] : i \in DOMAIN words}
Take(words, line) ==
  IF line.kind # "word" \/ line.word \in WordsIn(words) THEN words ELSE Append(words, line.word)

Once(lines) ==
  LET once[n \in 0..Len(lines)] == IF n = 0 THEN <<>> ELSE Take(once[n - 1], lines[n])
  IN  once[Len(lines)]

(* Slip: comments are words like any other line.                           *)
LoadAllLines ==
  IF file = <<>> THEN Once(Builtin)
  ELSE Once([i \in DOMAIN file |-> [kind |-> "word", word |-> file[i].word]])

LoadPayloads == IF Once(file) = <<>> THEN Once(Builtin) ELSE Once(file)

TokenInit ==
  /\ token \in Tokens /\ file \in Files
  /\ tried = 0 /\ found = <<>> /\ step = "decode"

(* Not three parts, or header or payload are no JSON: no findings.         *)
Decline ==
  /\ step = "decode" /\ ~token.decodes
  /\ step' = "done"
  /\ UNCHANGED <<token, file, tried, found>>

(* header.get or .lower is missing: AttributeError, and no findings.       *)
Raise ==
  /\ step = "decode" /\ token.decodes /\ (~token.object \/ token.alg = "no text")
  /\ step' = "raised"
  /\ UNCHANGED <<token, file, tried, found>>

(* Any algorithm but none is flagged, a missing one too.                   *)
FlagAlg ==
  /\ step = "decode" /\ token.decodes /\ token.object /\ token.alg # "no text"
  /\ found' = IF token.alg = "none" THEN found ELSE Append(found, Finding("alg", "-"))
  /\ step' = IF token.alg = "hs256" THEN "words" ELSE "kid"
  /\ UNCHANGED <<token, file, tried>>

TryWord ==
  /\ step = "words" /\ tried < Len(LoadPayloads) /\ LoadPayloads[tried + 1] # token.key
  /\ tried' = tried + 1
  /\ UNCHANGED <<token, file, found, step>>

(* _verify_hs256: the first word that signs alike ends the search.         *)
FindWord ==
  /\ step = "words" /\ tried < Len(LoadPayloads) /\ LoadPayloads[tried + 1] = token.key
  /\ found' = Append(found, Finding("secret", LoadPayloads[tried + 1]))
  /\ step' = "kid"
  /\ UNCHANGED <<token, file, tried>>

EndOfWords ==
  /\ step = "words" /\ tried = Len(LoadPayloads)
  /\ step' = "kid"
  /\ UNCHANGED <<token, file, tried, found>>

FlagKid ==
  /\ step = "kid"
  /\ found' = IF token.kid THEN Append(found, Finding("kid", "-")) ELSE found
  /\ step' = "done"
  /\ UNCHANGED <<token, file, tried>>

TokenNext == Decline \/ Raise \/ FlagAlg \/ TryWord \/ FindWord \/ EndOfWords \/ FlagKid
TokenSpec == TokenInit /\ [][TokenNext]_tokenVars
-----------------------------------------------------------------------------
WordsOf(lines) == {lines[i].word : i \in {j \in DOMAIN lines : lines[j].kind = "word"}}
Candidates == IF WordsOf(file) = {} THEN WordsOf(Builtin) ELSE WordsOf(file)

(* A key that stands in the file the user keeps, or among the built-in     *)
(* ones when the file has none, is reported once and by its name; a token  *)
(* under another algorithm or another key reports none; and no finding is  *)
(* made twice.                                                             *)
SecretReported ==
  step = "done" =>
    /\ {f \in {found[i] : i \in DOMAIN found} : f.kind = "secret"} =
         IF token.decodes /\ token.alg = "hs256" /\ token.key \in Candidates
         THEN {Finding("secret", token.key)} ELSE {}
    /\ \A i, j \in DOMAIN found : found[i] = found[j] => i = j

=============================================================================
