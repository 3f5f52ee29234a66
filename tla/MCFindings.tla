----------------------------- MODULE MCFindings -----------------------------
(***************************************************************************)
(* Findings: their store and the reports, for three hosts of one domain,   *)
(* two of them with names cut to the same id, a scope that allows the      *)
(* domain, one that denies a host of it, one that allows a single host,    *)
(* and files with findings new, known and flagged; the score of one        *)
(* finding, with values on both sides of every clamp and class boundary;   *)
(* and its CVSS vector, with every value of every metric.  The three share *)
(* no state and are explored side by side: each moves while the others     *)
(* rest in an initial state.                                               *)
(***************************************************************************)
EXTENDS Findings, Scoring, TLC

VARIABLE vector

Name(label) == <<"test", "example", label>>
shop == Name("customer-portal-eu-shop")
staff == Name("customer-portal-eu-staff")
www == Name("www")
MCHost == {shop, staff, www}

(* A last dot shows in the id only of a name shorter than the cut.         *)
MCCutId ==
  [x \in MCHost \X Spelling |->
     IF x[1] # www THEN "TAKEOVER-CUSTOMER-PORTAL-EU-S"
     ELSE IF x[2] = "node" THEN "TAKEOVER-WWW-EXAMPLE-TEST" ELSE "TAKEOVER-WWW-EXAMPLE-TEST-"]

Suffix == [kind |-> "domain_suffix", value |-> <<"test", "example">>]
Exact(h) == [kind |-> "host_exact", value |-> h]
Whole == [allow |-> {Suffix}, deny |-> {}]
MCScopes == {Whole, [allow |-> {Suffix}, deny |-> {Exact(shop)}], [allow |-> {Exact(shop)}, deny |-> {}]}

MCFiles == {<<Finding("SCAN-1", www, "url", TRUE)>>,
            <<Finding("FILE-1", staff, "node", FALSE), Finding("FILE-1", shop, "url", TRUE)>>,
            <<>>}

MCAges == {-365, -1, 0, 1, 200, 364, 365, 400}
MCAgreements == {-10, 0, 1, 90, 100, 120}
MCBaseScores == {0, 39, 40, 69, 70, 89, 90, 100}

Impact == {"N", "L", "H"}
Vector == INSTANCE Cvss WITH
  Values <- [AV |-> {"P", "L", "A", "N", "X"}, AC |-> {"H", "L"}, PR |-> {"H", "L", "N", "X"},
             UI |-> {"R", "N"}, S |-> {"U", "C"}, C |-> Impact, I |-> Impact, A |-> Impact]

StoreRests == findings = <<>> /\ nodes = {} /\ scope = Whole /\ drawn = {} /\ report = NoReport
ScoreRests == age = 0 /\ agreement = 0 /\ validated = FALSE /\ base = 0

VectorRests == vector = Vector!Default

FindingsInit ==
  /\ Init /\ ScoringInit /\ Vector!Init
  /\ (StoreRests /\ ScoreRests) \/ (VectorRests /\ (StoreRests \/ ScoreRests))
FindingsNext ==
  \/ VectorRests /\ ScoreRests /\ Next /\ UNCHANGED <<scoringVars, vector>>
  \/ VectorRests /\ StoreRests /\ Edit /\ UNCHANGED <<vars, vector>>
  \/ StoreRests /\ ScoreRests /\ Vector!Edit /\ UNCHANGED <<vars, scoringVars>>

FindingsSpec == FindingsInit /\ [][FindingsNext]_<<vars, scoringVars, vector>>
-----------------------------------------------------------------------------
(* A vector that is worse in every metric never scores lower.              *)
WorseNeverLower == Vector!WorseNeverLower

=============================================================================
