-------------------------------- MODULE Scoring --------------------------------
(***************************************************************************)
(* The confidence of a finding (src/dribik/scoring.py), in ten-thousandths:*)
(* a weighted sum of how fresh the template is, how well the responses     *)
(* agree, whether the operator validated the finding, and its CVSS score.  *)
(* A finding changes when it is imported anew; it is scored by the import, *)
(* by findings score and for every report.  Import takes any numbers: an   *)
(* agreement beyond 0..100 percent and a negative age are not refused.     *)
(***************************************************************************)
EXTENDS Integers

CONSTANTS
  Ages,          \* template_age_days
  Agreements,    \* response_diff_agreement, in percent
  BaseScores     \* CVSS base scores, in tenths

ASSUME EvidenceAssumption ==
  Ages \subseteq Int /\ Agreements \subseteq Int /\ BaseScores \subseteq 0..100

VARIABLES age, agreement, validated, base

scoringVars == <<age, agreement, validated, base>>

AtMost(x, bound) == IF x > bound THEN bound ELSE x
AtLeast(x, bound) == IF x < bound THEN bound ELSE x

(* Slip: the classes of the score leave gaps at their upper ends.          *)
CvssWeightGaps(score) ==
  CASE score \in 0..39 -> 1 [] score \in 41..69 -> 3 [] score \in 71..89 -> 5 [] score \in 90..100 -> 7
    [] OTHER -> 1

(* Tenths of the full weight for the four classes of CVSS scores.          *)
CvssWeight(score) ==
  CASE score \in 0..39 -> 1 [] score \in 40..69 -> 3 [] score \in 70..89 -> 5 [] score \in 90..100 -> 7
    [] OTHER -> 1

(* Days of a year the template is still fresh.                             *)
Freshness(days) == AtLeast(365 - days, 0)
Agreement(percent) == AtMost(AtLeast(percent, 0), 100)

(* Round to four places a value in 3 650 000ths.                           *)
Rounded(value) == (value + 182) \div 365
Clamped(value) == AtMost(AtLeast(value, 0), 3650000)

(* 35 percent freshness, 25 agreement, 20 validation, 20 CVSS.             *)
Score(days, percent, valid, cvss) ==
  Rounded(Clamped(3500 * Freshness(days) + 9125 * Agreement(percent)
            + (IF valid THEN 730000 ELSE 0) + 73000 * CvssWeight(cvss)))

Confidence == Score(age, agreement, validated, base)

ScoringInit ==
  /\ age \in Ages /\ agreement \in Agreements /\ validated \in BOOLEAN /\ base \in BaseScores

Edit ==
  /\ age' \in Ages /\ agreement' \in Agreements /\ validated' \in BOOLEAN /\ base' \in BaseScores

ScoringSpec == ScoringInit /\ [][Edit]_scoringVars
-----------------------------------------------------------------------------
(* The score follows the evidence: an edit that makes the template no      *)
(* older and the agreement, the validation and the CVSS score no less      *)
(* never lowers the confidence, across all clamps and class boundaries.    *)
EvidenceRaises ==
  [][age' <= age /\ agreement' >= agreement /\ (validated => validated') /\ base' >= base
       => Confidence' >= Confidence]_scoringVars

=============================================================================
