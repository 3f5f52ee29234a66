--------------------------------- MODULE Cvss ---------------------------------
(***************************************************************************)
(* The CVSS v3.1 base score of a finding (_compute_cvss_base in            *)
(* src/dribik/models.py), and the edits a finding's vector goes through    *)
(* from one import to the next.  A metric the vector does not hold, or     *)
(* with a value that is not known ("X"), counts as its default.            *)
(*                                                                         *)
(* The code computes with floating-point numbers, this module with six     *)
(* decimals cut off, all within 32 bits.  No score of the formula is so    *)
(* near to a tenth that the difference reaches the result.                 *)
(***************************************************************************)
EXTENDS Integers, SequencesExt

CONSTANT Values      \* metric -> its values that occur

VARIABLE vector      \* metric -> value

Metric == DOMAIN Values
Unit == 1000000

Changed(v) == v["S"] = "C"

(* The weights, in hundredths.                                             *)
AttackVector(v) == CASE v["AV"] = "A" -> 62 [] v["AV"] = "L" -> 55 [] v["AV"] = "P" -> 20 [] OTHER -> 85
Complexity(v) == IF v["AC"] = "H" THEN 44 ELSE 77
Privileges(v) ==
  CASE v["PR"] = "L" -> IF Changed(v) THEN 68 ELSE 62
    [] v["PR"] = "H" -> IF Changed(v) THEN 50 ELSE 27
    [] OTHER -> 85
Interaction(v) == IF v["UI"] = "R" THEN 62 ELSE 85
Loss(v, m) == CASE v[m] = "L" -> 22 [] v[m] = "H" -> 56 [] OTHER -> 0

(* The product of two numbers of at most one Unit, by digits of a thousand.*)
Times(p, q) ==
  (p \div 1000) * (q \div 1000)
    + ((p \div 1000) * (q % 1000) + (p % 1000) * (q \div 1000)) \div 1000

Power15(x) == FoldLeft(Times, Unit, [i \in 1..15 |-> x])

(* isc_base, then isc.                                                     *)
Combined(v) == Unit - (100 - Loss(v, "C")) * (100 - Loss(v, "I")) * (100 - Loss(v, "A"))
Impact(v) ==
  IF Changed(v)
  THEN (752 * (Combined(v) - 29000)) \div 100 - (325 * Power15(Combined(v) - 20000)) \div 100
  ELSE (642 * Combined(v)) \div 100

Exploitability(v) ==
  (822 * Times(AttackVector(v) * Complexity(v) * 100, Privileges(v) * Interaction(v) * 100)) \div 100

(* Up to the next tenth, and at most ten.                                  *)
Tenths(x) == IF x >= 10 * Unit THEN 100 ELSE (x + 99999) \div 100000

Total(v) == LET sum == Impact(v) + Exploitability(v) IN IF Changed(v) THEN (108 * sum) \div 100 ELSE sum

(* Slip: no score of its own for a vector without impact.                  *)
BaseScoreAnyway(v) == Tenths(Total(v))

BaseScore(v) == IF Combined(v) = 0 THEN 0 ELSE Tenths(Total(v))

Vectors ==
  [AV : Values["AV"], AC : Values["AC"], PR : Values["PR"], UI : Values["UI"],
   S : Values["S"], C : Values["C"], I : Values["I"], A : Values["A"]]

Init == vector \in Vectors
Edit == \E m \in Metric : \E x \in Values[m] : vector' = [vector EXCEPT ![m] = x]
Spec == Init /\ [][Edit]_vector
-----------------------------------------------------------------------------
(* The values of a metric from the harmless to the harmful; what is        *)
(* unknown ranks with its default.                                         *)
Order ==
  [AV |-> <<"P", "L", "A", "N">>, AC |-> <<"H", "L">>, PR |-> <<"H", "L", "N">>, UI |-> <<"R", "N">>,
   S |-> <<"U", "C">>, C |-> <<"N", "L", "H">>, I |-> <<"N", "L", "H">>, A |-> <<"N", "L", "H">>]
Default == [AV |-> "N", AC |-> "L", PR |-> "N", UI |-> "N", S |-> "U", C |-> "N", I |-> "N", A |-> "N"]
Rank(m, x) ==
  CHOOSE i \in DOMAIN Order[m] : Order[m][i] = (IF x \in Range(Order[m]) THEN x ELSE Default[m])

(* A vector that is as bad or worse in every metric never scores lower,    *)
(* over the rounding, the cap, the two formulas and the weights that       *)
(* depend on the scope.                                                    *)
WorseNeverLower ==
  [][vector' # vector /\ (\A m \in Metric : Rank(m, vector[m]) <= Rank(m, vector'[m]))
       => BaseScore(vector) <= BaseScore(vector')]_vector

=============================================================================
