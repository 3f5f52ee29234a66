---------------------------- MODULE FindingsProofs ----------------------------
(***************************************************************************)
(* Proofs about the findings: their store, for files of any length and any *)
(* number of findings (module Findings), and their score, for any ages,    *)
(* agreements and CVSS scores (module Scoring).                            *)
(***************************************************************************)
EXTENDS Findings, Scoring, WellFoundedInduction, TLAPS

(* Induction over the natural numbers, stated with a set.                  *)
LEMMA Induct ==
  ASSUME NEW S, 0 \in S, \A n \in Nat : n \in S => n + 1 \in S
  PROVE  Nat \subseteq S
<1> DEFINE T == Nat \ S
           R == OpToRel(<, Nat)
<1> SUFFICES ASSUME T # {} PROVE FALSE
  OBVIOUS
<1>1. R = {ss \in Nat \X Nat : ss[1] < ss[2]}
  BY DEF OpToRel
<1>2. IsWellFoundedOn(R, Nat)
  BY NatLessThanWellFounded, Zenon
<1> HIDE DEF R
<1>3. PICK x \in T : \A y \in T : <<y, x>> \notin R
  <2> HIDE DEF T
  <2>1. T \subseteq Nat
    BY DEF T
  <2> QED BY <1>2, <2>1, WFMin
<1>4. x \in Nat \ {0} /\ x - 1 \in Nat /\ (x - 1) + 1 = x
  OBVIOUS
<1>5. x - 1 \notin T
  <2>1. x - 1 < x
    BY <1>4
  <2> QED BY <1>1, <1>3, <1>4, <2>1
<1> QED BY <1>4, <1>5
-----------------------------------------------------------------------------
Distinct(seq) == \A i, j \in DOMAIN seq : seq[i].id = seq[j].id => i = j
HasId(seq, id) == \E g \in Set(seq) : g.id = id

(* What putting one finding on the dictionary does: no two findings of it  *)
(* share an id, no id goes, the finding put there has its id in it.        *)
LEMMA PutFacts ==
  ASSUME NEW seq \in Seq(FindingType), NEW f \in FindingType
  PROVE  /\ Put(seq, f) \in Seq(FindingType)
         /\ Distinct(seq) => Distinct(Put(seq, f))
         /\ \A id : HasId(seq, id) => HasId(Put(seq, f), id)
         /\ HasId(Put(seq, f), f.id)
<1>1. CASE \E g \in Set(seq) : g.id = f.id
  <2> DEFINE new == [i \in DOMAIN seq |-> IF seq[i].id = f.id THEN f ELSE seq[i]]
  <2>1. Put(seq, f) = new
    BY <1>1 DEF Put
  <2>2. new \in Seq(FindingType) /\ DOMAIN new = DOMAIN seq
    OBVIOUS
  <2>3. \A i \in DOMAIN seq : new[i].id = seq[i].id
    OBVIOUS
  <2> HIDE DEF new
  <2>4. Distinct(seq) => Distinct(new)
    BY <2>2, <2>3 DEF Distinct
  <2>5. \A id : HasId(seq, id) => HasId(new, id)
    BY <2>2, <2>3 DEF HasId, Set
  <2>6. HasId(seq, f.id)
    BY <1>1 DEF HasId
  <2> QED BY <2>1, <2>2, <2>4, <2>5, <2>6
<1>2. CASE ~\E g \in Set(seq) : g.id = f.id
  <2> DEFINE n == Len(seq)
             new == Append(seq, f)
  <2>1. Put(seq, f) = new
    BY <1>2 DEF Put
  <2>2. /\ new \in Seq(FindingType) /\ n \in Nat /\ DOMAIN seq = 1..n /\ DOMAIN new = 1..(n + 1)
        /\ new[n + 1] = f /\ \A i \in 1..n : new[i] = seq[i]
    OBVIOUS
  <2>3. \A i \in 1..n : seq[i].id # f.id
    BY <1>2, <2>2 DEF Set
  <2> HIDE DEF new
  <2>4. Distinct(seq) => Distinct(new)
    BY <2>2, <2>3 DEF Distinct
  <2>5. \A id : HasId(seq, id) => HasId(new, id)
    BY <2>2 DEF HasId, Set
  <2>6. HasId(new, f.id)
    <3>1. n + 1 \in DOMAIN new
      BY <2>2
    <3> QED BY <2>2, <3>1 DEF HasId, Set
  <2> QED BY <2>1, <2>2, <2>4, <2>5, <2>6
<1> QED BY <1>1, <1>2

(* PutAll is what the recursion says: there is a function put that starts  *)
(* with seq and puts one finding of the file after the other.              *)
LEMMA PutAllEquation ==
  ASSUME NEW seq, NEW file \in Seq(FindingType)
  PROVE  \E put : /\ put[0] = seq
                  /\ \A n \in 1..Len(file) : put[n] = Put(put[n - 1], file[n])
                  /\ PutAll(seq, file) = put[Len(file)]
<1> DEFINE N == Len(file)
           IsPut(put, n) == put = [i \in 0..n |-> IF i = 0 THEN seq ELSE Put(put[i - 1], file[i])]
           Good == {n \in Nat : \E put : IsPut(put, n)}
<1>1. N \in Nat
  OBVIOUS
<1>2. 0 \in Good
  <2>1. IsPut([i \in 0..0 |-> seq], 0)
    OBVIOUS
  <2> QED BY <2>1
<1>3. ASSUME NEW n \in Nat, n \in Good PROVE n + 1 \in Good
  <2>1. PICK put : IsPut(put, n)
    BY <1>3
  <2> DEFINE next == [i \in 0..(n + 1) |-> IF i = n + 1 THEN Put(put[n], file[n + 1]) ELSE put[i]]
  <2>2. \A i \in 0..n : next[i] = put[i]
    OBVIOUS
  <2>3. \A i \in 0..(n + 1) : next[i] = IF i = 0 THEN seq ELSE Put(next[i - 1], file[i])
    <3> SUFFICES ASSUME NEW i \in 0..(n + 1)
                 PROVE  next[i] = IF i = 0 THEN seq ELSE Put(next[i - 1], file[i])
      OBVIOUS
    <3>1. CASE i = n + 1
      <4>1. next[i] = Put(put[n], file[n + 1]) /\ next[i - 1] = put[n]
        BY <3>1
      <4> QED BY <3>1, <4>1
    <3>2. CASE i # n + 1
      <4>1. i \in 0..n /\ next[i] = put[i]
        BY <3>2
      <4>2. put[i] = IF i = 0 THEN seq ELSE Put(put[i - 1], file[i])
        BY <2>1, <4>1
      <4>3. i # 0 => next[i - 1] = put[i - 1]
        BY <3>2
      <4> QED BY <4>1, <4>2, <4>3
    <3> QED BY <3>1, <3>2
  <2>4. IsPut(next, n + 1)
    <3>1. next = [i \in 0..(n + 1) |-> next[i]]
      OBVIOUS
    <3> HIDE DEF next
    <3> QED BY <2>3, <3>1
  <2> HIDE DEF IsPut, next
  <2> QED BY <2>4
<1>4. N \in Good
  <2> HIDE DEF Good, IsPut
  <2> QED BY <1>1, <1>2, <1>3, Induct
<1> DEFINE IsWhole(put) == IsPut(put, N)
           put0 == CHOOSE put : IsWhole(put)
<1>5. IsWhole(put0)
  <2>1. \E put : IsWhole(put)
    BY <1>4
  <2> HIDE DEF IsWhole
  <2> QED BY <2>1
<1>6. PutAll(seq, file) = put0[N]
  BY DEF PutAll
<1> HIDE DEF put0
<1>7. put0[0] = seq
  BY <1>1, <1>5
<1>8. \A n \in 1..N : put0[n] = Put(put0[n - 1], file[n])
  <2> SUFFICES ASSUME NEW n \in 1..N PROVE put0[n] = Put(put0[n - 1], file[n])
    OBVIOUS
  <2>1. n \in 0..N /\ n # 0
    BY <1>1
  <2> QED BY <1>5, <2>1
<1> QED BY <1>6, <1>7, <1>8

(* What putting a whole file on the dictionary does.                       *)
LEMMA PutAllFacts ==
  ASSUME NEW seq \in Seq(FindingType), NEW file \in Seq(FindingType)
  PROVE  /\ PutAll(seq, file) \in Seq(FindingType)
         /\ Distinct(seq) => Distinct(PutAll(seq, file))
         /\ \A id : HasId(seq, id) \/ HasId(file, id) => HasId(PutAll(seq, file), id)
<1> DEFINE N == Len(file)
<1>1. PICK put : /\ put[0] = seq
                 /\ \A n \in 1..N : put[n] = Put(put[n - 1], file[n])
                 /\ PutAll(seq, file) = put[N]
  BY PutAllEquation
<1> DEFINE Fine(n) == /\ put[n] \in Seq(FindingType)
                      /\ Distinct(seq) => Distinct(put[n])
                      /\ \A id : HasId(seq, id) => HasId(put[n], id)
                      /\ \A i \in 1..n : HasId(put[n], file[i].id)
           Good == {n \in Nat : n <= N => Fine(n)}
<1>2. 0 \in Good
  BY <1>1
<1>3. ASSUME NEW n \in Nat, n \in Good PROVE n + 1 \in Good
  <2> SUFFICES ASSUME n + 1 <= N PROVE Fine(n + 1)
    OBVIOUS
  <2>1. Fine(n) /\ n + 1 \in 1..N /\ file[n + 1] \in FindingType
    BY <1>3
  <2>2. put[n + 1] = Put(put[n], file[n + 1])
    BY <1>1, <2>1
  <2>3. /\ put[n + 1] \in Seq(FindingType)
        /\ Distinct(put[n]) => Distinct(put[n + 1])
        /\ \A id : HasId(put[n], id) => HasId(put[n + 1], id)
        /\ HasId(put[n + 1], file[n + 1].id)
    BY <2>1, <2>2, PutFacts
  <2>4. \A i \in 1..(n + 1) : HasId(put[n + 1], file[i].id)
    <3> SUFFICES ASSUME NEW i \in 1..(n + 1) PROVE HasId(put[n + 1], file[i].id)
      OBVIOUS
    <3>1. i = n + 1 \/ i \in 1..n
      OBVIOUS
    <3> QED BY <2>1, <2>3, <3>1
  <2> QED BY <2>1, <2>3, <2>4
<1>4. Fine(N)
  <2>1. N \in Nat
    OBVIOUS
  <2>2. N \in Good
    <3> HIDE DEF Good
    <3> QED BY <1>2, <1>3, <2>1, Induct
  <2> QED BY <2>2
<1>5. \A id : HasId(file, id) => \E i \in 1..N : file[i].id = id
  BY DEF HasId, Set
<1> QED BY <1>1, <1>4, <1>5

(* An import leaves no id twice, and loses none.                           *)
LEMMA MergedFacts ==
  ASSUME NEW stored \in Seq(FindingType), NEW file \in Seq(FindingType)
  PROVE  /\ Merged(stored, file) \in Seq(FindingType) /\ Distinct(Merged(stored, file))
         /\ \A id : HasId(stored, id) => HasId(Merged(stored, file), id)
<1>1. <<>> \in Seq(FindingType) /\ Distinct(<<>>)
  BY DEF Distinct
<1> DEFINE once == PutAll(<<>>, stored)
<1>2. once \in Seq(FindingType) /\ Distinct(once) /\ \A id : HasId(stored, id) => HasId(once, id)
  BY <1>1, PutAllFacts
<1> HIDE DEF once
<1>3. /\ PutAll(once, file) \in Seq(FindingType) /\ Distinct(PutAll(once, file))
      /\ \A id : HasId(once, id) => HasId(PutAll(once, file), id)
  BY <1>2, PutAllFacts
<1> QED BY <1>2, <1>3 DEF Merged, once

(* A finding appended at the end: all others stay.                         *)
LEMMA AppendFacts ==
  ASSUME NEW seq \in Seq(FindingType), NEW f \in FindingType
  PROVE  /\ Append(seq, f) \in Seq(FindingType)
         /\ DOMAIN Append(seq, f) = 1..(Len(seq) + 1) /\ DOMAIN seq = 1..Len(seq) /\ Len(seq) \in Nat
         /\ Append(seq, f)[Len(seq) + 1] = f
         /\ \A i \in DOMAIN seq : Append(seq, f)[i] = seq[i]
         /\ \A id : HasId(seq, id) => HasId(Append(seq, f), id)
<1> DEFINE new == Append(seq, f)
<1>1. /\ new \in Seq(FindingType) /\ Len(seq) \in Nat /\ DOMAIN seq = 1..Len(seq)
      /\ DOMAIN new = 1..(Len(seq) + 1) /\ new[Len(seq) + 1] = f
      /\ \A i \in DOMAIN seq : new[i] = seq[i]
  OBVIOUS
<1> HIDE DEF new
<1>2. \A id : HasId(seq, id) => HasId(new, id)
  BY <1>1 DEF HasId, Set
<1> QED BY <1>1, <1>2 DEF new

StoreInv == findings \in Seq(FindingType) /\ IdsShared

(* Every step keeps the store, and every id in it.                         *)
LEMMA StoreStep ==
  ASSUME StoreInv, [Next]_vars
  PROVE  StoreInv' /\ \A id : HasId(findings, id) => HasId(findings', id)
<1>1. CASE UNCHANGED findings
  BY <1>1 DEF StoreInv, IdsShared
<1>2. ASSUME NEW h \in Host, NEW id \in Fresh, SaveScan(h, id)
      PROVE  StoreInv' /\ \A any : HasId(findings, any) => HasId(findings', any)
  <2> DEFINE f == Finding(id, h, "url", FALSE)
  <2>1. CASE \E g \in Set(findings) : g.id = id
    BY <1>1, <1>2, <2>1 DEF SaveScan
  <2>2. CASE ~\E g \in Set(findings) : g.id = id
    <3>1. f \in FindingType /\ f.id = id
      BY IdAssumption DEF Finding, FindingType
    <3>2. findings' = Append(findings, f)
      BY <1>2, <2>2 DEF SaveScan
    <3>3. \A i \in DOMAIN findings : findings[i].id # id
      BY <2>2 DEF Set
    <3> HIDE DEF f
    <3>4. /\ findings' \in Seq(FindingType) /\ DOMAIN findings' = 1..(Len(findings) + 1)
          /\ DOMAIN findings = 1..Len(findings) /\ Len(findings) \in Nat
          /\ findings'[Len(findings) + 1] = f /\ \A i \in DOMAIN findings : findings'[i] = findings[i]
          /\ \A any : HasId(findings, any) => HasId(findings', any)
      BY <3>1, <3>2, AppendFacts DEF StoreInv
    <3>5. IdsShared'
      <4> SUFFICES ASSUME NEW i \in DOMAIN findings', NEW j \in DOMAIN findings', i < j,
                          findings'[i].id = findings'[j].id
                   PROVE  \E host \in Host, spelling \in Spelling : findings'[j] = Takeover(host, spelling)
        BY DEF IdsShared
      <4>1. i \in DOMAIN findings /\ j \in DOMAIN findings
        <5>1. \A k \in DOMAIN findings' : k \in DOMAIN findings \/ k = Len(findings) + 1
          BY <3>4
        <5>2. i # j
          BY <3>4
        <5> QED BY <3>1, <3>3, <3>4, <5>1, <5>2
      <4> QED BY <3>4, <4>1 DEF StoreInv, IdsShared
    <3> QED BY <3>4, <3>5 DEF StoreInv
  <2> QED BY <2>1, <2>2
<1>3. ASSUME NEW h \in Host, NEW spelling \in Spelling, SaveTakeover(h, spelling)
      PROVE  StoreInv' /\ \A any : HasId(findings, any) => HasId(findings', any)
  <2> DEFINE f == Takeover(h, spelling)
  <2>1. f \in FindingType
    BY IdAssumption DEF Takeover, Finding, FindingType
  <2>2. findings' = Append(findings, f)
    BY <1>3 DEF SaveTakeover
  <2>3. \E host \in Host, any \in Spelling : f = Takeover(host, any)
    OBVIOUS
  <2> HIDE DEF f
  <2>4. /\ findings' \in Seq(FindingType) /\ DOMAIN findings' = 1..(Len(findings) + 1)
        /\ DOMAIN findings = 1..Len(findings) /\ Len(findings) \in Nat
        /\ findings'[Len(findings) + 1] = f /\ \A i \in DOMAIN findings : findings'[i] = findings[i]
        /\ \A any : HasId(findings, any) => HasId(findings', any)
    BY <2>1, <2>2, AppendFacts DEF StoreInv
  <2>5. IdsShared'
    <3> SUFFICES ASSUME NEW i \in DOMAIN findings', NEW j \in DOMAIN findings', i < j,
                        findings'[i].id = findings'[j].id
                 PROVE  \E host \in Host, any \in Spelling : findings'[j] = Takeover(host, any)
      BY DEF IdsShared
    <3>1. CASE j \in DOMAIN findings
      <4>1. i \in DOMAIN findings
        BY <2>4, <3>1
      <4> QED BY <2>4, <3>1, <4>1 DEF StoreInv, IdsShared
    <3>2. CASE j = Len(findings) + 1
      BY <2>3, <2>4, <3>2
    <3> QED BY <2>4, <3>1, <3>2
  <2> QED BY <2>4, <2>5 DEF StoreInv
<1>4. ASSUME NEW file \in Files, ImportFile(file)
      PROVE  StoreInv' /\ \A any : HasId(findings, any) => HasId(findings', any)
  <2>1. findings' = Merged(findings, file) /\ file \in Seq(FindingType)
    BY <1>4, FilesAssumption DEF ImportFile
  <2>2. /\ findings' \in Seq(FindingType) /\ Distinct(findings')
        /\ \A any : HasId(findings, any) => HasId(findings', any)
    BY <2>1, MergedFacts DEF StoreInv
  <2>3. \A i, j \in DOMAIN findings' : i < j => i # j
    <3>1. DOMAIN findings' = 1..Len(findings') /\ Len(findings') \in Nat
      BY <2>2
    <3> QED BY <3>1
  <2> QED BY <2>2, <2>3 DEF StoreInv, IdsShared, Distinct
<1>5. CASE UNCHANGED vars
  BY <1>1, <1>5 DEF vars
<1>6. CASE \/ WriteMarkdown \/ WriteHtml \/ WriteSarif \/ WriteJson
           \/ (\E s \in Scopes : LoadScope(s)) \/ \E h \in Host : AddHost(h)
  BY <1>1, <1>6 DEF WriteMarkdown, WriteHtml, WriteSarif, WriteJson, LoadScope, AddHost
<1> QED BY <1>2, <1>3, <1>4, <1>5, <1>6 DEF Next

(* The empty store shares no id.                                           *)
LEMMA StoreInit == Init => StoreInv
BY DEF Init, StoreInv, IdsShared

(* Scans, takeover checks and imports in any order, of any findings: of    *)
(* two findings with one id the later is one a takeover check stored       *)
(* (subdomains_takeover and findings_import of cli.py).                    *)
THEOREM IdsCorrect == Spec => []IdsShared
<1>1. StoreInv => IdsShared
  BY DEF StoreInv
<1>2. StoreInv /\ [Next]_vars => StoreInv'
  BY StoreStep
<1> QED BY <1>1, <1>2, StoreInit, PTL DEF Spec

(* No step loses an id: what an import replaces has the id of what it      *)
(* brings.                                                                 *)
THEOREM NoFindingLost == Spec => NothingLost
<1>1. StoreInv /\ [Next]_vars
        => [\A f \in Set(findings) : \E g \in Set(findings)' : g.id = f.id]_vars
  <2> SUFFICES ASSUME StoreInv, [Next]_vars, NEW f \in Set(findings)
               PROVE  \E g \in Set(findings)' : g.id = f.id
    OBVIOUS
  <2>1. HasId(findings, f.id)
    BY DEF HasId
  <2>2. HasId(findings', f.id)
    BY <2>1, StoreStep
  <2> QED BY <2>2 DEF HasId, Set
<1>2. StoreInv /\ [Next]_vars => StoreInv'
  BY StoreStep
<1> QED BY <1>1, <1>2, StoreInit, PTL DEF Spec, NothingLost
-----------------------------------------------------------------------------
(* A report that is split by scope and graph is right about both.          *)
LEMMA SplitRight == ASSUME NEW format, report' = Split(format) PROVE ReportsClassify'
<1>1. /\ report'.listed = {f \in Set(findings) : Allowed(f)}
      /\ report'.flagged \subseteq Set(findings) \ report'.listed
      /\ report'.scope = scope /\ report'.nodes = nodes
  BY DEF Split
<1>2. \A f : Named(f, nodes) => (Allowed(f) <=> InScope(scope, BareHost(f.host)))
  BY DEF Allowed, Asset
<1> QED BY <1>1, <1>2 DEF ReportsClassify

(* Whatever the findings, the scope and the graph: a classifying report is *)
(* right about every finding that names its host by a URL or a node.       *)
THEOREM ReportsCorrect == Spec => []ReportsClassify
<1>1. Init => ReportsClassify
  BY DEF Init, NoReport, ReportsClassify
<1>2. ASSUME ReportsClassify, [Next]_vars PROVE ReportsClassify'
  <2>1. CASE UNCHANGED report
    BY <1>2, <2>1 DEF ReportsClassify
  <2>2. CASE WriteMarkdown \/ WriteHtml \/ WriteSarif
    BY <2>2, SplitRight DEF WriteMarkdown, WriteHtml, WriteSarif
  <2>3. CASE WriteJson
    <3>1. report'.format = "json"
      BY <2>3 DEF WriteJson
    <3> QED BY <3>1 DEF ReportsClassify
  <2> QED BY <1>2, <2>1, <2>2, <2>3
          DEF Next, vars, SaveTakeover, AddHost, SaveScan, ImportFile, LoadScope
<1> QED BY <1>1, <1>2, PTL DEF Spec
-----------------------------------------------------------------------------
(* The fixed-point sum never overtakes a larger one when it is rounded.    *)
LEMMA RoundedGrows ==
  ASSUME NEW a \in Nat, NEW b \in Nat, a <= b
  PROVE  Rounded(a) <= Rounded(b)
BY SMT DEF Rounded

(* The clamps and the weights of freshness and agreement keep the order of *)
(* what they are given.                                                    *)
LEMMA ClampsGrow ==
  ASSUME NEW a \in Int, NEW b \in Int, a <= b
  PROVE  /\ Clamped(a) \in Nat /\ Clamped(b) \in Nat /\ Clamped(a) <= Clamped(b)
         /\ Agreement(a) \in Nat /\ Agreement(b) \in Nat /\ Agreement(a) <= Agreement(b)
         /\ Freshness(a) \in Nat /\ Freshness(b) \in Nat /\ Freshness(b) <= Freshness(a)
<1>1. Clamped(a) \in Nat /\ Clamped(b) \in Nat /\ Clamped(a) <= Clamped(b)
  BY SMT DEF Clamped, AtMost, AtLeast
<1>2. Agreement(a) \in Nat /\ Agreement(b) \in Nat /\ Agreement(a) <= Agreement(b)
  BY SMT DEF Agreement, AtMost, AtLeast
<1>3. Freshness(a) \in Nat /\ Freshness(b) \in Nat /\ Freshness(b) <= Freshness(a)
  BY SMT DEF Freshness, AtLeast
<1> QED BY <1>1, <1>2, <1>3

(* A higher CVSS score never has a lower weight, over every class          *)
(* boundary.                                                               *)
LEMMA WeightGrows ==
  ASSUME NEW a \in 0..100, NEW b \in 0..100, a <= b
  PROVE  CvssWeight(a) \in 1..7 /\ CvssWeight(a) <= CvssWeight(b)
BY SMT DEF CvssWeight

(* For any evidence: none of it can lower the score by growing.            *)
LEMMA ScoreGrows ==
  ASSUME NEW days \in Int, NEW percent \in Int, NEW valid \in BOOLEAN, NEW cvss \in 0..100,
         NEW days2 \in Int, NEW percent2 \in Int, NEW valid2 \in BOOLEAN, NEW cvss2 \in 0..100,
         days2 <= days, percent <= percent2, valid => valid2, cvss <= cvss2
  PROVE  Score(days, percent, valid, cvss) <= Score(days2, percent2, valid2, cvss2)
<1> DEFINE v == IF valid THEN 730000 ELSE 0
           v2 == IF valid2 THEN 730000 ELSE 0
           sum == 3500 * Freshness(days) + 9125 * Agreement(percent) + v + 73000 * CvssWeight(cvss)
           sum2 == 3500 * Freshness(days2) + 9125 * Agreement(percent2) + v2 + 73000 * CvssWeight(cvss2)
<1>1. v \in Nat /\ v2 \in Nat /\ v <= v2
  BY SMT
<1>2. /\ Freshness(days) \in Nat /\ Freshness(days2) \in Nat /\ Freshness(days) <= Freshness(days2)
      /\ Agreement(percent) \in Nat /\ Agreement(percent2) \in Nat /\ Agreement(percent) <= Agreement(percent2)
  BY ClampsGrow
<1>3. /\ CvssWeight(cvss) \in Nat /\ CvssWeight(cvss2) \in Nat /\ CvssWeight(cvss) <= CvssWeight(cvss2)
  BY WeightGrows
<1> HIDE DEF v, v2
<1>4. sum \in Int /\ sum2 \in Int /\ sum <= sum2
  BY <1>1, <1>2, <1>3, SMT
<1> HIDE DEF sum, sum2
<1>5. Clamped(sum) \in Nat /\ Clamped(sum2) \in Nat /\ Clamped(sum) <= Clamped(sum2)
  BY <1>4, ClampsGrow
<1>6. Rounded(Clamped(sum)) <= Rounded(Clamped(sum2))
  BY <1>5, RoundedGrows
<1> QED BY <1>6, SMT DEF Score, sum, sum2, v, v2

EvidenceType ==
  age \in Ages /\ agreement \in Agreements /\ validated \in BOOLEAN /\ base \in BaseScores

(* For every set of values the evidence may take: an edit that adds to it  *)
(* never lowers the confidence (score_finding of scoring.py).              *)
THEOREM EvidenceCorrect == ScoringSpec => EvidenceRaises
<1>1. ScoringInit => EvidenceType
  BY DEF ScoringInit, EvidenceType
<1>2. EvidenceType /\ [Edit]_scoringVars => EvidenceType'
  BY DEF Edit, EvidenceType, scoringVars
<1>3. EvidenceType /\ [Edit]_scoringVars
        => [age' <= age /\ agreement' >= agreement /\ (validated => validated') /\ base' >= base
              => Confidence' >= Confidence]_scoringVars
  <2> SUFFICES ASSUME EvidenceType, Edit, age' <= age, agreement' >= agreement,
                      validated => validated', base' >= base
               PROVE  Confidence <= Confidence'
    BY DEF Confidence, Score, Rounded
  <2> QED BY ScoreGrows, EvidenceAssumption DEF EvidenceType, Edit, Confidence
<1> QED BY <1>1, <1>2, <1>3, PTL DEF ScoringSpec, EvidenceRaises
=============================================================================
