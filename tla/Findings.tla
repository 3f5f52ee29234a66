-------------------------------- MODULE Findings --------------------------------
(***************************************************************************)
(* findings.json and the reports made from it (src/dribik/cli.py and       *)
(* report.py).  Scans append what they found under fresh ids, a takeover   *)
(* check appends under an id cut from the host's name, an import merges a  *)
(* file by id.  A report classifies every finding by the scope and graph   *)
(* of the moment; the JSON report prints the flag that is stored.          *)
(*                                                                         *)
(* A finding is [id, host, by, flag].  Its asset is the URL scanned, or,   *)
(* from a takeover check, "host:" and the name as the user typed it.  If   *)
(* that is how the graph spells the id of the host's node, and the graph   *)
(* has the node, it stands for the host.  flag is out_of_scope.            *)
(***************************************************************************)
EXTENDS Scope, Naturals, FiniteSets

CONSTANTS
  Host,          \* hosts, as labels from the top-level domain down
  Fresh,         \* ids that uuid4 may draw
  CutId,         \* host and spelling -> id of its takeover finding, cut to 20 characters; none is Fresh
  Files,         \* files to import: sequences of findings
  Scopes,        \* scope files to load
  MaxFindings    \* bound on the findings stored

VARIABLES
  findings,      \* findings.json
  nodes,         \* hosts in the graph
  scope,
  drawn,         \* ids drawn so far
  report         \* the last report: [format, listed, flagged, scope, nodes]

vars == <<findings, nodes, scope, drawn, report>>

(* A name typed as graph ids are written, or with capitals or a last dot.  *)
Spelling == {"node", "typed"}

FindingType == [id : STRING, host : Host, by : {"url"} \union Spelling, flag : BOOLEAN]
ASSUME IdAssumption == Fresh \subseteq STRING /\ CutId \in [Host \X Spelling -> STRING]
ASSUME FilesAssumption == \A file \in Files : file \in Seq(FindingType)

Formats == {"markdown", "html", "sarif", "json"}
Finding(id, h, by, flag) == [id |-> id, host |-> h, by |-> by, flag |-> flag]
Set(seq) == {seq[i] : i \in DOMAIN seq}
NoReport == [format |-> "none", listed |-> {}, flagged |-> {}, scope |-> [allow |-> {}, deny |-> {}], nodes |-> {}]

(* What _host_of makes of "host:www.example.test": the first label of the  *)
(* name keeps the prefix.                                                  *)
RawId(h) == BareHost([h EXCEPT ![Len(h)] = "host:" \o @])

(* The finding names its host by a URL or by the id of a node of the graph.*)
Named(f, known) == f.by = "url" \/ (f.by = "node" /\ f.host \in known)

(* _finding_asset: a node of the graph is replaced by what it refers to.   *)
Asset(f, known) == IF Named(f, known) THEN BareHost(f.host) ELSE RawId(f.host)

Init ==
  /\ findings = <<>> /\ nodes \in SUBSET Host /\ scope \in Scopes
  /\ drawn = {} /\ report = NoReport

Room(n) == Len(findings) + n <= MaxFindings

(* A scan with --save: findings whose id is not there yet are appended.    *)
SaveScan(h, id) ==
  /\ Room(1) /\ id \in Fresh \ drawn /\ InScope(scope, BareHost(h))
  /\ drawn' = drawn \union {id}
  /\ findings' = IF \E f \in Set(findings) : f.id = id THEN findings
                 ELSE Append(findings, Finding(id, h, "url", FALSE))
  /\ UNCHANGED <<nodes, scope, report>>

Takeover(h, spelling) == Finding(CutId[h, spelling], h, spelling, FALSE)

(* subdomains takeover --save: appended, whether or not the id is there.   *)
SaveTakeover(h, spelling) ==
  /\ Room(1) /\ InScope(scope, BareHost(h))
  /\ findings' = Append(findings, Takeover(h, spelling))
  /\ UNCHANGED <<nodes, scope, drawn, report>>

(* by_id[f.id] = f on an ordered dictionary.                               *)
Put(seq, f) ==
  IF \E g \in Set(seq) : g.id = f.id
  THEN [i \in DOMAIN seq |-> IF seq[i].id = f.id THEN f ELSE seq[i]]
  ELSE Append(seq, f)

PutAll(seq, file) ==
  LET put[n \in 0..Len(file)] == IF n = 0 THEN seq ELSE Put(put[n - 1], file[n])
  IN  put[Len(file)]

(* Slip: the file takes the place of what is stored.                       *)
MergedAlone(stored, file) == PutAll(<<>>, file)

(* Slip: the findings stored are not merged by id themselves.              *)
MergedLoosely(stored, file) == stored \o file

Merged(stored, file) == PutAll(PutAll(<<>>, stored), file)

ImportFile(file) ==
  /\ Room(Len(file))
  /\ findings' = Merged(findings, file)
  /\ UNCHANGED <<nodes, scope, drawn, report>>

Allowed(f) == InScope(scope, Asset(f, nodes))

(* Slip: a finding is classified by its stored flag.                       *)
SplitByFlag(format) ==
  LET listed == {f \in Set(findings) : ~f.flag} IN
    [format |-> format, listed |-> listed,
     flagged |-> IF format = "sarif" THEN {} ELSE Set(findings) \ listed,
     scope |-> scope, nodes |-> nodes]

(* Markdown, HTML and SARIF reports classify; the SARIF report leaves out  *)
(* what the others flag.                                                   *)
Split(format) ==
  LET listed == {f \in Set(findings) : Allowed(f)} IN
    [format |-> format, listed |-> listed,
     flagged |-> IF format = "sarif" THEN {} ELSE Set(findings) \ listed,
     scope |-> scope, nodes |-> nodes]

WriteMarkdown == report' = Split("markdown") /\ UNCHANGED <<findings, nodes, scope, drawn>>
WriteHtml == report' = Split("html") /\ UNCHANGED <<findings, nodes, scope, drawn>>
WriteSarif == report' = Split("sarif") /\ UNCHANGED <<findings, nodes, scope, drawn>>

(* The JSON report prints every finding with the flag it is stored with.   *)
WriteJson ==
  /\ report' = [format |-> "json", scope |-> scope, nodes |-> nodes,
                listed |-> {f \in Set(findings) : ~f.flag},
                flagged |-> {f \in Set(findings) : f.flag}]
  /\ UNCHANGED <<findings, nodes, scope, drawn>>

LoadScope(s) == scope' = s /\ UNCHANGED <<findings, nodes, drawn, report>>
AddHost(h) == nodes' = nodes \union {h} /\ UNCHANGED <<findings, scope, drawn, report>>

Next ==
  \/ \E h \in Host, spelling \in Spelling : SaveTakeover(h, spelling)
  \/ \E h \in Host : AddHost(h) \/ \E id \in Fresh : SaveScan(h, id)
  \/ \E file \in Files : ImportFile(file)
  \/ WriteMarkdown \/ WriteHtml \/ WriteSarif \/ WriteJson
  \/ \E s \in Scopes : LoadScope(s)

Spec == Init /\ [][Next]_vars
-----------------------------------------------------------------------------
(* Of two findings with one id, the later was stored by a takeover check   *)
(* and is still as the check left it; scans and imports never make a       *)
(* second finding with the id of one that is there.                        *)
IdsShared ==
  \A i, j \in DOMAIN findings :
    i < j /\ findings[i].id = findings[j].id =>
      \E h \in Host, spelling \in Spelling : findings[j] = Takeover(h, spelling)

(* A finding goes only when one with its id takes its place.  So a finding *)
(* whose id is nobody else's, neither in the store nor in what is added,   *)
(* stays as it is.                                                         *)
NothingLost ==
  [][\A f \in Set(findings) : \E g \in Set(findings)' : g.id = f.id]_vars

(* Reports that classify list a finding exactly when its host is in scope  *)
(* by the scope loaded last, however old the finding and its flag are,     *)
(* provided the finding names its host by a URL or a node of the graph.    *)
ReportsClassify ==
  report.format \in {"markdown", "html", "sarif"} =>
    /\ \A f \in report.listed : Named(f, report.nodes) => InScope(report.scope, BareHost(f.host))
    /\ \A f \in report.flagged : Named(f, report.nodes) => ~InScope(report.scope, BareHost(f.host))

(* README.md:284: out-of-scope assets are flagged in reports, here the     *)
(* JSON report.                                                            *)
JsonFlagsOutOfScope ==
  report.format = "json" => \A f \in report.listed : InScope(report.scope, BareHost(f.host))

=============================================================================
