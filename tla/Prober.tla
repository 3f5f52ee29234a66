-------------------------------- MODULE Prober --------------------------------
(***************************************************************************)
(* The injection scanners of src/dribik/vulns: scan_xss, scan_sqli,        *)
(* scan_ssrf, scan_lfi and scan_open_redirect.  Each is the same pair of   *)
(* loops, over parameters and over payloads, with one probe for every      *)
(* place a payload can be put: the query, a form body, a JSON body, named  *)
(* headers, named cookies.  They differ in what counts as a hit, in what   *)
(* they skip, and in what a hit does to the rest of the round.             *)
(*                                                                         *)
(* A target answers every probe as it likes.  Requests are calls of module *)
(* HttpClient, which may raise; no scanner has a handler.  The scope test  *)
(* before the loops belongs to Engagement, and the clock behind "late" and *)
(* "lagging" to module TimeOracle.                                         *)
(***************************************************************************)
EXTENDS Integers, Sequences

CONSTANTS
  Params,      \* parameter names, in order, possibly repeated
  Payloads,    \* payloads, in order
  Timed,       \* those with a SLEEP( or WAITFOR DELAY in them
  Settings     \* scans to run: [scanner, places], places in their order; only
               \*   "get" and "post" for the scanner "redirect"

ASSUME LoopsAssumption ==
  /\ Len(Params) \in Nat /\ Len(Payloads) \in Nat
  /\ \A s \in Settings : Len(s.places) \in Nat \ {0}

(* A place is [context, name]; only headers and cookies have a name.       *)
Contexts == {"get", "post", "json", "header", "cookie"}
Named == {"header", "cookie"}

VARIABLES
  scan,        \* the scan that runs, one of Settings
  next,        \* the number of the next probe of its loops
  seen,        \* dedup keys with a finding
  findings,    \* findings, in order, each by the number of its probe
  asked,       \* probes that were sent
  hits,        \* those whose answer counts as a hit
  aborted      \* an exception has ended the scan

loopVars == <<scan, next, seen, findings, asked, hits, aborted>>

(* What the target answered: an error of the transport, nothing special,   *)
(* the sign the scanner looks for, or a redirect to another host.  late:   *)
(* the payload took the time threshold; lagging: so did half of it for the *)
(* harmless request sent to confirm.                                       *)
Answers ==
  [says : {"error", "nothing", "sign", "away"}, late : BOOLEAN, lagging : BOOLEAN]

Width == Len(scan.places)
Total == Len(Params) * Len(Payloads) * Width

(* The n-th probe of the nested loops, counted from 0.                     *)
Probe(n) ==
  LET place == scan.places[(n % Width) + 1]
      round == n \div Width
  IN  [context |-> place.context,
       payload |-> Payloads[(round % Len(Payloads)) + 1],
       name |-> IF place.context \in Named THEN place.name
                ELSE Params[(round \div Len(Payloads)) + 1]]

Key(n) == <<Probe(n).context, Probe(n).name>>

ProberInit ==
  /\ scan \in Settings /\ next = 0
  /\ seen = {} /\ findings = <<>> /\ asked = {} /\ hits = {}
  /\ aborted = FALSE

Running == ~aborted /\ next < Total

(* Slip: a finding for every hit.                                          *)
AskRecordsAll(detected, goOn) ==
  /\ Running
  /\ asked' = asked \union {next}
  /\ hits' = IF detected THEN hits \union {next} ELSE hits
  /\ findings' = IF detected THEN Append(findings, next) ELSE findings
  /\ seen' = IF detected THEN seen \union {Key(next)} ELSE seen
  /\ next' = IF detected THEN goOn ELSE next + 1
  /\ UNCHANGED <<scan, aborted>>

(* A probe is sent; a hit is recorded unless its key has a finding, and    *)
(* goOn is the probe that follows a hit.                                   *)
Ask(detected, goOn) ==
  /\ Running
  /\ asked' = asked \union {next}
  /\ hits' = IF detected THEN hits \union {next} ELSE hits
  /\ LET new == detected /\ Key(next) \notin seen IN
       /\ findings' = IF new THEN Append(findings, next) ELSE findings
       /\ seen' = IF new THEN seen \union {Key(next)} ELSE seen
  /\ next' = IF detected THEN goOn ELSE next + 1
  /\ UNCHANGED <<scan, aborted>>

Skip ==
  /\ Running
  /\ next' = next + 1
  /\ UNCHANGED <<scan, seen, findings, asked, hits, aborted>>

(* Slip: a hit ends the round.                                             *)
AskToRoundEnd(detected, goOn) ==
  IF Key(next) \in seen THEN Skip ELSE Ask(detected, (next \div Width + 1) * Width)

AskUnlessSeen(detected, goOn) ==
  IF Key(next) \in seen THEN Skip ELSE Ask(detected, goOn)

Shows(answer) == answer.says = "sign"

(* A time payload that was late is judged by the confirmation alone: what  *)
(* the body shows is looked at only when it was not late.                  *)
InjectsSql(probe, answer) ==
  /\ answer.says # "error"
  /\ IF probe.payload \in Timed /\ answer.late THEN ~answer.lagging ELSE Shows(answer)

(* The Location header or a URL of the redirect chain names another host;  *)
(* one that urljoin or urlsplit cannot read raises (see Abort).            *)
LeavesOrigin(answer) == answer.says = "away"

(* scan_xss sends every probe, whatever it has found.                      *)
Xss(answer) ==
  scan.scanner = "xss" /\ Ask(Shows(answer), next + 1)

Sqli(answer) ==
  scan.scanner = "sqli" /\ Running /\ AskUnlessSeen(InjectsSql(Probe(next), answer), next + 1)

Ssrf(answer) ==
  scan.scanner = "ssrf" /\ Running /\ AskUnlessSeen(Shows(answer), next + 1)

Lfi(answer) ==
  scan.scanner = "lfi" /\ Running /\ AskUnlessSeen(Shows(answer), next + 1)

(* A hit in the query ends the round: the payload is not posted.           *)
Redirect(answer) ==
  /\ scan.scanner = "redirect" /\ Running
  /\ AskUnlessSeen(LeavesOrigin(answer),
                   IF Probe(next).context = "get" THEN (next \div Width + 1) * Width ELSE next + 1)

(* A probe, or the request sent to confirm it, raises (the body of an      *)
(* HTTPError cannot be read, see HttpClient!ErrorBodyFails), or an open    *)
(* redirect scan meets a malformed Location: what was found is lost.       *)
Abort ==
  /\ Running
  /\ scan.scanner = "xss" \/ Key(next) \notin seen
  /\ asked' = asked \union {next}
  /\ findings' = <<>> /\ aborted' = TRUE
  /\ UNCHANGED <<scan, next, seen, hits>>

ProberNext ==
  \/ \E answer \in Answers :
       Xss(answer) \/ Sqli(answer) \/ Ssrf(answer) \/ Lfi(answer) \/ Redirect(answer)
  \/ Abort

ProberSpec == ProberInit /\ [][ProberNext]_loopVars
-----------------------------------------------------------------------------
FirstHits == {n \in hits : \A m \in hits : Key(m) = Key(n) => n <= m}

(* At any moment of a scan that no exception has ended, the findings are   *)
(* the first hit of each place and name that was hit, each once, in the    *)
(* order of the probes: a later hit, a repeated parameter or a header      *)
(* probed again for the next parameter adds nothing, and no place hides    *)
(* another.                                                                *)
FirstHitReported ==
  ~aborted =>
    /\ {findings[i] : i \in DOMAIN findings} = FirstHits
    /\ \A i, j \in DOMAIN findings : i < j => findings[i] < findings[j]

(* Two probes of the same payload in the round of the same parameter.      *)
SameRound(n, m) == n \div Width = m \div Width

(* No payload is dropped: a probe behind the loop was sent, unless its own *)
(* place and name had a finding by then, or, in an open redirect scan, the *)
(* same payload had just been found in the query.                          *)
EveryPayloadTried ==
  \A n \in (0..(next - 1)) \ asked :
    \/ \E m \in FirstHits : m < n /\ Key(m) = Key(n)
    \/ scan.scanner = "redirect" /\ \E m \in FirstHits : m < n /\ SameRound(m, n) /\ Probe(m).context = "get"

=============================================================================
