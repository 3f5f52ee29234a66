# A formal model of dribik

dribik is a command-line workbench for authorized web security assessments. An
operator keeps a workspace on disk (rules of engagement, consent records, an
asset graph, findings, an audit trail); every command of the program is a
process of its own that loads from the workspace, perhaps contacts targets
through one HTTP client and one rate limiter, and saves what it learned.

This directory holds TLA+ modules of that program, instances of them for TLC,
and proofs for TLAPS. Source paths below are relative to `src/src/dribik/`
unless they begin with `src/`.

    tlc -workers 2 -config Crawler.cfg MCCrawler     # any run: its .cfg with its MC module
    tlapm CrawlerProofs.tla                          # any *Proofs module

Some definitions come in pairs: under a comment that begins with *Slip* stands a
mutated form of the definition that follows, an off-by-one or a dropped guard.
No specification uses them; each shows that a property fails when the code has
that mistake.

## 1. Inventory

| Component | State it keeps | Operations | Hard behaviour | Modelled in |
|---|---|---|---|---|
| HTTP client, `scanner.py:60-360` | none between calls but the audit callback | `http_get`, `http_post`, `http_request` | retries times redirects, an error answer whose body cannot be read, an audit callback that fails | `HttpClient`, `AuditedCalls` |
| Rate limiter, `scanner.py:44-58` | `_last`, `_lock` | `wait` | threads, lock, clock | `RateLimiter`, `Pacer` |
| Crawler, `scanner.py:402-440` | queue, visited, results | `crawl` | cycles, duplicates in the queue, two bounds, an exception half way, references that are none | `Crawler`, `Exploration` |
| Scope, `scope.py` | none | `classify`, `in_scope` | three kinds of rule, deny before allow, an asset that is a URL or a bare host | `Scope` |
| Consent, `consent.py` | the consent log | `grant`, `has_consent`, `require` | hierarchy of capabilities, expiry | `Consent` |
| Command gate, `cli.py:476-560` and the commands that contact targets | the copies of scope and consent a command has read | gate, second load of the scope, requests | files change and time passes between check and use | `Engagement` |
| Workspace files, `workspace.py` | six files | `create`, `load_*`, `save_*`, `health_check` | no locks, no atomic replacement, crashes, overlapping commands; a part of a YAML text may be YAML | `Workspace`, `ScopeFile` |
| Audit file, `workspace.py:116-135` | `audit.jsonl` | `append_audit`, `load_audit` | writes cut short, entries that hold a line separator | `AuditFile` |
| Injection scanners, `vulns/{xss,sqli,ssrf,lfi,open_redirect}.py` | position in the loops, dedup keys, findings | one probe | `continue`, `break` and dedup keys that silently drop probes, an exception half way | `Prober` |
| Time-based probe, `vulns/sqli.py:112-142` | two clock readings | probe, confirmation | limiter waits and retries inside the measured time | `TimeOracle` |
| Sitemap reader, `recon.py:113-157` | the recursion stack | `fetch_robots`, `fetch_sitemap` | circular documents, foreign URLs, failing fetches | `Sitemap` |
| Asset graph, `graph.py`, `models.py:73-136`, with recon plan, `recon.py:51-77`, and collection export, `collection.py` | nodes and edges | `add_host`, `add_endpoint`, `add_param`, `add_js_route`, `import_bundle`; `recon_plan`, `to_postman` | order and repetition of imports, a bundle that breaks off, one endpoint in several spellings | `Inventory` |
| Subdomain enumeration, `subdomains.py:41-80` | futures of a thread pool | resolve, collect, import | threads, a resolver that raises | `Enumeration` |
| Findings and reports, `cli.py:436-460`, `report.py` | `findings.json` | save, import, four reports | shared ids, names as typed, flags and nodes that are out of date | `Findings` |
| Scoring, `scoring.py` | none | `score_finding` | clamps, class boundaries | `Scoring` |
| CVSS formula, `models.py:172-213` | none | `base_score` | two formulas, weights that depend on the scope, rounding up, a cap | `Cvss` |
| Content discovery, `content.py` | soft-404 baseline, findings | `discover_content` | a baseline request that fails, a site that changes, hashes of two kinds, an exception half way | `Discovery`, its gate in `Engagement` |
| JWT audit, `vulns/jwt_audit.py`, `vulns/_common.py` | findings | `audit_jwt`, `load_payloads` | a word list users edit, headers of any shape | `JwtAudit` |
| Takeover check, `subdomains.py:83-122` | none | `check_subdomain_takeover` | requests a URL when only a host was classified | `Engagement`, `Findings` |
| Header rules, technology detection, raw request parsing, tokens and passive DNS, command line | none | pure functions, text in and text out | little | not modelled, see section 7 |

How they interact: `cli.py` loads scope and consent, passes the gate, installs
the rate limiter and the audit callback, and calls a scanner. The scanner calls
the client once per probe; the client waits for the limiter before each attempt
and reports each call to the callback, which appends to the audit file. Results
go back to the command, which loads the graph or the findings once more, adds
to them, and saves. Nothing but the files is shared between commands.

What makes each of them correct, in one line: the client tells its callers and
the audit trail the same story and stays where it was told to stay; the limiter
keeps the rate under any interleaving; the crawler returns what is reachable, in
scope, once; the gate is never passed by; a file is never worse than the last
command left it; a scanner drops no probe; discovery reports what stands out and nothing else; the graph
is the join of what was said; a report or an export classifies by the scope of the moment;
more evidence or a worse vector never scores lower.

The hazards behind the properties, each with its line, are in `PROJECT.json`.

## 2. Modules

### HttpClient, over the abstract AuditedCalls

One call at a time, as the code has it. `pc` is the place in the function:
`pacing` (in `_rate_limiter.wait()` or `opener.open` before anything is sent),
`open`, `denied` (an HTTPError was caught, its body is yet to be read),
`resting` (`time.sleep` of the backoff), `idle`. `wire` records every request
with the call it belongs to, redirected ones included; `audit` the entries;
`outcome` what the caller got. The target may respond, redirect, answer with an
error status, or fail, at any time.

`http_get`, `http_post` and `http_request` have the same loop, clause by clause.
They differ in the default of `follow_redirects` (True for `http_get` only) and in
the method test of `http_request`; `call.fn` tells them apart. Timing, headers,
bodies and proxies are left out. `max_retries` and urllib's redirect limit are
constants. `e.read()` inside the handler of an HTTPError may raise
(`ErrorBodyFails`): nothing catches it, the exception leaves the function, and
there is neither a result nor an audit entry. This is what `Crawler!Raise`, `Prober!Abort` and
the unlogged outcomes of `AuditedCalls` stand for. `Unwritable` names the calls at
whose end `append_audit` may raise, which `_emit_audit` swallows.

`AuditedCalls` is the promise: in the step that ends a call, and in no other, the
trail grows by that call's entry. `ImplementsAuditedCalls` is the refinement.

### RateLimiter, over the abstract Pacer

`Pacer` knows the time since the last grant and forbids a grant within the
interval. `RateLimiter` adds threads, the lock, the reading of the clock and the
sleep: time passes between all of them. Time is discrete, and a sleep lasts
exactly its length; a longer one only adds ticks before `Stamp`, which `Tick` allows.
`elapsed` stops at `Interval`, because the code compares it with nothing larger.

### Crawler, over the abstract Exploration

One step is one turn of the `while` loop. What the target serves (`site`) is
chosen at the start and does not change: for each page the kind of its answer and its body, the
sequence of the references in it. A reference that `urljoin` or `urlsplit` raise at, such as
`http://[`, is `Malformed`: the exception ends the parser, `_extract_links` logs and swallows it,
and what `Extracted` keeps is the links before it. The links read are put in the queue in any
order, which covers the order of the document. `Exploration` has no queue: it takes any allowed
page that is linked from one it has seen.

### Scope, Consent, Engagement

`Scope` and `Consent` are operators. A host is its sequence of labels from the
top-level domain down, so that "domain suffix" is a prefix of sequences; a URL's text
is a sequence of scheme, host labels and path parts, so that `startswith` is a
prefix as well. Kept is what `_host_of` does with a bare host whose name carries a
port or a prefix; hosts with a trailing dot are left out, but for the names a takeover check stores. A capability is the sequence
of its dotted parts.

`Engagement` takes a command through `_require_authorized_target` (scope, then
consent, each loaded on its own), through the second `load_scope` most commands
make, and through its requests; meanwhile the operator loads another scope, grants
consent, and time passes. `gate` is the scope the gate saw, `copy` the one the
command works with. The kind *probe* stands for the scans for xss, sqli, ssrf, lfi,
redirects and headers, which request variations of one URL. The model lets every
command that follows redirects be led anywhere by any request, which is more than
some of the scanners allow (a redirect scan does not follow them): the properties
about redirects are implied for those. A crawl's requests are those of any order;
which order it takes is `Crawler`'s subject.

### Workspace

A file is absent, whole with a set of records, truncated, or malformed. Saving is two
steps, as `Path.write_text` is: truncate, then write. A second writer between the
two leaves a mixture, malformed if the earlier text was longer. A process may die at any
point. Updating commands (`consent grant`, `graph import`, `findings import`,
`--save`) load, add and save; `scope load` replaces; `init` tests each file and
creates it; `doctor` reads one file after the other. `overlap` and `crashed` record on
which files commands overlapped or died: the properties say that nothing else
does damage. A file's text fits one write here.

### ScopeFile

The lines of `scope.yaml`. Saving truncates the file and writes the text in pieces, which
may end anywhere, within a line too; a full disk or a dying process stops it for good.
`Loads` and `RulesIn` are what `yaml.safe_load` and `Scope.model_validate` make of such a
text, read line by line (`Read`): where a later key is missing its list is empty, an item without its value is refused,
and a value cut short is still a value. One command saves at a time. `write_text` and
`read_text` are not exclusive, so loads happen in the middle of saves. Two overlapping savers
are left to `Workspace`, which takes the mixture to be malformed; being YAML it may in
truth still load and mix the rules of both, so that an item of one list ends in the other.
The JSON files cannot do that: no proper part of a JSON object is one.

### AuditFile

The file as a sequence of lines. An append may be cut in the entry, right before
the newline, or within a character of several bytes; the next append is then glued to
the remainder. `load_audit` skips lines it cannot parse, and fails as a whole when
the bytes are not UTF-8. It cuts the text with `splitlines()`, which takes U+0085, U+2028 and
U+2029 for ends of lines too; `model_dump_json` leaves them as they are in a URL or a request
body, so that an entry written to the end may be two lines that are no entries (`split`), and an append
cut behind such a separator leaves a line that the next entry does not continue (`torn`).

### Discovery

`discover_content` step by step: the scope test of the base, the baseline request, and one
step for each candidate. An answer has a status, a body and a Content-Length. `Hash` is
`body_hash`, the digest of the bytes, where `http_get` sets it, and else the digest of the decoded
text: the two differ for bodies that are no UTF-8. The site answers missing paths in one
way at a time and may change it (`Renew`): a new deployment, or a rate limit that strikes.
`BreakOff` is an entry that is a URL (`_candidate_url` raises `ValueError`), or an error
answer whose body cannot be read; nothing catches either, and what was found is lost.

### Prober, TimeOracle and JwtAudit

`Prober` numbers the probes of the nested loops (parameter, payload, place) and
has one action per scanner, each with its own test of what a hit is, what is skipped
and where the loop goes on. The target answers as it likes. `Abort` is an exception in a
probe: the body of an error answer cannot be read, or an open redirect scan meets a Location
that `urljoin` or `urlsplit` raise at. Nothing in the scanners catches it, and what was found is lost. `TimeOracle` is the clock
behind the answers *late* and *lagging*: what `_probe` measures is a whole call, with the
wait for the limiter, failed attempts and their backoff.

`JwtAudit` takes a token as what the audit can tell of it, and a word list as lines.
`load_payloads` drops blank lines and comments, keeps each word once, and falls back to the
built-in words if none is left. The fields of a decoded header are of any JSON type: `Raise` is the
`AttributeError` of a header that is no object or of an algorithm that is no text.

### Sitemap, Inventory, Enumeration

`Sitemap` keeps the recursion as a stack of frames; the recursion limit of Python
strikes inside `http_get`, whose `except Exception` takes it for a failed request.
`Inventory` merges items into a copy of the graph and saves the copy at the end; a
malformed item raises, and nothing is saved. URLs are *spellings*, `Normal` is
`normalize_url`; an endpoint's id is made of the normal spelling, and the node keeps the one
it was last written in. `Live`, `Flagged` and `ToPostman` are what `recon plan` and
`collection write` show of the saved graph. `Enumeration` has the thread pool, the
collecting loop over `as_completed`, and the import.

### Findings, Scoring and Cvss

`Findings` has the three ways a finding comes in (a scan under a fresh id, a takeover
check under an id cut to 20 characters, an import merging by id) and what each report
lists or flags. A takeover check stores `host:` and the name as it was typed; the graph spells its
node in lower case and without a last dot, so that a name typed otherwise finds no node (`typed`). `Scoring` computes in ten-thousandths, exactly: the code's floats
are rounded to four places, and differ from the exact value only where that value lies
on a rounding boundary. `Cvss` is the base score in integers below 2^31: weights in
hundredths, products cut to six decimals. The scores of all 2592 vectors with the values the
standard knows are those of the code.

## 3. Runs

Parts that share no state are put in one run *side by side*: each of them moves while
the others rest in an initial state. A behaviour of such a run is a behaviour of one
part with the others standing still, so an invariant or a temporal property of a part
holds in the run exactly if it holds of the part; nothing is gained by interleaving
them.

| Run | Instance | What it shows |
|---|---|---|
| `http_client` | two calls, two URLs, one retry, one redirect; the audit callback may fail for the second call | `AuditAgrees`, `StaysPut`, `RequestsBounded`, `CallsEnd`, and the refinement of `AuditedCalls` |
| `rate_limiter` | three threads, interval of three units, five grants | `RateKept`, `EveryWaitReturns`, and the refinement of `Pacer` |
| `crawler` | 15,960 sites of nine pages, some with a malformed reference, `max_depth` 2, `max_pages` 4 | `ResultsExact`, `CompleteUnlessMalformed`, `DepthIsDistance`, `Terminates`, and the refinement of `Exploration` |
| `workspace` | side by side: two commands at a time, three in all, two records; five appends; two saves of scopes of two rules a list | `SavedIsKept`, `UnreadableOnlyIfDisturbed`, `DoctorFindsLasting`; `LossBounded`; `LoadsFirstRules` |
| `engagement` | one command of every kind, five URLs, three scopes, three consent records, two edits, two moments | `GateHeld`, `NarrowingNoticed` |
| `scan` | side by side: the loops for every scanner with two payloads and three parameters, one repeated; the clock with thresholds of 10, delays to 12, intervals to 8; tokens of every kind against three word lists | `FirstHitReported`, `EveryPayloadTried`; `PayloadWasSlower`, `ErrorNeverConfirms`; `SecretReported` |
| `recon` | side by side: 18 sets of four sitemaps; four names and two threads; up to two candidates on sites whose missing page is an error, a success, a redirect or a picture; two imports of bundles of two items, five scopes | `LinksStayInScope`, `ListingComplete`, `RobotsEnds`; `AllOrNothing`; `FilterExact`; `HierarchyKept`, `HostsJoined`, `ExportJudged` |
| `findings` | side by side: three hosts, three scopes, three files, two findings stored; 768 findings to score; every vector and every edit of one metric | `IdsShared`, `ReportsClassify`, `NothingLost`; `EvidenceRaises`; `WorseNeverLower` |

The type invariants stand in the modules that are proved about, as part of the inductive
invariants, and only `http_client` checks its own. The theorems state four more properties which
hold in these instances and are not repeated in a run: `ErrorAnswerIsFinal`, `SleepIsLongEnough`,
`BreadthFirst` and `AppendOnly`.
The properties, in words:

- **HttpClient.** The trail and the callers agree, one entry per call at most. A call that
  does not follow redirects never sends anything but its own URL. The requests of a call
  are at most attempts times hops. Every call ends.
- **RateLimiter.** n grants after the first have taken n intervals, whatever the threads
  do; whoever waits gets a turn.
- **Crawler.** The list returned is the visited pages, each once, in scope, at most
  `max_pages`, each at its distance from the start over the links that were read. A crawl that
  ends with room left and read links from no page with a malformed reference has returned every
  page that `max_depth` links of the whole bodies lead to. The premise is needed: one malformed
  reference loses every link behind it, with a line in the debug log only, and the pages they lead to are missed.
- **Engagement.** Whatever is on the wire was sent for a command whose target the gate
  found in scope and whose capability had consent then. If no scope was loaded since a
  command read its copy, its own requests are in scope by the file on disk. Consent is asked of the
  host of the target only: a crawl goes on to every host its scope allows, sitemaps may be fetched
  from any of them, and a followed redirect leads wherever the target says; no property bounds that.
- **Workspace.** Saved records stay, unless two commands overlapped on the file or one
  died over it. doctor reports every file that was unreadable throughout its run.
- **AuditFile.** An interrupted append costs at most one entry besides its own, an entry that
  holds a line separator only itself.
- **ScopeFile.** Whatever of `scope.yaml` loads, in the middle of a save or after one that was cut
  off, holds the first rules of the latest save, denials only behind all allow rules, the last
  value perhaps shortened; never a rule of an older save. What it may lack are denials, all of
  them at worst: a file cut off after its allow rules loads as a wider scope than was saved, an allow
  value cut short may allow more than it said, and doctor calls both files sound.
- **Prober.** Findings are exactly the first hits of each place, unless an exception has ended
  the scan, which leaves none; a probe is skipped only
  where its place has a finding, or, for open redirects, the query just had one.
- **TimeOracle.** If no request had to be repeated, a finding means the target took longer
  over the payload than over the harmless request, whatever the limiter did. The premise is
  needed: one lost connection adds its timeout and backoff to the first measurement and can
  make a finding on an innocent target. A confirmation that failed for good never confirms:
  its backoff alone is longer than half the threshold.
- **Discovery.** While the site answers missing paths as it answered the baseline, no missing
  path is reported; and a path that is there, in scope and of interest is reported unless it looks
  like the baseline. Without a baseline every answer of an interesting status is reported, and
  others unless their body is empty.
- **JwtAudit.** A key that stands in the list in use is reported once, by its name, under HS256 only.
- **Sitemap, Enumeration, Inventory.** URLs in scope only, complete without failures; all
  names that resolve are added or none; hosts are the join of what
  the saved bundles said, in any order, and the plan shows as live exactly those said to be. A
  collection requests an endpoint at most once, by a spelling that was imported and is in scope;
  where some spellings are in scope and some are not, the latest import decides.
- **Findings, Scoring, Cvss.** Of two findings with one id, the later is one a takeover check
  stored; a report lists a finding exactly if its host is in scope by the scope of the moment,
  provided it names a URL or a node of the graph; more
  evidence never lowers a score; a vector as bad or worse in every metric never has a lower one.

### Bounds

`MaxRetries`, `MaxHops` of 1 reach a redirect after a retry and a retry after a redirect,
the only ways the two loops meet. Three threads let two wait while one sleeps. Crawls of
depth 2 with five pages in scope reach both limits, cycles, and duplicates in the queue.
Three commands in all let a third one find what two left behind. Two edits let the scope
change between the two loads and again after them. Two payloads and three rounds are the
least in which a key of an earlier round meets a later one. Sitemaps of four documents
with five frames let a circle close twice. Two stored findings can share an id; one
import more would repeat it. Two rules a list are the least of which one is whole when the other is
cut. Two candidates let one be reported before the other raises; a third entry of the word list is
beyond `MaxCandidates`. Three spellings of one page are judged differently by prefix rules only. `MaxWrites`, `MaxGrants`, `MaxJobs`, `MaxEdits`, `MaxTime`,
`MaxImports`, `MaxFindings`, `MaxSaves`, `MaxRules`, `MaxDelay` and `MaxInterval` bound counters that the program
leaves unbounded. `SYMMETRY` is used in `workspace` only, which has no liveness property.

### Fairness

| Specification | Assumed | Why |
|---|---|---|
| `HttpClient!Spec` | `WF(Step)` | every socket operation has a timeout, `sleep` returns, and the limiter's wait ends (`EveryWaitReturns`); making a call is left to the command |
| `RateLimiter!LimiterSpec` | `WF(Tick)`, `WF(Call(t))` | time passes, and a thread that can run does; nothing is asked of the lock beyond that, as `threading.Lock` promises no order. That nobody starves all the same is due to `MaxGrants`: a command makes finitely many requests |
| `Crawler!Spec` | `WF(Next)` | one loop in one thread; `http_get` ends by `CallsEnd` |
| `MCRecon!ReconSpec` | `WF(ReconNext)` | requests and the system's resolver have timeouts, the rest is a loop |

The others state safety only.

### Where the text and the code part

Four runs end in a violation, on purpose: they check a sentence of the repository.

- `http_client_default`: the docstring of `http_get` (`scanner.py:157`) says redirects are
  not followed by default; the parameter's default is True.
- `engagement_probe_scope`: `src/README.md:41` has the scope checked before every active
  probe; `recon robots` requests `robots.txt`, and `subdomains takeover` two URLs of a
  classified host, without a check, so that a denied URL prefix does not stop them.
- `recon_one_level`: `recon.py:134` has sitemap indexes followed one level deep; the
  function calls itself without a level.
- `findings_json`: `src/README.md:284` has out-of-scope assets flagged in reports; the JSON
  report prints the stored flag, which no scan sets and no scope change updates.

Further disagreements seen while modelling, without a run of their own so far:
`src/README.md:230` and `models.py:238` speak of one audit entry per request, the code writes
one per call; `scanner.py:410` has links past the first few hundred bytes of a page discovered, those
behind a malformed reference are not; `src/README.md:230` asks consent of every target contacted, a crawl
asks it of its start; the help at `cli.py:276` limits followed redirects to authorized
destinations, none is checked; `cli.py:151` has doctor report any malformed record, the notes
are only looked for; `src/docs/architecture.md:19` names `extracted_from` edges for JavaScript
routes, none is added; `src/docs/architecture.md:56` gives weights 0.35, 0.45 and 0.20, the code
has 0.35, 0.25, 0.20 and 0.20 for CVSS; a takeover finding whose host is no node of the graph, or was
typed unlike its node, is classified by its raw id, `host:` prefix included, and may be listed although its host is denied;
`src/docs/architecture.md:36` separates hosts with a wildcard risk, the plan lists them among the
live ones as well; `src/docs/architecture.md:45` speaks of consent for every scan, `scan jwt` asks
none, as it contacts nobody; `jwt_audit.py:77` lists alg:none as what is audited, a token that does
use it gets no finding for it; the blank word among the built-in secrets is never tried while the
file holds words, and a file cannot hold it; `raw_http.py:47` accepts no ambiguous headers, a
repeated header is accepted, the last value counting, and line ends in the body are rewritten.

## 4. Proofs

Everything below holds for every value of the constants under the assumptions named in
the modules.

| Module | Theorems | Inductive invariant, and why it is needed |
|---|---|---|
| `HttpClientProofs` | `TypeCorrect`, `AuditCorrect`, `NeverLedAway`, `NothingAfterTheAnswer`, `RequestsCorrect`, `ClientRefinesPromise` | `AuditInv`: that a call is not logged twice needs to know that the call in progress has no outcome yet. `WireInv`: that a new call has sent nothing needs to know that whatever is on the wire belongs to a call that ended or is in progress. `BudgetInv`: the requests of the call in progress, counted in whole attempts and the redirects of the present one |
| `RateLimiterProofs` | `TypeCorrect`, `SleepCorrect`, `RateCorrect`, `LimiterRefinesPacer` | who is inside the lock is unique, and `left + elapsed >= Interval` for the sleeper; `RateKept` adds the sum of the intervals granted |
| `CrawlerProofs` | `TypeCorrect`, `ResultsCorrect`, `OrderCorrect`, `CrawlComplete`, `DistanceCorrect`, `CrawlerRefinesExploration` | every queued URL is linked from a page that was read, one level above; every link extracted from such a page is visited, queued or not allowed; the queue is sorted and spans two levels. `DistanceInv` adds that what is queued is linked at its depth and what was fetched is at its distance |
| `EngagementProofs` | `TypeCorrect`, `GateCorrect`, `NarrowingCorrect` | what a process has passed so far: its stage tells which of its checks held, and with which scope, at which time; requests are those of its copy |
| `WorkspaceProofs` | `FilesTypeCorrect`, `SavedKept`, `UnreadableCorrect`, `DoctorCorrect`; `AuditTypeCorrect`, `LossCorrect`, `TrailAppendOnly`; `ScopeCorrect` | `FilesInv`: a file on which no commands overlapped has one holder at most, is cut off while it is written or after its writer died and at no other time, and after such a death is opened only by a command that never looks at it; what a holder is about to write has its own records and, unless it replaces the file, the saved ones; doctor has reported all lasting damage among the files it has passed. For the audit file: what the last line may be, and that entries written are balanced by the lines that load, interruptions and entries with a separator. `TextInv`: the scope file holds the first lines of the latest save and maybe a part of the next one, and nothing behind |
| `ScanProofs` | `OracleTypeCorrect`, `SlowerCorrect`, `ErrorCorrect`; `FirstHitCorrect`, `PayloadsCorrect`; `SecretCorrect` | `Backed`: the pauses so far are contained in the elapsed time, so that three failed attempts exceed half the threshold. `Suspected`: after a late first answer, its delay and one wait made up the threshold, and what of the interval the delay did not cover is still to be waited out in the second call. `LoopInv`: the keys seen are those of the first hits, and every hit's key is seen; a jump to the end of a round stays in the round, which takes division. `TokenInv`: where the audit of a token stands tells what it has found; the words in use are those of the file, shown of the recursion `Once` |
| `FindingsProofs` | `IdsCorrect`, `NoFindingLost`, `ReportsCorrect`; `EvidenceCorrect` | of two findings with one id the later is a takeover check's. An import is a recursion over a file, so that what it keeps is shown of the recursive function `PutAll`. `EvidenceCorrect` is a step property: every clamp, class weight and rounding keeps the order |
| `ReconProofs` | `GraphTypeCorrect`, `HierarchyCorrect`, `HostsCorrect`, `ExportCorrect`; `FilterCorrect`; `NamesCorrect`; `LinksCorrect`, `ListingCorrect` | `Sound`: the saved graph is what the merged items make it, and the copy in memory what the merged and the pending ones do; it rests on `ItemAdded`, that merging an item adds the item's nodes, edges and data and nothing else. `BaselineHeld`: before the baseline nothing has been tried, and afterwards it looks like the missing page of that moment as long as the site has not changed. `NamesInv`: a name keeps its answer, and what is added is the answered names that resolved. `Balanced`: what the sitemap reader has returned, followed by what every frame of its stack still owes, is the whole listing |

Recursion is written as recursive functions on numbers (`Within`, `PutAll`, `Once`, `Concat`, `Kept`, `Listing`, `Parse`),
and the first lemma about each is that it satisfies its equation (`WithinEquation`, `ConcatEquation`,
`ListingEquation`, ...): a recursive function is a `CHOOSE` to the prover, so that a function with that
equation has to be exhibited. That something holds of every n is shown of the set of numbers it
holds of: `Induct`, which comes from the library's `NatLessThanWellFounded`, says that a set with 0 and with every
successor of its members is all of Nat. The library's induction theorem would take an operator, which the provers cannot instantiate.

The argument of `DistanceCorrect`. The queue is sorted and spans two levels, so when an entry of
depth d is taken, all that waits is at d or deeper (`NearerFetched`); then every page within fewer
than d links has been fetched, as the start has been and each link of a fetched page is visited or queued. An entry that is fetched at d is therefore no
page of a lower level, and it is linked from a page of level d - 1. At the end the queue is
empty, and what has been fetched is everything within `max_depth` links that were read. Where no
malformed reference was met, these are the links of the whole bodies (`NearWhole`), which is
`CrawlComplete`.

The argument of `ListingCorrect`. A frame k calls below the start has `DepthLimit + 1 - k` levels to go. It owes
the listings of the sitemaps on its list, one level less each, and then its own pages. A call moves the
head of a list into a new frame, which owes the listing of that head; a sitemap out of scope
and one at the recursion limit owe nothing and return nothing; a return moves pages from what is owed to what was returned.
Each is an equation between concatenations, and when the stack is empty nothing is owed. No sitemap is
remembered between calls, which is why a shared one is listed as often as it is named.

The argument of `ScopeCorrect`. A text is a name and two lists, each a heading and two lines a rule
(`LinesOfDump`), and a line is read after all lines before it (`PrefixRead`). By induction over the rules,
the parser knows i rules after the heading and 2i lines, and i rules and a kind after one line more
(`ListRead`, `DumpRead`). Every number of lines is one of these places (`Places`), and at each of them
a part of the next line breaks the text or ends in one more rule, its value cut short (`EveryPlaceSafe`).

The argument of `SlowerCorrect`, as an example. Let T be the threshold, I the limiter's interval,
d the target's delay on the payload and c its delay on the confirmation. A finding needs a first
call of at least T and a second one below T/2. The first call is a wait of at most I and the
delay, so I + d >= T. If d >= T/2, then c < T/2 <= d. Otherwise d < T/2 < I: the delay has not
covered the interval, so the second call waits at least I - d, and
c < T/2 - (I - d) = d - (I - T/2) < d. Either way the confirmation was answered faster than the
payload. No relation between I and T is assumed, which the run, with one choice of both, cannot show.

The assumptions are on constants only and stand in the modules: bounds are numbers; the sets a
component starts from have the types of what they stand for (`IdAssumption` and `FilesAssumption`:
ids are strings and files are sequences of findings; `SitemapAssumption`, `DiscoveryAssumption`,
`InventoryAssumption`, `LoopsAssumption`, `WordsAssumption`, `RulesAssumption` alike); `EvidenceAssumption` has CVSS scores between 0 and 10 and
leaves ages and agreements any integers; `BackoffAssumption` relates the first pauses to half the
threshold, as the program's numbers do. TLC evaluates each of them in the runs.

Model-checked only: liveness (`CallsEnd`, `EveryWaitReturns`, `Terminates`,
`RobotsEnds`), which with its fairness and ENABLED is out of the prover's reach;
and `WorseNeverLower` of `Cvss`, whose step is an inequality between rounded products, one a fifteenth power,
over a finite table: TLC goes through all of it, and there is no constant to generalize over.

## 5. Plan

Order of work: the client and the limiter, which every request passes; the crawler; the gate
with scope and consent; the workspace's files; the scanners; reconnaissance and the graph;
findings and reports. All of these are in place. Compositions: `Engagement` is built on
`Scope` and `Consent`, `Findings`, `MCCrawler` and the exports of `MCRecon` on `Scope`; `RateLimiter` extends `Pacer`.
Abstract specifications: `AuditedCalls`, `Pacer`, `Exploration`.

What comes next:

1. Compositions that are side by side now and interact in the program: `Enumeration` and the
   bundles of `Inventory`; the answers of `TimeOracle` and the loops of `Prober`; the saving
   commands of `Workspace` with the contents of `Inventory` and `Findings`.
2. An abstract store that `Workspace` implements while commands do not overlap, and one for
   `Inventory` (a join of everything said) with the refinement shown.
3. Two savers of `scope.yaml` at a time, by lines.
4. Proofs: the compositions of items 1 and 2 as they come.

## 6. How far to trust the models

A model step is as fine as the program's own sharing demands: per file operation in `Workspace`,
per clock reading in `RateLimiter`, per request elsewhere. `Engagement` takes the load of a
file as one step and leaves its pieces to `Workspace` and `ScopeFile`: a command that loads a
half-written file ends before its first request, or works with what `ScopeFile` says still
loads, which counts in `Engagement` as one more scope the operator has loaded.

## 7. Not modelled

- Text: payload lists, response patterns, fingerprints, report layout, terminal output, option
  parsing, the parsing of raw requests, of CVSS vectors, and of tokens and their signatures; the count of `risk_matrix`.
- Technology detection, the table of header rules, token extraction and certificate search:
  single passes over one answer or one list, without state or interleaving.
- Overlapping savers of a YAML file by their lines: `Workspace` takes the mixture to be malformed,
  and a `scope.yaml` that a dying command left half written to be unreadable, where `ScopeFile` says
  what may still load.
- Merging of an endpoint's plain fields other than its URL, and of the sources list: they keep the
  latest value. `scan content --import-graph` and the other commands that add endpoints are imports of
  bundles in `Inventory`.
- Several processes appending to the audit file at once: short appends of one `write` each.
