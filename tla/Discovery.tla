------------------------------- MODULE Discovery -------------------------------
(***************************************************************************)
(* Content discovery (src/dribik/content.py): a random path that cannot be *)
(* there is requested once, as the baseline; then the candidates of a      *)
(* wordlist, one after the other, and those whose answers look different   *)
(* are reported.  Redirects are not followed.                              *)
(*                                                                         *)
(* An answer is [status, body, length], length being the Content-Length.   *)
(* Bodies are compared by a hash: that of the bytes after a success, that  *)
(* of the decoded text after an error or a redirect, for which http_get    *)
(* leaves body_hash empty.  Requests are calls of module HttpClient: each  *)
(* is answered, fails, or raises because its error body cannot be read.    *)
(***************************************************************************)
EXTENDS Naturals, Sequences

CONSTANTS
  Entry,           \* entries of wordlists
  Absolute,        \* those that are URLs, not paths
  Wordlists,       \* sequences of entries, blank ones left out
  MaxCandidates,
  Base,            \* stands for the URL the paths are appended to
  ContentScopes,   \* what a scope may allow: sets of entries, maybe with Base
  Pages,           \* what is there: functions from sets of entries to answers
  Missing,         \* answers the site may have for a path that is not there
  Decoded          \* body -> its text, bytes that are no UTF-8 replaced

ASSUME DiscoveryAssumption == Wordlists \subseteq Seq(Entry) /\ MaxCandidates \in Nat

VARIABLES
  allowed,         \* one of ContentScopes
  wordlist,        \* one of Wordlists
  page,            \* one of Pages
  missing,         \* how the site answers a missing path at the moment
  renewed,         \* whether that has changed since the baseline was taken
  baseline,        \* [failed, looks], looks being of the first answer
  next,            \* the number of the next candidate
  found,           \* what will be reported: entries, in order
  unanswered,      \* candidates whose request failed, by number
  stage            \* "start", "probing", "done" or "raised"

contentVars == <<allowed, wordlist, page, missing, renewed, baseline, next, found, unanswered, stage>>

Interesting == {200, 204, 301, 302, 303, 307, 308, 401, 403}
Succeeded(answer) == answer.status \in 200..299
Hash(answer) == IF Succeeded(answer) THEN answer.body ELSE Decoded[answer.body]

(* The signature an answer is compared by.                                 *)
Looks(answer) == [status |-> answer.status, hash |-> Hash(answer), length |-> answer.length]

(* Slip: body_hash is taken as it is, and is empty after an error.         *)
RawHash(answer) == IF Succeeded(answer) THEN answer.body ELSE "empty"
LooksRaw(answer) == [status |-> answer.status, hash |-> RawHash(answer), length |-> answer.length]

NoAnswer == [status |-> 0, hash |-> "empty", length |-> "none"]
Candidates ==
  IF Len(wordlist) <= MaxCandidates THEN wordlist ELSE SubSeq(wordlist, 1, MaxCandidates)
Answer(e) == IF e \in DOMAIN page THEN page[e] ELSE missing

ContentInit ==
  /\ allowed \in ContentScopes /\ wordlist \in Wordlists /\ page \in Pages /\ missing \in Missing
  /\ renewed = FALSE /\ baseline = [failed |-> TRUE, looks |-> NoAnswer]
  /\ next = 1 /\ found = <<>> /\ unanswered = {} /\ stage = "start"

(* The scope the command works with does not allow the base, or there are  *)
(* no candidates: not even the baseline is requested.                      *)
Starts == stage = "start" /\ Base \in allowed /\ Candidates # <<>>

Decline ==
  /\ stage = "start" /\ ~Starts
  /\ stage' = "done"
  /\ UNCHANGED <<allowed, wordlist, page, missing, renewed, baseline, next, found, unanswered>>

(* Slip: the baseline is taken by what http_get returns as its hash.       *)
TakeRawBaseline ==
  /\ Starts
  /\ baseline' \in {[failed |-> FALSE, looks |-> LooksRaw(missing)], [failed |-> TRUE, looks |-> NoAnswer]}
  /\ stage' = "probing"
  /\ UNCHANGED <<allowed, wordlist, page, missing, renewed, next, found, unanswered>>

(* A baseline that failed has an empty body and no signature.              *)
TakeBaseline ==
  /\ Starts
  /\ baseline' \in {[failed |-> FALSE, looks |-> Looks(missing)], [failed |-> TRUE, looks |-> NoAnswer]}
  /\ stage' = "probing"
  /\ UNCHANGED <<allowed, wordlist, page, missing, renewed, next, found, unanswered>>

Turn == stage = "probing" /\ next <= Len(Candidates)

RefuseCandidate ==
  /\ Turn /\ Candidates[next] \notin allowed \union Absolute
  /\ next' = next + 1
  /\ UNCHANGED <<allowed, wordlist, page, missing, renewed, baseline, found, unanswered, stage>>

RequestFails ==
  /\ Turn /\ Candidates[next] \in allowed \ Absolute
  /\ next' = next + 1 /\ unanswered' = unanswered \union {next}
  /\ UNCHANGED <<allowed, wordlist, page, missing, renewed, baseline, found, stage>>

(* An answer is dropped if it looks like the baseline, or if neither its   *)
(* status nor its body tells it from a missing page.                       *)
Dropped(looks) ==
  \/ ~baseline.failed /\ looks = baseline.looks
  \/ looks.status \notin Interesting /\ looks.hash = baseline.looks.hash

Judge ==
  /\ Turn /\ Candidates[next] \in allowed \ Absolute
  /\ LET e == Candidates[next]
     IN  found' = IF Dropped(Looks(Answer(e))) THEN found ELSE Append(found, e)
  /\ next' = next + 1
  /\ UNCHANGED <<allowed, wordlist, page, missing, renewed, baseline, unanswered, stage>>

(* _candidate_url refuses an entry that is a URL, or a call of http_get    *)
(* raises: discover_content ends, and what it had found is lost.           *)
BreakOff ==
  /\ \/ Starts
     \/ Turn /\ Candidates[next] \in allowed \union Absolute
  /\ stage' = "raised" /\ found' = <<>>
  /\ UNCHANGED <<allowed, wordlist, page, missing, renewed, baseline, next, unanswered>>

Finish ==
  /\ stage = "probing" /\ next > Len(Candidates)
  /\ stage' = "done"
  /\ UNCHANGED <<allowed, wordlist, page, missing, renewed, baseline, next, found, unanswered>>

(* The site is changed, or starts to refuse what comes too fast.           *)
Renew(answer) ==
  /\ stage = "probing" /\ answer # missing
  /\ missing' = answer /\ renewed' = TRUE
  /\ UNCHANGED <<allowed, wordlist, page, baseline, next, found, unanswered, stage>>

ContentNext ==
  \/ Decline \/ TakeBaseline \/ RefuseCandidate \/ RequestFails \/ Judge \/ BreakOff \/ Finish
  \/ \E answer \in Missing : Renew(answer)

ContentSpec == ContentInit /\ [][ContentNext]_contentVars
-----------------------------------------------------------------------------
Numbers == {i \in DOMAIN Candidates : i < next}
Reported(e) == \E i \in DOMAIN found : found[i] = e

(* Soft-404 filtering: as long as the baseline was answered and the site   *)
(* answers missing paths as it did then, no path that is not there is      *)
(* reported, whatever the missing page looks like: an error, a success, a  *)
(* redirect, a body that is no text.                                       *)
MissingNeverReported ==
  ~baseline.failed /\ ~renewed => \A e \in Entry : Reported(e) => e \in DOMAIN page

(* The filter drops no more than it says: a path that is there, allowed,   *)
(* answered, and of interest is reported unless it looks like the missing  *)
(* page of the moment the baseline was taken, also without a baseline and  *)
(* after the site has changed.                                             *)
PresentReported ==
  stage \in {"probing", "done"} =>
    \A i \in Numbers \ unanswered :
      LET e == Candidates[i] IN
        /\ e \in allowed \intersect DOMAIN page /\ page[e].status \in Interesting
        /\ baseline.failed \/ Looks(page[e]) # baseline.looks
        => Reported(e)

(* Content discovery reports what stands out, and only that.               *)
FilterExact == MissingNeverReported /\ PresentReported

=============================================================================
