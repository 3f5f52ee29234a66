-------------------------------- MODULE Sitemap --------------------------------
(***************************************************************************)
(* recon robots (src/dribik/recon.py and cli.py): robots.txt is fetched,   *)
(* then every sitemap it names, and every sitemap those name, depth first  *)
(* by recursion.  A sitemap that is not in scope is not fetched, a fetch   *)
(* that fails gives nothing, and of the URLs found only those in scope are *)
(* kept.  What a sitemap says is fixed; whether a fetch works is not.      *)
(*                                                                         *)
(* A call of fetch_sitemap is a frame: the sitemaps it still has to call,  *)
(* and the URLs it adds when they are through.  The lowest frame is the    *)
(* loop of the command over the sitemaps of robots.txt.  A recursion that  *)
(* gets too deep for Python runs into its limit where the stack is highest,*)
(* inside http_get, which takes the exception for a failed request.        *)
(***************************************************************************)
EXTENDS Naturals, Sequences

CONSTANTS
  Map,           \* URLs of sitemaps
  Page,          \* URLs of pages
  Allowed,       \* URLs of either kind that the scope allows
  Robots,        \* the sitemaps that robots.txt may name: sequences
  Children,      \* what each sitemap names: a choice of functions
  Locs,          \* the pages each sitemap lists
  DepthLimit     \* frames Python allows

ASSUME SitemapAssumption ==
  /\ Robots \subseteq Seq(Map) /\ Children \subseteq [Map -> Seq(Map)]
  /\ Locs \in [Map -> Seq(Page)] /\ DepthLimit \in Nat

VARIABLES
  child,         \* one of Children
  frames,        \* the stack, the innermost call last
  state,         \* "start", "run" or "done"
  named,         \* the sitemaps of robots.txt
  results,       \* the URLs returned so far, in order
  fetched,       \* sitemaps requested
  failed         \* whether a fetch failed

robotVars == <<child, frames, state, named, results, fetched, failed>>

RobotsInit ==
  /\ child \in Children
  /\ frames = <<>> /\ state = "start" /\ named = <<>>
  /\ results = <<>> /\ fetched = {} /\ failed = FALSE

(* The URLs of a list that are in scope, in their order.                   *)
Kept(urls) ==
  LET kept[n \in 0..Len(urls)] ==
        IF n = 0 THEN <<>>
        ELSE IF urls[n] \in Allowed THEN Append(kept[n - 1], urls[n]) ELSE kept[n - 1]
  IN  kept[Len(urls)]

(* fetch_robots: an error gives an empty list of sitemaps.                 *)
FetchRobots ==
  /\ state = "start"
  /\ \/ named' \in Robots /\ failed' = failed
     \/ named' = <<>> /\ failed' = TRUE
  /\ frames' = <<[todo |-> named', adds |-> <<>>]>> /\ state' = "run"
  /\ UNCHANGED <<child, results, fetched>>

Running == state = "run" /\ frames # <<>>
Top == frames[Len(frames)]
Calls(m) == Running /\ Top.todo # <<>> /\ Head(Top.todo) = m
Popped == [frames EXCEPT ![Len(frames)].todo = Tail(@)]

(* classify(scope, sitemap_url) != "allow": return [].                     *)
Refuse(m) ==
  /\ Calls(m) /\ m \notin Allowed
  /\ frames' = Popped
  /\ UNCHANGED <<child, named, state, results, fetched, failed>>

(* An error, a status from 400 up, or a body that is no XML.               *)
FetchFails(m) ==
  /\ Calls(m) /\ m \in Allowed /\ Len(frames) <= DepthLimit
  /\ frames' = Popped
  /\ fetched' = fetched \union {m} /\ failed' = TRUE
  /\ UNCHANGED <<child, named, state, results>>

(* Slips: pages are kept without a look at the scope; a sitemap is fetched *)
(* once only; nothing ends the recursion.                                  *)
FetchKeepsAll(m) ==
  /\ Calls(m) /\ m \in Allowed /\ Len(frames) <= DepthLimit
  /\ frames' = Append(Popped, [todo |-> child[m], adds |-> Locs[m]])
  /\ fetched' = fetched \union {m}
  /\ UNCHANGED <<child, named, state, results, failed>>

FetchOnce(m) ==
  /\ Calls(m) /\ m \in Allowed /\ Len(frames) <= DepthLimit
  /\ frames' = IF m \in fetched THEN Popped
               ELSE Append(Popped, [todo |-> child[m], adds |-> Kept(Locs[m])])
  /\ fetched' = fetched \union {m}
  /\ UNCHANGED <<child, named, state, results, failed>>

TooDeepRetried(m) ==
  /\ Calls(m) /\ m \in Allowed /\ Len(frames) > DepthLimit
  /\ failed' = TRUE
  /\ UNCHANGED <<child, named, state, results, fetched, frames>>

Fetch(m) ==
  /\ Calls(m) /\ m \in Allowed /\ Len(frames) <= DepthLimit
  /\ frames' = Append(Popped, [todo |-> child[m], adds |-> Kept(Locs[m])])
  /\ fetched' = fetched \union {m}
  /\ UNCHANGED <<child, named, state, results, failed>>

(* The recursion limit: the fetch fails before anything is sent.           *)
TooDeep(m) ==
  /\ Calls(m) /\ m \in Allowed /\ Len(frames) > DepthLimit
  /\ frames' = Popped /\ failed' = TRUE
  /\ UNCHANGED <<child, named, state, results, fetched>>

(* A call that has no sitemap left to call adds its own URLs and returns.  *)
Return ==
  /\ Running /\ Top.todo = <<>>
  /\ results' = results \o Top.adds
  /\ frames' = SubSeq(frames, 1, Len(frames) - 1)
  /\ state' = IF Len(frames) = 1 THEN "done" ELSE state
  /\ UNCHANGED <<child, named, fetched, failed>>

RobotsNext ==
  \/ FetchRobots
  \/ \E m \in Map : Refuse(m) \/ FetchFails(m) \/ Fetch(m) \/ TooDeep(m)
  \/ Return

RobotsSpec == RobotsInit /\ [][RobotsNext]_robotVars /\ WF_robotVars(RobotsNext)
-----------------------------------------------------------------------------
(* Wherever robots.txt and the sitemaps lead, every sitemap requested and  *)
(* every URL returned is in scope.                                         *)
LinksStayInScope ==
  fetched \subseteq Allowed /\ \A i \in DOMAIN results : results[i] \in Allowed

(* What a sitemap lists, by definition, d levels down: the listings of the *)
(* sitemaps it names, then the pages of its own, as far as in scope.       *)
Concat(seqs) ==
  LET flat[n \in 0..Len(seqs)] == IF n = 0 THEN <<>> ELSE flat[n - 1] \o seqs[n]
  IN  flat[Len(seqs)]
Listing[d \in 0..DepthLimit] ==
  [m \in Map |->
     IF d = 0 \/ m \notin Allowed THEN <<>>
     ELSE Concat([i \in DOMAIN child[m] |-> Listing[d - 1][child[m][i]]]) \o Kept(Locs[m])]

(* When no fetch failed the command returns exactly what is listed, in the *)
(* order of the documents, a page as often as it is listed.                *)
ListingComplete ==
  state = "done" /\ ~failed =>
    results = Concat([i \in DOMAIN named |-> Listing[DepthLimit][named[i]]])

(* A command that has begun ends, also when sitemaps name each other in a  *)
(* circle.                                                                 *)
RobotsEnds == state = "run" ~> state = "done"

(* recon.py:134: sitemap indexes are followed one level deep, so besides   *)
(* the command there are never more than two calls under way.              *)
OneLevelDeep == Len(frames) <= 3
=============================================================================
