------------------------------- MODULE Crawler -------------------------------
(***************************************************************************)
(* crawl of src/dribik/scanner.py: a breadth-first walk with a visited set *)
(* and a FIFO queue of (url, depth).  One step is one turn of its loop.    *)
(*                                                                         *)
(* What the target serves is site, chosen at the start: for each page what *)
(* http_get makes of it and the references in its body, in their order.    *)
(* Malformed stands for one that urljoin or urlsplit raise at.  The links  *)
(* read from a page are put in the queue in any order and each once: one   *)
(* repeated on the page would only be dropped when its turn comes.  A page *)
(* reached through a redirect counts as the page of the URL asked for, as  *)
(* in the code, which resolves its links against that URL.                 *)
(***************************************************************************)
EXTENDS Integers, Sequences, FiniteSets

CONSTANTS
  Page,        \* URLs
  Malformed,   \* a reference that is none
  Allowed,     \* those that classify(scope, url) finds in scope
  Web,         \* those with the scheme http or https
  Start,       \* start_url
  MaxDepth,    \* max_depth
  MaxPages,    \* max_pages
  Site         \* the sites to crawl in a finite instance

(* What a fetch gives: HTML with a body and status 200; anything else that *)
(* is a result; or the exception that http_get lets through.               *)
Answers == {"html", "other", "raises"}
Sites == [Page -> [kind : Answers, body : Seq(Page \union {Malformed})]]

ASSUME PageAssumption ==
  IsFiniteSet(Page) /\ Start \in Page /\ Allowed \subseteq Page /\ Web \subseteq Page /\ Malformed \notin Page
ASSUME BoundAssumption == MaxDepth \in Nat /\ MaxPages \in Nat
ASSUME SiteAssumption == Site \subseteq Sites

VARIABLES
  site,
  queue,       \* sequence of [url, depth]
  visited,
  results,     \* sequence of [url, depth], one per result in the code's list
  pc

vars == <<site, queue, visited, results, pc>>

Entry == [url : Page, depth : 0..MaxDepth]

Init ==
  /\ site \in Site
  /\ queue = <<[url |-> Start, depth |-> 0]>>
  /\ visited = {} /\ results = <<>>
  /\ pc = "running"

(* Slip: <= in the condition of the loop.                                  *)
GoesOnTooLong == pc = "running" /\ queue # <<>> /\ Cardinality(visited) <= MaxPages

(* The condition of the while loop.                                        *)
GoesOn == pc = "running" /\ queue # <<>> /\ Cardinality(visited) < MaxPages

(* Slip: continue before the entry is taken from the queue.                *)
DropNothing ==
  /\ GoesOn
  /\ Head(queue).url \in visited \/ Head(queue).url \notin Allowed
  /\ UNCHANGED vars

(* The head of the queue was visited since it was put there, or is not in  *)
(* scope.                                                                  *)
Drop ==
  /\ GoesOn
  /\ Head(queue).url \in visited \/ Head(queue).url \notin Allowed
  /\ queue' = Tail(queue)
  /\ UNCHANGED <<site, visited, results, pc>>

(* Slip: the body cut short, as if links were read from its snippet.       *)
ExtractedFromSnippet(u) ==
  LET body == site[u].body IN {body[i] : i \in {k \in DOMAIN body : k = 1 /\ body[1] # Malformed}}

(* The links the parser has collected when it ends or raises: those behind *)
(* a malformed reference are lost, and only the log says so.               *)
Extracted(u) ==
  LET body == site[u].body IN
    {body[i] : i \in {k \in DOMAIN body : \A j \in 1..k : body[j] # Malformed}}

(* The links of e's page to be queued once e.url is among the visited.     *)
NewLinks(e) ==
  IF e.depth < MaxDepth /\ site[e.url].kind = "html"
  THEN {v \in Extracted(e.url) : v \in Web /\ v \notin visited \union {e.url}}
  ELSE {}

(* The sequences that list the set S once.                                 *)
Listings(S) == {s \in [1..Cardinality(S) -> S] : \A x \in S : \E i \in 1..Cardinality(S) : s[i] = x}

(* Slips: no visited test; the links put in front, as for a stack.         *)
FetchAgain ==
  /\ GoesOn
  /\ LET e == Head(queue) IN
       /\ e.url \in Allowed /\ site[e.url].kind # "raises"
       /\ visited' = visited \union {e.url}
       /\ results' = Append(results, e)
       /\ \E s \in Listings(NewLinks(e)) :
            queue' = Tail(queue) \o [i \in DOMAIN s |-> [url |-> s[i], depth |-> e.depth + 1]]
  /\ UNCHANGED <<site, pc>>

FetchDepthFirst ==
  /\ GoesOn
  /\ LET e == Head(queue) IN
       /\ e.url \in Allowed \ visited /\ site[e.url].kind # "raises"
       /\ visited' = visited \union {e.url}
       /\ results' = Append(results, e)
       /\ \E s \in Listings(NewLinks(e)) :
            queue' = [i \in DOMAIN s |-> [url |-> s[i], depth |-> e.depth + 1]] \o Tail(queue)
  /\ UNCHANGED <<site, pc>>

Fetch ==
  /\ GoesOn
  /\ LET e == Head(queue) IN
       /\ e.url \in Allowed \ visited /\ site[e.url].kind # "raises"
       /\ visited' = visited \union {e.url}
       /\ results' = Append(results, e)
       /\ \E s \in Listings(NewLinks(e)) :
            queue' = Tail(queue) \o [i \in DOMAIN s |-> [url |-> s[i], depth |-> e.depth + 1]]
  /\ UNCHANGED <<site, pc>>

(* http_get raises (see HttpClient!ErrorBodyFails): crawl has no handler,  *)
(* and what it collected is lost to its caller.                            *)
Raise ==
  /\ GoesOn
  /\ LET e == Head(queue) IN
       /\ e.url \in Allowed \ visited /\ site[e.url].kind = "raises"
       /\ visited' = visited \union {e.url}
  /\ results' = <<>> /\ pc' = "failed"
  /\ UNCHANGED <<site, queue>>

Finish ==
  /\ pc = "running" /\ ~GoesOn
  /\ pc' = "done"
  /\ UNCHANGED <<site, queue, visited, results>>

Next == Drop \/ Fetch \/ Raise \/ Finish

(* The loop runs in one thread, and http_get returns (HttpClient!CallsEnd).*)
Spec == Init /\ [][Next]_vars /\ WF_vars(Next)
-----------------------------------------------------------------------------
(* Types of the crawler's state.                                           *)
TypeOK ==
  /\ site \in Sites
  /\ queue \in Seq(Entry) /\ results \in Seq(Entry)
  /\ visited \subseteq Page
  /\ pc \in {"running", "done", "failed"}

(* The list returned holds each visited page exactly once, all of them in  *)
(* scope, and never more than max_pages.                                   *)
ResultsExact ==
  pc # "failed" =>
    /\ {results[i].url : i \in DOMAIN results} = visited
    /\ \A i, j \in DOMAIN results : results[i].url = results[j].url => i = j
    /\ visited \subseteq Allowed
    /\ Len(results) <= MaxPages

(* Breadth first: what waits is sorted by depth, spans two levels at most, *)
(* and lies no higher than what was fetched.                               *)
BreadthFirst ==
  /\ \A i, j \in DOMAIN queue :
       i < j => queue[i].depth <= queue[j].depth /\ queue[j].depth <= queue[i].depth + 1
  /\ \A i \in DOMAIN results, j \in DOMAIN queue :
       results[i].depth <= queue[j].depth

(* Reference: for each n the allowed pages at most n links from the start, *)
(* where follow says which links lead from a page.                         *)
Near(follow) ==
  LET W[n \in 0..MaxDepth] ==
        IF n = 0 THEN {Start} \intersect Allowed
        ELSE W[n - 1] \union {v \in Allowed \intersect Web : \E u \in W[n - 1] : v \in follow[u]}
  IN W

Read == [u \in Page |-> IF site[u].kind = "html" THEN Extracted(u) ELSE {}]
Linked ==
  [u \in Page |->
     IF site[u].kind = "html" THEN {site[u].body[i] : i \in DOMAIN site[u].body} ELSE {}]

Within == Near(Read)

(* Each page is fetched at its distance from the start, and a crawl with   *)
(* room left returns exactly the pages within max_depth links: the order   *)
(* of the links and the duplicates in the queue never change that.         *)
DepthIsDistance ==
  /\ \A i \in DOMAIN results :
       LET d == results[i].depth IN
         results[i].url \in Within[d] /\ (d > 0 => results[i].url \notin Within[d - 1])
  /\ pc = "done" /\ Cardinality(visited) < MaxPages => visited = Within[MaxDepth]

(* What the docstring of crawl promises, links far down a body included,   *)
(* with the exception it does not mention: a crawl with room left returns  *)
(* all pages that max_depth links of whole bodies lead to, unless one of   *)
(* the pages it read links from holds a malformed reference.               *)
CompleteUnlessMalformed ==
  /\ pc = "done" /\ Cardinality(visited) < MaxPages
  /\ \A i \in DOMAIN results :
       results[i].depth < MaxDepth => Malformed \notin Linked[results[i].url]
  => visited = Near(Linked)[MaxDepth]

(* Cycles of links end: every crawl terminates.                            *)
Terminates == <>(pc # "running")

(* The crawler implements the exploration.                                 *)
Abstract == INSTANCE Exploration WITH seen <- visited
ImplementsExploration == Abstract!Spec
=============================================================================
