----------------------------- MODULE CrawlerProofs -----------------------------
(***************************************************************************)
(* Proofs about the crawler, for any finite web, any site on it, any scope *)
(* and any limits, page loops included.                                    *)
(***************************************************************************)
EXTENDS Crawler, SequenceTheorems, FiniteSetTheorems, WellFoundedInduction, TLAPS

(* The page of every entry that waits was linked from a page that was read *)
(* or is the start.                                                        *)
Waiting == \A i \in DOMAIN queue : Abstract!Linked(queue[i].url)

(* The loop ends with an empty queue or with no room left.                 *)
Ended == pc = "done" => queue = <<>> \/ Cardinality(visited) >= MaxPages

Counted == pc # "failed" => Len(results) = Cardinality(visited)

(* v was fetched, or waits, no deeper than d.                              *)
Covered(v, d) ==
  \/ \E j \in DOMAIN results : results[j].url = v /\ results[j].depth <= d
  \/ \E j \in DOMAIN queue : queue[j].url = v /\ queue[j].depth <= d

(* While the crawl runs, a link read from a page that was not followed yet *)
(* is still in the queue.                                                  *)
NothingLost ==
  pc # "failed" =>
    \A i \in DOMAIN results :
      (results[i].depth < MaxDepth /\ site[results[i].url].kind = "html") =>
        \A v \in Extracted(results[i].url) \intersect Allowed \intersect Web :
          Covered(v, results[i].depth + 1)

(* The strengthening of ResultsExact, BreadthFirst and NothingLost: that   *)
(* an entry may be dropped because its page was visited depends on the     *)
(* order of the queue, since a page visited deeper down would not do.      *)
CrawlInv ==
  TypeOK /\ Waiting /\ Ended /\ Counted /\ ResultsExact /\ BreadthFirst /\ NothingLost

(* What the entries of a typed queue or result list hold.                  *)
LEMMA EntryTyped ==
  ASSUME NEW s \in Seq(Entry), NEW i \in DOMAIN s
  PROVE  s[i] \in Entry /\ s[i].url \in Page /\ s[i].depth \in 0..MaxDepth
<1>1. s[i] \in Entry
  BY ElementOfSeq, LenProperties
<1> QED BY <1>1 DEF Entry

(* The head and the tail of a queue.                                       *)
LEMMA QueueParts ==
  ASSUME NEW q \in Seq(Entry), q # <<>>
  PROVE  /\ Head(q) \in Entry /\ Head(q) = q[1] /\ 1 \in DOMAIN q
         /\ Tail(q) \in Seq(Entry) /\ Len(q) \in Nat \ {0} /\ Len(Tail(q)) = Len(q) - 1
         /\ \A i \in DOMAIN Tail(q) : i + 1 \in DOMAIN q /\ Tail(q)[i] = q[i + 1]
<1>1. Len(q) \in Nat \ {0} /\ Head(q) = q[1] /\ Len(Tail(q)) = Len(q) - 1 /\ Tail(q) \in Seq(Entry)
  BY EmptySeq, HeadTailProperties
<1>2. \A i \in 1..Len(Tail(q)) : Tail(q)[i] = q[i + 1]
  BY <1>1
<1>3. DOMAIN q = 1..Len(q) /\ DOMAIN Tail(q) = 1..Len(Tail(q))
  BY <1>1, LenProperties
<1> QED BY <1>1, <1>2, <1>3, EntryTyped

(* Two queues joined.                                                      *)
LEMMA Joined ==
  ASSUME NEW q \in Seq(Entry), NEW r \in Seq(Entry)
  PROVE  /\ q \o r \in Seq(Entry) /\ Len(q \o r) = Len(q) + Len(r)
         /\ DOMAIN (q \o r) = 1..Len(q \o r)
         /\ \A i \in 1..Len(q) : (q \o r)[i] = q[i]
         /\ \A i \in (Len(q) + 1)..Len(q \o r) : (q \o r)[i] = r[i - Len(q)]
<1>1. Len(q) \in Nat /\ Len(r) \in Nat
  BY LenProperties
<1>2. /\ q \o r \in Seq(Entry) /\ Len(q \o r) = Len(q) + Len(r)
      /\ \A i \in 1..(Len(q) + Len(r)) : (q \o r)[i] = IF i <= Len(q) THEN q[i] ELSE r[i - Len(q)]
  BY ConcatProperties
<1> QED BY <1>1, <1>2, LenProperties

(* Links that NewLinks returns, and a listing of them as queue entries.    *)
LEMMA ListingTyped ==
  ASSUME TypeOK, NEW e \in Entry, NEW s \in Listings(NewLinks(e))
  PROVE  /\ [i \in DOMAIN s |-> [url |-> s[i], depth |-> e.depth + 1]] \in Seq(Entry)
         /\ Len([i \in DOMAIN s |-> [url |-> s[i], depth |-> e.depth + 1]]) = Len(s)
         /\ s \in Seq(NewLinks(e)) /\ DOMAIN s = 1..Len(s)
<1>1. NewLinks(e) \subseteq Page /\ IsFiniteSet(NewLinks(e))
  <2>1. NewLinks(e) \subseteq Page
    BY PageAssumption DEF NewLinks
  <2> QED BY <2>1, PageAssumption, FS_Subset
<1>2. Cardinality(NewLinks(e)) \in Nat
  BY <1>1, FS_CardinalityType
<1>3. s \in Seq(NewLinks(e)) /\ DOMAIN s = 1..Len(s) /\ Len(s) \in Nat
  BY <1>2 DEF Listings
<1>4. ASSUME NEW i \in DOMAIN s PROVE [url |-> s[i], depth |-> e.depth + 1] \in Entry
  <2>1. s[i] \in NewLinks(e)
    BY <1>4, <1>2 DEF Listings
  <2>2. e.depth < MaxDepth
    BY <2>1 DEF NewLinks
  <2> QED BY <1>1, <2>1, <2>2, BoundAssumption DEF Entry
<1> QED BY <1>3, <1>4

(* The queue after a fetch: what waited behind the head keeps its order,   *)
(* and the new links follow, one level below the page they are on.         *)
LEMMA FetchedQueue ==
  ASSUME TypeOK, queue # <<>>, NEW s \in Listings(NewLinks(Head(queue))),
         queue' = Tail(queue) \o
                    [i \in DOMAIN s |-> [url |-> s[i], depth |-> Head(queue).depth + 1]]
  PROVE  /\ queue' \in Seq(Entry)
         /\ \A i \in DOMAIN queue' :
              \/ i + 1 \in DOMAIN queue /\ queue'[i] = queue[i + 1]
              \/ /\ \A j \in DOMAIN queue' : j > i => j + 1 \notin DOMAIN queue
                 /\ i + 1 \notin DOMAIN queue
                 /\ queue'[i].url \in NewLinks(Head(queue))
                 /\ queue'[i].depth = Head(queue).depth + 1
         /\ \A j \in DOMAIN queue : j # 1 => j - 1 \in DOMAIN queue' /\ queue'[j - 1] = queue[j]
         /\ \A v \in NewLinks(Head(queue)) :
              \E i \in DOMAIN queue' : queue'[i].url = v /\ queue'[i].depth = Head(queue).depth + 1
<1> DEFINE e == Head(queue)
           new == [i \in DOMAIN s |-> [url |-> s[i], depth |-> e.depth + 1]]
<1>1. /\ e \in Entry /\ Tail(queue) \in Seq(Entry) /\ Len(Tail(queue)) = Len(queue) - 1
      /\ Len(queue) \in Nat \ {0} /\ DOMAIN queue = 1..Len(queue)
      /\ \A i \in DOMAIN Tail(queue) : i + 1 \in DOMAIN queue /\ Tail(queue)[i] = queue[i + 1]
  BY QueueParts, LenProperties DEF TypeOK
<1>2. /\ new \in Seq(Entry) /\ Len(new) = Len(s) /\ s \in Seq(NewLinks(e)) /\ DOMAIN s = 1..Len(s)
      /\ Len(s) \in Nat
  BY <1>1, ListingTyped, LenProperties
<1> HIDE DEF e
<1>3. /\ queue' = Tail(queue) \o new /\ queue' \in Seq(Entry)
      /\ Len(queue') = Len(Tail(queue)) + Len(new) /\ DOMAIN queue' = 1..Len(queue')
      /\ \A i \in 1..Len(Tail(queue)) : queue'[i] = Tail(queue)[i]
      /\ \A i \in (Len(Tail(queue)) + 1)..Len(queue') : queue'[i] = new[i - Len(Tail(queue))]
  <2>1. queue' = Tail(queue) \o new
    BY DEF e
  <2> HIDE DEF new
  <2>2. Tail(queue) \in Seq(Entry) /\ new \in Seq(Entry)
    BY <1>1, <1>2
  <2> QED BY ONLY <2>1, <2>2, Joined
<1>4. \A k \in 1..Len(s) : new[k].url = s[k] /\ new[k].depth = e.depth + 1 /\ s[k] \in NewLinks(e)
  BY <1>2, ElementOfSeq
<1> HIDE DEF new
<1>5. ASSUME NEW i \in DOMAIN queue'
      PROVE  \/ i + 1 \in DOMAIN queue /\ queue'[i] = queue[i + 1]
             \/ /\ \A j \in DOMAIN queue' : j > i => j + 1 \notin DOMAIN queue
                /\ i + 1 \notin DOMAIN queue
                /\ queue'[i].url \in NewLinks(e) /\ queue'[i].depth = e.depth + 1
  <2>1. CASE i <= Len(Tail(queue))
    <3>1. i \in DOMAIN Tail(queue) /\ i \in 1..Len(Tail(queue))
      BY <1>1, <1>3, <2>1, LenProperties
    <3> QED BY <1>1, <1>3, <3>1
  <2>2. CASE i > Len(Tail(queue))
    <3>1. i \in (Len(Tail(queue)) + 1)..Len(queue') /\ i - Len(Tail(queue)) \in 1..Len(s)
      BY <1>1, <1>2, <1>3, <2>2
    <3>2. queue'[i].url \in NewLinks(e) /\ queue'[i].depth = e.depth + 1
      BY <1>3, <1>4, <3>1
    <3> QED BY <1>1, <1>3, <2>2, <3>2
  <2> QED BY <1>1, <1>3, <2>1, <2>2
<1>6. ASSUME NEW j \in DOMAIN queue, j # 1
      PROVE  j - 1 \in DOMAIN queue' /\ queue'[j - 1] = queue[j]
  <2>1. j - 1 \in 1..Len(Tail(queue)) /\ (j - 1) + 1 = j
    BY <1>1, <1>6
  <2>2. j - 1 \in DOMAIN Tail(queue)
    BY <1>1, <2>1, LenProperties
  <2> QED BY <1>1, <1>2, <1>3, <2>1, <2>2
<1>7. ASSUME NEW v \in NewLinks(e)
      PROVE  \E i \in DOMAIN queue' : queue'[i].url = v /\ queue'[i].depth = e.depth + 1
  <2>1. PICK k \in 1..Cardinality(NewLinks(e)) : s[k] = v
    BY DEF Listings, e
  <2>2. k \in 1..Len(s)
    BY <1>2, <2>1 DEF Listings, e
  <2>3. Len(Tail(queue)) + k \in (Len(Tail(queue)) + 1)..Len(queue')
    BY <1>1, <1>2, <1>3, <2>2
  <2>4. queue'[Len(Tail(queue)) + k] = new[k] /\ Len(Tail(queue)) + k \in DOMAIN queue'
    BY <1>1, <1>2, <1>3, <2>2, <2>3
  <2> QED BY <1>4, <2>1, <2>2, <2>4
<1> QED BY <1>3, <1>5, <1>6, <1>7 DEF e

-----------------------------------------------------------------------------
(* The invariant holds when only the start page waits.                     *)
LEMMA CrawlInit == Init => CrawlInv
<1> SUFFICES ASSUME Init PROVE CrawlInv
  OBVIOUS
<1>1. queue \in Seq(Entry) /\ Len(queue) = 1 /\ queue[1] = [url |-> Start, depth |-> 0]
  BY PageAssumption, BoundAssumption DEF Init, Entry
<1>2. results \in Seq(Entry) /\ Len(results) = 0 /\ DOMAIN results = {} /\ DOMAIN queue = {1}
  BY <1>1, LenProperties DEF Init
<1>3. Cardinality(visited) = 0
  BY FS_EmptySet DEF Init
<1>4. TypeOK
  BY <1>1, <1>2, SiteAssumption DEF Init, TypeOK
<1>5. Waiting
  BY <1>1, <1>2 DEF Waiting, Abstract!Linked
<1> QED BY <1>1, <1>2, <1>3, <1>4, <1>5, BoundAssumption
     DEF Init, CrawlInv, Ended, Counted, ResultsExact, BreadthFirst, NothingLost

(* The visited pages can be counted, and how a page more counts.           *)
LEMMA VisitedFinite ==
  ASSUME TypeOK
  PROVE  /\ IsFiniteSet(visited) /\ Cardinality(visited) \in Nat
         /\ \A u : u \notin visited => Cardinality(visited \union {u}) = Cardinality(visited) + 1
<1>1. IsFiniteSet(visited)
  BY PageAssumption, FS_Subset DEF TypeOK
<1> QED BY <1>1, FS_CardinalityType, FS_AddElement

(* The results after a fetch.                                              *)
LEMMA FetchedResults ==
  ASSUME TypeOK, NEW e \in Entry, results' = Append(results, e)
  PROVE  /\ results' \in Seq(Entry) /\ Len(results') = Len(results) + 1 /\ Len(results) \in Nat
         /\ DOMAIN results' = DOMAIN results \union {Len(results) + 1}
         /\ Len(results) + 1 \notin DOMAIN results
         /\ results'[Len(results) + 1] = e
         /\ \A i \in DOMAIN results : results'[i] = results[i]
  BY DEF TypeOK

(* Dropping the head of the queue loses nothing: it was visited or denied. *)
LEMMA DropStep == CrawlInv /\ Drop => CrawlInv'
<1> SUFFICES ASSUME CrawlInv, Drop PROVE CrawlInv'
  OBVIOUS
<1> USE DEF CrawlInv
<1>1. /\ queue # <<>> /\ queue' = Tail(queue) /\ pc = "running"
      /\ Head(queue).url \in visited \/ Head(queue).url \notin Allowed
      /\ UNCHANGED <<site, visited, results, pc>>
  BY DEF Drop, GoesOn
<1>2. /\ Head(queue) = queue[1] /\ 1 \in DOMAIN queue /\ queue' \in Seq(Entry)
      /\ Len(queue) \in Nat \ {0} /\ DOMAIN queue = 1..Len(queue) /\ DOMAIN queue' = 1..(Len(queue) - 1)
      /\ \A i \in DOMAIN queue' : i + 1 \in DOMAIN queue /\ queue'[i] = queue[i + 1]
  BY <1>1, QueueParts, LenProperties DEF TypeOK
<1>3. TypeOK' /\ Ended' /\ Counted' /\ ResultsExact'
  BY <1>1, <1>2 DEF TypeOK, Ended, Counted, ResultsExact
<1>4. Waiting'
  BY <1>1, <1>2 DEF Waiting, Abstract!Linked
<1>5. BreadthFirst'
  BY <1>1, <1>2 DEF BreadthFirst
<1>6. ASSUME NEW v \in Allowed, NEW d \in Nat, Covered(v, d) PROVE Covered(v, d)'
  <2>1. CASE \E j \in DOMAIN results : results[j].url = v /\ results[j].depth <= d
    BY <1>1, <2>1 DEF Covered
  <2>2. ASSUME NEW j \in DOMAIN queue, queue[j].url = v, queue[j].depth <= d PROVE Covered(v, d)'
    <3>1. CASE j = 1
      <4>1. v \in visited
        BY <1>1, <1>2, <2>2, <3>1
      <4>2. PICK k \in DOMAIN results : results[k].url = v
        BY <1>1, <4>1 DEF ResultsExact
      <4>3. results[k].depth <= queue[1].depth
        BY <1>2 DEF BreadthFirst
      <4>4. results[k].depth \in Nat /\ queue[1].depth \in Nat
        BY <1>2, EntryTyped, BoundAssumption DEF TypeOK
      <4> QED BY <1>1, <2>2, <3>1, <4>2, <4>3, <4>4 DEF Covered
    <3>2. CASE j # 1
      <4>1. j - 1 \in DOMAIN queue' /\ (j - 1) + 1 = j
        BY <1>2, <3>2
      <4>2. queue'[j - 1] = queue[j]
        BY <1>2, <4>1
      <4> QED BY <2>2, <4>1, <4>2 DEF Covered
    <3> QED BY <3>1, <3>2
  <2> QED BY <1>6, <2>1, <2>2 DEF Covered
<1>7. NothingLost'
  <2>1. \A i \in DOMAIN results : results[i].depth + 1 \in Nat
    BY EntryTyped, BoundAssumption DEF TypeOK
  <2> SUFFICES ASSUME NEW i \in DOMAIN results, results[i].depth < MaxDepth,
                      site[results[i].url].kind = "html",
                      NEW v \in Extracted(results[i].url) \intersect Allowed \intersect Web,
                      NEW d, d = results[i].depth + 1
               PROVE  Covered(v, d)'
    BY <1>1 DEF NothingLost, Covered, Extracted
  <2> QED BY <1>1, <1>6, <2>1 DEF NothingLost
<1> QED BY <1>3, <1>4, <1>5, <1>7

(* Fetching the head keeps the queue sorted and every link covered.        *)
LEMMA FetchStep == CrawlInv /\ Fetch => CrawlInv'
<1> SUFFICES ASSUME CrawlInv, Fetch PROVE CrawlInv'
  OBVIOUS
<1> USE DEF CrawlInv
<1> DEFINE e == Head(queue)
<1>1. /\ queue # <<>> /\ pc = "running" /\ Cardinality(visited) < MaxPages
      /\ e.url \in Allowed \ visited
      /\ visited' = visited \union {e.url} /\ results' = Append(results, e)
      /\ UNCHANGED <<site, pc>>
  BY DEF Fetch, GoesOn
<1>2. PICK s \in Listings(NewLinks(e)) :
        queue' = Tail(queue) \o [i \in DOMAIN s |-> [url |-> s[i], depth |-> e.depth + 1]]
  BY DEF Fetch
<1>3. e \in Entry /\ e = queue[1] /\ 1 \in DOMAIN queue /\ e.url \in Page /\ e.depth \in 0..MaxDepth
  BY <1>1, QueueParts, EntryTyped DEF TypeOK
<1>4. /\ queue' \in Seq(Entry)
      /\ \A i \in DOMAIN queue' :
           \/ i + 1 \in DOMAIN queue /\ queue'[i] = queue[i + 1]
           \/ /\ \A j \in DOMAIN queue' : j > i => j + 1 \notin DOMAIN queue
              /\ i + 1 \notin DOMAIN queue
              /\ queue'[i].url \in NewLinks(e) /\ queue'[i].depth = e.depth + 1
      /\ \A j \in DOMAIN queue : j # 1 => j - 1 \in DOMAIN queue' /\ queue'[j - 1] = queue[j]
      /\ \A v \in NewLinks(e) : \E i \in DOMAIN queue' : queue'[i].url = v /\ queue'[i].depth = e.depth + 1
  BY <1>1, <1>2, FetchedQueue
<1> HIDE DEF e
<1>5. /\ results' \in Seq(Entry) /\ Len(results') = Len(results) + 1 /\ Len(results) \in Nat
      /\ DOMAIN results' = DOMAIN results \union {Len(results) + 1}
      /\ Len(results) + 1 \notin DOMAIN results
      /\ results'[Len(results) + 1] = e
      /\ \A i \in DOMAIN results : results'[i] = results[i]
  BY <1>1, <1>3, FetchedResults
<1>6. TypeOK' /\ Ended'
  BY <1>1, <1>3, <1>4, <1>5 DEF TypeOK, Ended
<1>7. Counted' /\ Len(results') <= MaxPages
  BY <1>1, <1>5, VisitedFinite, BoundAssumption DEF Counted
<1>8. ResultsExact'
  <2>1. {results'[i].url : i \in DOMAIN results'} = visited'
    BY <1>1, <1>5 DEF ResultsExact
  <2>2. \A i \in DOMAIN results : results[i].url \in visited
    BY <1>1 DEF ResultsExact
  <2>3. \A i, j \in DOMAIN results' : results'[i].url = results'[j].url => i = j
    BY <1>1, <1>5, <2>2 DEF ResultsExact
  <2> QED BY <1>1, <1>7, <2>1, <2>3 DEF ResultsExact
<1>9. Waiting'
  <2> SUFFICES ASSUME NEW i \in DOMAIN queue', NEW u, u = queue'[i].url
               PROVE  Abstract!Linked(u)'
    BY DEF Waiting, Abstract!Linked
  <2>1. CASE i + 1 \in DOMAIN queue /\ queue'[i] = queue[i + 1]
    BY <1>1, <2>1 DEF Waiting, Abstract!Linked
  <2>2. CASE u \in NewLinks(e)
    <3>1. site[e.url].kind = "html" /\ u \in Extracted(e.url)
      BY <2>2 DEF NewLinks
    <3>2. \E k \in DOMAIN site[e.url].body : site[e.url].body[k] = u
      BY <3>1 DEF Extracted
    <3> QED BY <1>1, <3>1, <3>2 DEF Abstract!Linked
  <2> QED BY <1>4, <2>1, <2>2
<1>10. BreadthFirst'
  <2>1. \A i \in DOMAIN queue : queue[i].depth \in Nat /\ queue[i].depth >= e.depth /\ queue[i].depth <= e.depth + 1
    <3>1. ASSUME NEW i \in DOMAIN queue
          PROVE queue[i].depth \in Nat /\ queue[i].depth >= e.depth /\ queue[i].depth <= e.depth + 1
      <4>1. queue[i].depth \in Nat /\ e.depth \in Nat /\ i \in Nat /\ i >= 1
        BY <1>3, EntryTyped, BoundAssumption, LenProperties DEF TypeOK
      <4> QED BY <1>3, <4>1 DEF BreadthFirst
    <3> QED BY <3>1
  <2>2. \A i \in DOMAIN queue' :
          queue'[i].depth \in Nat /\ queue'[i].depth >= e.depth /\ queue'[i].depth <= e.depth + 1
    BY <1>3, <1>4, <2>1
  <2>3. ASSUME NEW i \in DOMAIN queue', NEW j \in DOMAIN queue', i < j
        PROVE  queue'[i].depth <= queue'[j].depth /\ queue'[j].depth <= queue'[i].depth + 1
    <3>1. i \in Nat /\ j \in Nat /\ e.depth \in Nat
      BY <1>3, <1>4, LenProperties
    <3>2. CASE i + 1 \in DOMAIN queue /\ queue'[i] = queue[i + 1] /\ j + 1 \in DOMAIN queue /\ queue'[j] = queue[j + 1]
      BY <2>3, <3>1, <3>2 DEF BreadthFirst
    <3>3. CASE queue'[j].depth = e.depth + 1
      BY <2>2, <3>1, <3>3
    <3>4. CASE \A k \in DOMAIN queue' : k > i => k + 1 \notin DOMAIN queue
      BY <1>4, <2>3, <3>1, <3>3, <3>4
    <3> QED BY <1>4, <3>2, <3>3, <3>4
  <2>4. ASSUME NEW i \in DOMAIN results', NEW j \in DOMAIN queue'
        PROVE  results'[i].depth <= queue'[j].depth
    <3>1. results'[i].depth \in Nat /\ results'[i].depth <= e.depth /\ e.depth \in Nat
      BY <1>3, <1>5, EntryTyped, BoundAssumption DEF TypeOK, BreadthFirst
    <3> QED BY <2>2, <3>1
  <2> QED BY <2>3, <2>4 DEF BreadthFirst
<1>11. ASSUME NEW v, NEW d \in Nat, Covered(v, d) PROVE Covered(v, d)'
  <2>1. ASSUME NEW j \in DOMAIN results, results[j].url = v, results[j].depth <= d PROVE Covered(v, d)'
    BY <1>5, <2>1 DEF Covered
  <2>2. ASSUME NEW j \in DOMAIN queue, queue[j].url = v, queue[j].depth <= d PROVE Covered(v, d)'
    <3>1. CASE j = 1
      BY <1>3, <1>5, <2>2, <3>1 DEF Covered
    <3>2. CASE j # 1
      <4>1. j - 1 \in DOMAIN queue' /\ queue'[j - 1] = queue[j]
        BY <1>4, <3>2
      <4> QED BY <2>2, <4>1 DEF Covered
    <3> QED BY <3>1, <3>2
  <2> QED BY <1>11, <2>1, <2>2 DEF Covered
<1>12. ASSUME NEW v \in Extracted(e.url) \intersect Allowed \intersect Web,
              e.depth < MaxDepth, site[e.url].kind = "html", NEW d \in Nat, d = e.depth + 1
       PROVE  Covered(v, d)'
  <2>1. CASE v \in NewLinks(e)
    <3>1. PICK i \in DOMAIN queue' : queue'[i].url = v /\ queue'[i].depth = e.depth + 1
      BY <1>4, <2>1
    <3> QED BY <1>3, <1>12, <3>1 DEF Covered
  <2>2. CASE v = e.url
    <3>1. Len(results) + 1 \in DOMAIN results' /\ results'[Len(results) + 1] = e /\ e.depth <= d
      BY <1>3, <1>5, <1>12
    <3> QED BY <2>2, <3>1 DEF Covered
  <2>3. CASE v \in visited
    <3>1. PICK k \in DOMAIN results : results[k].url = v
      BY <1>1, <2>3 DEF ResultsExact
    <3>2. results[k].depth <= e.depth /\ results[k].depth \in Nat
      BY <1>3, EntryTyped DEF BreadthFirst, TypeOK
    <3>3. k \in DOMAIN results' /\ results'[k].url = v /\ results'[k].depth <= d
      BY <1>3, <1>5, <1>12, <3>1, <3>2
    <3> QED BY <3>3 DEF Covered
  <2> QED BY <1>12, <2>1, <2>2, <2>3 DEF NewLinks
<1>13. NothingLost'
  <2> SUFFICES ASSUME NEW i \in DOMAIN results', results'[i].depth < MaxDepth,
                      site[results'[i].url].kind = "html",
                      NEW v \in Extracted(results'[i].url) \intersect Allowed \intersect Web,
                      NEW d, d = results'[i].depth + 1
               PROVE  Covered(v, d)'
    BY <1>1 DEF NothingLost, Covered, Extracted
  <2>1. CASE i \in DOMAIN results
    <3>1. results'[i] = results[i] /\ d \in Nat
      BY <1>5, <2>1, EntryTyped DEF TypeOK
    <3>2. Covered(v, d)
      BY <1>1, <2>1, <3>1 DEF NothingLost
    <3> QED BY <1>11, <3>1, <3>2
  <2>2. CASE i = Len(results) + 1
    <3>1. results'[i] = e /\ d \in Nat
      BY <1>3, <1>5, <2>2
    <3> QED BY <1>12, <3>1
  <2> QED BY <1>5, <2>1, <2>2
<1> QED BY <1>6, <1>7, <1>8, <1>9, <1>10, <1>13

(* Every step preserves the invariant.                                     *)
LEMMA CrawlStep == CrawlInv /\ [Next]_vars => CrawlInv'
<1> SUFFICES ASSUME CrawlInv, [Next]_vars PROVE CrawlInv'
  OBVIOUS
<1>1. CASE Raise
  <2>1. /\ pc' = "failed" /\ results' = <<>> /\ UNCHANGED <<site, queue>>
        /\ visited' = visited \union {Head(queue).url} /\ queue # <<>>
    BY <1>1 DEF Raise, GoesOn
  <2>2. Head(queue).url \in Page
    BY <2>1, QueueParts, EntryTyped DEF CrawlInv, TypeOK
  <2>3. TypeOK' /\ Ended' /\ Counted' /\ ResultsExact' /\ NothingLost'
    BY <2>1, <2>2 DEF CrawlInv, TypeOK, Ended, Counted, ResultsExact, NothingLost
  <2>4. Waiting'
    BY <2>1 DEF CrawlInv, Waiting, Abstract!Linked
  <2>5. BreadthFirst'
    BY <2>1 DEF CrawlInv, BreadthFirst
  <2> QED BY <2>3, <2>4, <2>5 DEF CrawlInv
<1>2. CASE Finish
  <2>1. TypeOK' /\ Counted' /\ ResultsExact' /\ BreadthFirst' /\ NothingLost' /\ Waiting'
    BY <1>2 DEF Finish, CrawlInv, TypeOK, Counted, ResultsExact, BreadthFirst, NothingLost,
       Covered, Waiting, Abstract!Linked, Extracted
  <2>2. Ended'
    BY <1>2, VisitedFinite, BoundAssumption DEF Finish, GoesOn, Ended, CrawlInv
  <2> QED BY <2>1, <2>2 DEF CrawlInv
<1>3. CASE UNCHANGED vars
  BY <1>3 DEF vars, CrawlInv, TypeOK, Counted, ResultsExact, BreadthFirst, NothingLost,
     Covered, Waiting, Ended, Abstract!Linked, Extracted
<1> QED BY <1>1, <1>2, <1>3, DropStep, FetchStep DEF Next

-----------------------------------------------------------------------------
(* Induction over the natural numbers, stated with a set.                  *)
LEMMA Induct ==
  ASSUME NEW S, 0 \in S, \A n \in Nat : n \in S => n + 1 \in S
  PROVE  Nat \subseteq S
<1> DEFINE T == Nat \ S
           R == OpToRel(<, Nat)
<1> SUFFICES ASSUME T # {} PROVE FALSE
  OBVIOUS
<1>1. R = {ss \in Nat \X Nat : ss[1] < ss[2]}
  BY DEF OpToRel
<1>2. IsWellFoundedOn(R, Nat)
  BY NatLessThanWellFounded, Zenon
<1> HIDE DEF R
<1>3. PICK x \in T : \A y \in T : <<y, x>> \notin R
  <2> HIDE DEF T
  <2>1. T \subseteq Nat
    BY DEF T
  <2> QED BY <1>2, <2>1, WFMin
<1>4. x \in Nat \ {0} /\ x - 1 \in Nat /\ (x - 1) + 1 = x
  OBVIOUS
<1>5. x - 1 \notin T
  <2>1. x - 1 < x
    BY <1>4
  <2> QED BY <1>1, <1>3, <1>4, <2>1
<1> QED BY <1>4, <1>5

(* The pages within n links, as a function of one step.                    *)
OneFurther(follow, W) ==
  W \union {v \in Allowed \intersect Web : \E u \in W : v \in follow[u]}

Step(W) == OneFurther(Read, W)

(* Near is what its recursion says.                                        *)
LEMMA NearEquation ==
  ASSUME NEW follow
  PROVE  \A n \in 0..MaxDepth :
           Near(follow)[n] =
             IF n = 0 THEN {Start} \intersect Allowed ELSE OneFurther(follow, Near(follow)[n - 1])
<1> DEFINE First == {Start} \intersect Allowed
           IsWithin(f, n) == f = [i \in 0..n |-> IF i = 0 THEN First ELSE OneFurther(follow, f[i - 1])]
           Good == {n \in Nat : \E f : IsWithin(f, n)}
<1>1. 0 \in Good
  <2>1. IsWithin([i \in 0..0 |-> First], 0)
    OBVIOUS
  <2> QED BY <2>1
<1>2. ASSUME NEW n \in Nat, n \in Good PROVE n + 1 \in Good
  <2>1. PICK f : IsWithin(f, n)
    BY <1>2
  <2> DEFINE next == [i \in 0..(n + 1) |-> IF i = n + 1 THEN OneFurther(follow, f[n]) ELSE f[i]]
  <2>2. \A i \in 0..(n + 1) : next[i] = IF i = 0 THEN First ELSE OneFurther(follow, next[i - 1])
    <3> SUFFICES ASSUME NEW i \in 0..(n + 1)
                 PROVE  next[i] = IF i = 0 THEN First ELSE OneFurther(follow, next[i - 1])
      OBVIOUS
    <3>1. CASE i = n + 1
      <4>1. next[i] = OneFurther(follow, f[n]) /\ next[i - 1] = f[n]
        BY <3>1
      <4> QED BY <3>1, <4>1
    <3>2. CASE i # n + 1
      <4>1. i \in 0..n /\ next[i] = f[i]
        BY <3>2
      <4>2. f[i] = IF i = 0 THEN First ELSE OneFurther(follow, f[i - 1])
        BY <2>1, <4>1
      <4>3. i # 0 => next[i - 1] = f[i - 1]
        BY <3>2
      <4> QED BY <4>1, <4>2, <4>3
    <3> QED BY <3>1, <3>2
  <2>3. IsWithin(next, n + 1)
    <3>1. next = [i \in 0..(n + 1) |-> next[i]]
      OBVIOUS
    <3> HIDE DEF next
    <3> QED BY <2>2, <3>1
  <2> HIDE DEF IsWithin, next
  <2> QED BY <2>3
<1>3. MaxDepth \in Good
  <2> HIDE DEF Good, IsWithin
  <2> QED BY <1>1, <1>2, Induct, BoundAssumption
<1> DEFINE IsWhole(f) == IsWithin(f, MaxDepth)
           whole == CHOOSE f : IsWhole(f)
<1>4. IsWhole(whole)
  <2>1. \E f : IsWhole(f)
    BY <1>3
  <2> HIDE DEF IsWhole
  <2> QED BY <2>1
<1>5. Near(follow) = whole
  BY DEF Near, OneFurther
<1> HIDE DEF whole
<1> QED BY <1>4, <1>5, BoundAssumption

(* Within is what its recursion says.                                      *)
LEMMA WithinEquation ==
  \A n \in 0..MaxDepth :
    Within[n] = IF n = 0 THEN {Start} \intersect Allowed ELSE Step(Within[n - 1])
  BY NearEquation DEF Within, Step

(* With more links to follow no page is lost.                              *)
LEMMA WithinGrows ==
  \A n \in 0..MaxDepth : n > 0 => Within[n - 1] \subseteq Within[n]
<1> SUFFICES ASSUME NEW n \in 0..MaxDepth, n > 0 PROVE Within[n - 1] \subseteq Within[n]
  OBVIOUS
<1>1. n # 0
  BY BoundAssumption
<1>2. Within[n] = Step(Within[n - 1])
  BY <1>1, WithinEquation
<1> QED BY <1>2 DEF Step, OneFurther

(* What is within a few links of the start is within MaxDepth links of it. *)
LEMMA WithinLimit == \A n \in 0..MaxDepth : Within[n] \subseteq Within[MaxDepth]
<1> DEFINE Good == {k \in Nat : k <= MaxDepth => Within[MaxDepth - k] \subseteq Within[MaxDepth]}
<1>1. 0 \in Good
  BY BoundAssumption
<1>2. ASSUME NEW k \in Nat, k \in Good PROVE k + 1 \in Good
  <2> SUFFICES ASSUME k + 1 <= MaxDepth PROVE Within[MaxDepth - (k + 1)] \subseteq Within[MaxDepth]
    OBVIOUS
  <2> DEFINE n == MaxDepth - k
  <2>1. n \in 0..MaxDepth /\ n > 0 /\ n - 1 = MaxDepth - (k + 1)
    BY BoundAssumption
  <2>2. Within[n] \subseteq Within[MaxDepth]
    BY <1>2, BoundAssumption
  <2> QED BY <2>1, <2>2, WithinGrows
<1>3. Nat \subseteq Good
  <2> HIDE DEF Good
  <2> QED BY <1>1, <1>2, Induct
<1> SUFFICES ASSUME NEW n \in 0..MaxDepth PROVE Within[n] \subseteq Within[MaxDepth]
  OBVIOUS
<1>4. PICK k \in Nat : k = MaxDepth - n
  BY BoundAssumption
<1>5. k <= MaxDepth /\ MaxDepth - k = n
  BY <1>4, BoundAssumption
<1>6. k \in Good
  BY <1>3
<1>7. Within[MaxDepth - k] \subseteq Within[MaxDepth]
  BY <1>5, <1>6
<1> QED BY <1>5, <1>7, Zenon

StartEntry == [url |-> Start, depth |-> 0]

(* The start is the first page to be fetched.                              *)
Beginning ==
  pc # "failed" /\ Start \in Allowed =>
    \/ visited = {} /\ queue # <<>> /\ queue[1] = StartEntry
    \/ \E i \in DOMAIN results : results[i] = StartEntry

(* An entry's depth is no less than the distance of its page.              *)
Reached ==
  \A j \in DOMAIN queue : queue[j].url \in Allowed => queue[j].url \in Within[queue[j].depth]

AtDistance ==
  \A i \in DOMAIN results :
    /\ results[i].url \in Within[results[i].depth]
    /\ results[i].depth > 0 => results[i].url \notin Within[results[i].depth - 1]

(* CrawlInv with what makes the depths distances.                          *)
DistanceInv == CrawlInv /\ Beginning /\ Reached /\ AtDistance

(* Once all that waits is at depth d or below, every page nearer than d    *)
(* was fetched, at its distance or above.                                  *)
LEMMA NearerFetched ==
  ASSUME DistanceInv, pc # "failed", NEW d \in 0..(MaxDepth + 1),
         \A j \in DOMAIN queue : queue[j].depth >= d
  PROVE  \A n \in Nat : n < d =>
           \A v \in Within[n] : \E i \in DOMAIN results : results[i].url = v /\ results[i].depth <= n
<1> DEFINE Fetched(v, n) == \E i \in DOMAIN results : results[i].url = v /\ results[i].depth <= n
           Good == {n \in Nat : n < d => \A v \in Within[n] : Fetched(v, n)}
<1>0. /\ \A i \in DOMAIN results : results[i].depth \in 0..MaxDepth
      /\ \A j \in DOMAIN queue : queue[j].depth \in 0..MaxDepth
  BY EntryTyped DEF DistanceInv, CrawlInv, TypeOK
<1>1. 0 \in Good
  <2> SUFFICES ASSUME 0 < d, NEW v \in Within[0] PROVE Fetched(v, 0)
    OBVIOUS
  <2>1. v = Start /\ Start \in Allowed
    BY WithinEquation, BoundAssumption
  <2>2. CASE visited = {} /\ queue # <<>> /\ queue[1] = StartEntry
    <3>1. 1 \in DOMAIN queue
      BY <2>2, QueueParts DEF DistanceInv, CrawlInv, TypeOK
    <3> QED BY <2>2, <3>1 DEF StartEntry
  <2>3. CASE \E i \in DOMAIN results : results[i] = StartEntry
    BY <2>1, <2>3 DEF StartEntry
  <2> QED BY <2>1, <2>2, <2>3 DEF DistanceInv, Beginning
<1>2. ASSUME NEW n \in Nat, n \in Good PROVE n + 1 \in Good
  <2> SUFFICES ASSUME n + 1 < d, NEW v \in Within[n + 1] PROVE Fetched(v, n + 1)
    OBVIOUS
  <2>1. n + 1 \in 0..MaxDepth /\ n < d /\ n < MaxDepth /\ (n + 1) - 1 = n /\ n + 1 # 0
    BY BoundAssumption
  <2>2. v \in Step(Within[n])
    BY <2>1, WithinEquation
  <2>3. CASE v \in Within[n]
    <3>1. PICK i \in DOMAIN results : results[i].url = v /\ results[i].depth <= n
      BY <1>2, <2>1, <2>3
    <3> QED BY <1>0, <3>1
  <2>4. CASE v \notin Within[n]
    <3>1. PICK u \in Within[n] : v \in Allowed \intersect Web /\ v \in Read[u]
      BY <2>2, <2>4 DEF Step, OneFurther
    <3>2. PICK i \in DOMAIN results : results[i].url = u /\ results[i].depth <= n
      BY <1>2, <2>1
    <3>a. u \in Page
      BY <3>2, EntryTyped DEF DistanceInv, CrawlInv, TypeOK
    <3>b. site[u].kind = "html" /\ v \in Extracted(u)
      BY <3>1, <3>a DEF Read
    <3>3. results[i].depth < MaxDepth /\ results[i].depth + 1 <= n + 1 /\ results[i].depth \in Nat
      BY <1>0, <2>1, <3>2, BoundAssumption
    <3>4. Covered(v, results[i].depth + 1)
      BY <3>1, <3>2, <3>3, <3>b DEF DistanceInv, CrawlInv, NothingLost
    <3>5. ~\E j \in DOMAIN queue : queue[j].depth <= results[i].depth + 1
      BY <1>0, <3>3
    <3>6. PICK j \in DOMAIN results : results[j].url = v /\ results[j].depth <= results[i].depth + 1
      BY <3>4, <3>5 DEF Covered
    <3> QED BY <1>0, <3>3, <3>6
  <2> QED BY <2>3, <2>4
<1>3. Nat \subseteq Good
  <2> HIDE DEF Good
  <2> QED BY <1>1, <1>2, Induct
<1> QED BY <1>3

(* The crawl starts with the start page alone, at distance 0.              *)
LEMMA DistanceInit == Init => DistanceInv
<1> SUFFICES ASSUME Init PROVE DistanceInv
  OBVIOUS
<1>1. queue # <<>> /\ queue[1] = StartEntry /\ DOMAIN queue = {1} /\ DOMAIN results = {}
  BY DEF Init, StartEntry
<1>2. Start \in Allowed => Start \in Within[0]
  BY WithinEquation, BoundAssumption
<1> QED BY <1>1, <1>2, CrawlInit DEF Init, DistanceInv, Beginning, Reached, AtDistance, StartEntry

(* Every turn of the loop keeps what is queued or fetched at its distance. *)
LEMMA DistanceStep == DistanceInv /\ [Next]_vars => DistanceInv'
<1> SUFFICES ASSUME DistanceInv, [Next]_vars PROVE DistanceInv'
  OBVIOUS
<1>0. CrawlInv /\ CrawlInv' /\ TypeOK
  BY CrawlStep DEF DistanceInv, CrawlInv
<1>1. site' = site /\ Within' = Within
  <2>1. site' = site
    BY DEF Next, Drop, Fetch, Raise, Finish, vars
  <2> QED BY <2>1 DEF Within, Near, Read, Extracted
<1>2. ASSUME queue # <<>>
      PROVE  /\ Head(queue) \in Entry /\ Head(queue) = queue[1] /\ 1 \in DOMAIN queue
             /\ DOMAIN queue = 1..Len(queue) /\ Len(queue) \in Nat \ {0}
             /\ Head(queue).depth \in 0..MaxDepth
             /\ \A i \in DOMAIN Tail(queue) : i + 1 \in DOMAIN queue /\ Tail(queue)[i] = queue[i + 1]
  BY <1>0, <1>2, QueueParts, LenProperties, EntryTyped DEF TypeOK
<1>3. CASE Drop
  <2>1. /\ queue # <<>> /\ queue' = Tail(queue) /\ UNCHANGED <<visited, results, pc>>
        /\ Head(queue).url \in visited \/ Head(queue).url \notin Allowed
    BY <1>3 DEF Drop, GoesOn
  <2>2. Beginning'
    BY <1>2, <2>1 DEF DistanceInv, Beginning, StartEntry
  <2>3. Reached'
    BY <1>1, <1>2, <2>1 DEF DistanceInv, Reached
  <2>4. AtDistance'
    BY <1>1, <2>1 DEF DistanceInv, AtDistance
  <2> QED BY <1>0, <2>2, <2>3, <2>4 DEF DistanceInv
<1>4. CASE Fetch
  <2> DEFINE e == Head(queue)
  <2>1. /\ queue # <<>> /\ pc = "running" /\ e.url \in Allowed \ visited
        /\ visited' = visited \union {e.url} /\ results' = Append(results, e) /\ pc' = pc
    BY <1>4 DEF Fetch, GoesOn
  <2>2. PICK s \in Listings(NewLinks(e)) :
          queue' = Tail(queue) \o [i \in DOMAIN s |-> [url |-> s[i], depth |-> e.depth + 1]]
    BY <1>4 DEF Fetch
  <2>3. e \in Entry /\ e = queue[1] /\ 1 \in DOMAIN queue /\ e.depth \in 0..MaxDepth
    BY <1>2, <2>1
  <2>4. \A i \in DOMAIN queue' :
          \/ i + 1 \in DOMAIN queue /\ queue'[i] = queue[i + 1]
          \/ queue'[i].url \in NewLinks(e) /\ queue'[i].depth = e.depth + 1
    BY <1>0, <2>1, <2>2, FetchedQueue
  <2> HIDE DEF e
  <2>5. /\ DOMAIN results' = DOMAIN results \union {Len(results) + 1}
        /\ results'[Len(results) + 1] = e /\ \A i \in DOMAIN results : results'[i] = results[i]
    BY <1>0, <2>1, <2>3, FetchedResults
  <2>6. e.url \in Within[e.depth]
    BY <2>1, <2>3 DEF DistanceInv, Reached
  <2>7. e.depth > 0 => e.url \notin Within[e.depth - 1]
    <3> SUFFICES ASSUME e.depth > 0, e.url \in Within[e.depth - 1] PROVE FALSE
      OBVIOUS
    <3>1. \A j \in DOMAIN queue : queue[j].depth >= e.depth
      <4> SUFFICES ASSUME NEW j \in DOMAIN queue PROVE queue[j].depth >= e.depth
        OBVIOUS
      <4>1. queue[j].depth \in 0..MaxDepth /\ j \in Nat /\ j >= 1
        BY <1>0, <1>2, <2>1, EntryTyped DEF TypeOK
      <4> QED BY <1>0, <2>3, <4>1 DEF CrawlInv, BreadthFirst
    <3>2. e.depth \in 0..(MaxDepth + 1) /\ e.depth - 1 \in Nat /\ e.depth - 1 < e.depth /\ pc # "failed"
      BY <2>1, <2>3, BoundAssumption
    <3>3. \A n \in Nat : n < e.depth =>
            \A v \in Within[n] : \E i \in DOMAIN results : results[i].url = v /\ results[i].depth <= n
      BY <3>1, <3>2, NearerFetched
    <3>4. PICK i \in DOMAIN results : results[i].url = e.url
      BY <3>2, <3>3
    <3> QED BY <1>0, <2>1, <3>4 DEF CrawlInv, ResultsExact
  <2>8. Beginning'
    <3> SUFFICES ASSUME Start \in Allowed PROVE \E i \in DOMAIN results' : results'[i] = StartEntry
      BY DEF Beginning
    <3>1. CASE queue[1] = StartEntry
      BY <2>3, <2>5, <3>1
    <3>2. CASE \E i \in DOMAIN results : results[i] = StartEntry
      BY <2>5, <3>2
    <3> QED BY <2>1, <3>1, <3>2 DEF DistanceInv, Beginning
  <2>9. Reached'
    <3> SUFFICES ASSUME NEW j \in DOMAIN queue', queue'[j].url \in Allowed
                 PROVE  queue'[j].url \in Within[queue'[j].depth]
      BY <1>1 DEF Reached
    <3>1. CASE j + 1 \in DOMAIN queue /\ queue'[j] = queue[j + 1]
      BY <3>1 DEF DistanceInv, Reached
    <3>2. CASE queue'[j].url \in NewLinks(e) /\ queue'[j].depth = e.depth + 1
      <4>1. /\ e.depth < MaxDepth /\ site[e.url].kind = "html"
            /\ queue'[j].url \in Extracted(e.url) /\ queue'[j].url \in Web
        BY <3>2 DEF NewLinks
      <4>2. e.depth + 1 \in 0..MaxDepth /\ e.depth + 1 # 0 /\ (e.depth + 1) - 1 = e.depth
        BY <2>3, <4>1, BoundAssumption
      <4>3. Within[e.depth + 1] = Step(Within[e.depth])
        BY <4>2, WithinEquation
      <4>4. e.url \in Page /\ queue'[j].url \in Read[e.url]
        BY <2>3, <4>1 DEF Entry, Read
      <4> QED BY <2>6, <3>2, <4>1, <4>3, <4>4 DEF Step, OneFurther
    <3> QED BY <2>4, <3>1, <3>2
  <2>10. AtDistance'
    BY <1>1, <2>5, <2>6, <2>7 DEF DistanceInv, AtDistance
  <2> QED BY <1>0, <2>8, <2>9, <2>10 DEF DistanceInv
<1>5. CASE Raise
  <2>1. pc' = "failed" /\ results' = <<>> /\ queue' = queue
    BY <1>5 DEF Raise
  <2> QED BY <1>0, <1>1, <2>1 DEF DistanceInv, Beginning, Reached, AtDistance
<1>6. CASE Finish \/ UNCHANGED vars
  <2>1. UNCHANGED <<queue, visited, results>> /\ (pc' # "failed" => pc # "failed")
    BY <1>6 DEF Finish, vars
  <2> QED BY <1>0, <1>1, <2>1 DEF DistanceInv, Beginning, Reached, AtDistance
<1> QED BY <1>3, <1>4, <1>5, <1>6 DEF Next

-----------------------------------------------------------------------------
(* The crawler's state keeps its types, for any site and limits.           *)
THEOREM TypeCorrect == Spec => []TypeOK
<1>1. CrawlInv => TypeOK
  BY DEF CrawlInv
<1> QED BY <1>1, CrawlInit, CrawlStep, PTL DEF Spec

(* A crawl returns each visited page once, none out of scope and never     *)
(* more than max_pages, whatever cycles and duplicates the links form.     *)
THEOREM ResultsCorrect == Spec => []ResultsExact
<1>1. CrawlInv => ResultsExact
  BY DEF CrawlInv
<1> QED BY <1>1, CrawlInit, CrawlStep, PTL DEF Spec

(* The queue is always in breadth-first order.                             *)
THEOREM OrderCorrect == Spec => []BreadthFirst
<1>1. CrawlInv => BreadthFirst
  BY DEF CrawlInv
<1> QED BY <1>1, CrawlInit, CrawlStep, PTL DEF Spec

(* What the invariant says of depths and of the end of a crawl.            *)
LEMMA DistanceIsKept ==
  ASSUME DistanceInv
  PROVE  DepthIsDistance
<1>1. AtDistance
  BY DEF DistanceInv
<1>2. ASSUME pc = "done", Cardinality(visited) < MaxPages PROVE visited = Within[MaxDepth]
  <2>1. queue = <<>> /\ DOMAIN queue = {}
    BY <1>2, VisitedFinite, BoundAssumption DEF DistanceInv, CrawlInv, Ended
  <2>2. {results[i].url : i \in DOMAIN results} = visited
    BY <1>2 DEF DistanceInv, CrawlInv, ResultsExact
  <2>3. MaxDepth + 1 \in 0..(MaxDepth + 1) /\ MaxDepth \in Nat /\ MaxDepth < MaxDepth + 1
    BY BoundAssumption
  <2>4. \A v \in Within[MaxDepth] : \E i \in DOMAIN results : results[i].url = v
    <3> DEFINE d == MaxDepth + 1
    <3>1. d \in 0..(MaxDepth + 1) /\ MaxDepth < d /\ \A j \in DOMAIN queue : queue[j].depth >= d
      BY <2>1, <2>3
    <3> HIDE DEF d
    <3>2. \A n \in Nat : n < d =>
            \A v \in Within[n] : \E i \in DOMAIN results : results[i].url = v /\ results[i].depth <= n
      BY <1>2, <3>1, NearerFetched
    <3> QED BY <2>3, <3>1, <3>2
  <2>5. \A i \in DOMAIN results : results[i].url \in Within[MaxDepth]
    <3> SUFFICES ASSUME NEW i \in DOMAIN results PROVE results[i].url \in Within[MaxDepth]
      OBVIOUS
    <3>1. results[i].depth \in 0..MaxDepth
      BY EntryTyped DEF DistanceInv, CrawlInv, TypeOK
    <3> QED BY <1>1, <3>1, WithinLimit DEF AtDistance
  <2> QED BY <2>2, <2>4, <2>5
<1> QED BY <1>1, <1>2 DEF DepthIsDistance, AtDistance

(* Each page is fetched at its distance from the start, and a crawl that   *)
(* ends below max_pages returns exactly the pages within max_depth links,  *)
(* for any site, any order of the links and any limits.                    *)
THEOREM DistanceCorrect == Spec => []DepthIsDistance
  BY DistanceIsKept, DistanceInit, DistanceStep, PTL DEF Spec

(* When the pages the crawl read are intact, whole bodies lead no further  *)
(* than what was extracted from them.                                      *)
LEMMA NearWhole ==
  ASSUME DistanceInv, pc = "done", Cardinality(visited) < MaxPages,
         \A i \in DOMAIN results :
           results[i].depth < MaxDepth => Malformed \notin Linked[results[i].url]
  PROVE  Near(Linked)[MaxDepth] = Within[MaxDepth]
<1> DEFINE Good == {n \in Nat : n <= MaxDepth => Near(Linked)[n] = Within[n]}
<1>1. queue = <<>> /\ DOMAIN queue = {}
  BY VisitedFinite, BoundAssumption DEF DistanceInv, CrawlInv, Ended
<1>2. 0 \in Good
  BY NearEquation, BoundAssumption DEF Within
<1>3. ASSUME NEW n \in Nat, n \in Good PROVE n + 1 \in Good
  <2> SUFFICES ASSUME n + 1 <= MaxDepth PROVE Near(Linked)[n + 1] = Within[n + 1]
    OBVIOUS
  <2>1. n + 1 \in 0..MaxDepth /\ n + 1 # 0 /\ (n + 1) - 1 = n /\ n < MaxDepth
    BY BoundAssumption
  <2>2. Near(Linked)[n] = Within[n]
    BY <1>3, <2>1, BoundAssumption
  <2>3. Near(Linked)[n + 1] = OneFurther(Linked, Within[n]) /\ Within[n + 1] = OneFurther(Read, Within[n])
    BY <2>1, <2>2, NearEquation, WithinEquation DEF Step
  <2>4. ASSUME NEW u \in Within[n] PROVE Linked[u] = Read[u]
    <3>1. PICK i \in DOMAIN results : results[i].url = u /\ results[i].depth <= n
      <4> DEFINE d == MaxDepth + 1
      <4>1. d \in 0..(MaxDepth + 1) /\ n < d /\ \A j \in DOMAIN queue : queue[j].depth >= d
        BY <1>1, <2>1, BoundAssumption
      <4> HIDE DEF d
      <4>2. \A m \in Nat : m < d =>
              \A v \in Within[m] : \E i \in DOMAIN results : results[i].url = v /\ results[i].depth <= m
        BY <4>1, NearerFetched
      <4> QED BY <2>4, <4>1, <4>2
    <3>2. u \in Page /\ results[i].depth \in 0..MaxDepth
      BY <3>1, EntryTyped DEF DistanceInv, CrawlInv, TypeOK
    <3>3. Malformed \notin Linked[u]
      BY <2>1, <3>1, <3>2, BoundAssumption
    <3>4. CASE site[u].kind = "html"
      <4> DEFINE body == site[u].body
      <4>1. Linked[u] = {body[k] : k \in DOMAIN body}
        BY <3>2, <3>4 DEF Linked
      <4>2. body \in Seq(Page \union {Malformed})
        BY <3>2 DEF DistanceInv, CrawlInv, TypeOK, Sites
      <4>3. \A k \in DOMAIN body : \A j \in 1..k : j \in DOMAIN body /\ body[j] # Malformed
        BY <3>3, <4>1, <4>2
      <4>4. Read[u] = Extracted(u)
        BY <3>2, <3>4 DEF Read
      <4> QED BY <4>1, <4>3, <4>4 DEF Extracted
    <3>5. CASE site[u].kind # "html"
      BY <3>2, <3>5 DEF Linked, Read
    <3> QED BY <3>4, <3>5
  <2> QED BY <2>3, <2>4 DEF OneFurther
<1>4. Nat \subseteq Good
  <2> HIDE DEF Good
  <2> QED BY <1>2, <1>3, Induct
<1> QED BY <1>4, BoundAssumption

(* For any site and limits, a crawl that ends below max_pages has returned *)
(* all that max_depth links of whole bodies lead to, unless a page whose   *)
(* links it read holds a malformed reference.                              *)
THEOREM CrawlComplete == Spec => []CompleteUnlessMalformed
<1>1. DistanceInv => CompleteUnlessMalformed
  BY NearWhole, DistanceIsKept DEF CompleteUnlessMalformed, DepthIsDistance
<1> QED BY <1>1, DistanceInit, DistanceStep, PTL DEF Spec

(* The crawler implements the exploration: a fetch explores a linked page  *)
(* in scope that was not seen before, and all else is a stutter.           *)
THEOREM CrawlerRefinesExploration == Spec => ImplementsExploration
<1>1. Init => Abstract!Init
  BY DEF Init, Abstract!Init
<1>2. ASSUME CrawlInv, [Next]_vars PROVE [Abstract!Next]_<<site, visited>>
  <2>1. ASSUME Fetch \/ Raise PROVE Abstract!Next
    <3>1. /\ queue # <<>> /\ Cardinality(visited) < MaxPages
          /\ Head(queue).url \in Allowed \ visited
          /\ visited' = visited \union {Head(queue).url} /\ site' = site
      BY <2>1 DEF Fetch, Raise, GoesOn
    <3>2. Head(queue).url \in Page /\ Abstract!Linked(Head(queue).url)
      BY <1>2, <3>1, QueueParts, EntryTyped DEF CrawlInv, TypeOK, Waiting
    <3>3. Abstract!Explore(Head(queue).url)
      BY <3>1, <3>2 DEF Abstract!Explore, Cardinality, Abstract!Cardinality
    <3> QED BY <3>2, <3>3 DEF Abstract!Next
  <2>2. CASE UNCHANGED <<site, visited>>
    BY <2>2
  <2> QED BY <1>2, <2>1, <2>2 DEF Next, Drop, Finish, vars
<1> QED BY <1>1, <1>2, CrawlInit, CrawlStep, PTL DEF Spec, ImplementsExploration, Abstract!Spec
=============================================================================
