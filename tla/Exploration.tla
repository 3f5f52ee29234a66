----------------------------- MODULE Exploration -----------------------------
(***************************************************************************)
(* What a crawl promises, whatever the order in which it goes: it starts   *)
(* at one page, goes on along links of pages it has read, never leaves the *)
(* allowed pages, takes each page once and stops at a number of pages.     *)
(***************************************************************************)
EXTENDS FiniteSets, Naturals

CONSTANTS Page, Allowed, Start, MaxPages
VARIABLES site, seen

Linked(u) == u = Start \/ \E v \in seen : site[v].kind = "html" /\ \E i \in DOMAIN site[v].body : site[v].body[i] = u

Init == seen = {}

Explore(u) ==
  /\ u \in Allowed \ seen /\ Linked(u)
  /\ Cardinality(seen) < MaxPages
  /\ seen' = seen \union {u} /\ site' = site

Next == \E u \in Page : Explore(u)
Spec == Init /\ [][Next]_<<site, seen>>
=============================================================================
