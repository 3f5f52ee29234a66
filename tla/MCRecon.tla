------------------------------- MODULE MCRecon -------------------------------
(***************************************************************************)
(* What reconnaissance learns and the graph keeps: recon robots over four  *)
(* sitemaps, one of them out of scope, in a tree, with a shared child, or  *)
(* in a circle; subdomains enum with four names for two threads; content   *)
(* discovery over two paths that are there or not, on sites whose missing  *)
(* page is an error, a success, a redirect or a picture; and the import of *)
(* bundles about two hosts that contradict each other and about one page   *)
(* in three spellings, with and without a host for it, or breaking off.    *)
(*                                                                         *)
(* The four share no state and are explored side by side: each moves while *)
(* the others rest in an initial state.                                    *)
(***************************************************************************)
EXTENDS Inventory, Sitemap, Enumeration, Discovery, SequencesExt

(* recon robots.                                                           *)
Links(i, p, l) == [index |-> i, part |-> p, leaf |-> l, foreign |-> <<"leaf">>]
Sites ==
  {Links(i, p, l) : i \in {<<"part", "leaf">>, <<"foreign", "part">>},
                    p \in {<<>>, <<"leaf">>, <<"leaf", "foreign", "leaf">>},
                    l \in {<<>>, <<"leaf">>, <<"index">>}}
SomeRobots == {<<>>, <<"index">>, <<"part", "index">>, <<"foreign", "index">>}
SomeLocs ==
  [index |-> <<>>, part |-> <<"home", "elsewhere">>, leaf |-> <<"about", "home">>,
   foreign |-> <<"about">>]

(* scan content.                                                           *)
Reply(status, body, length) == [status |-> status, body |-> body, length |-> length]
NotFound == Reply(404, "oops", "4")
Welcome == Reply(200, "oops", "4")
ToLogin == Reply(302, "blank", "none")
Picture == Reply(404, "image", "none")
Admin == {Reply(200, "panel", "5"), Reply(403, "oops", "none")}
Upload == {ToLogin, Picture, Reply(404, "panel", "5")}

SomeWordlists == {<<"admin", "upload">>, <<"upload", "admin", "admin">>, <<"upload", "url">>, <<>>}
SomeScopes == {{"base", "admin", "upload"}, {"base", "admin"}, {"admin", "upload"}}
SomePages ==
  {[e \in {} |-> NotFound]} \union [{"admin"} -> Admin] \union [{"upload"} -> Upload]
    \union {[admin |-> a, upload |-> u] : a \in Admin, u \in Upload}
SomeMissing == {NotFound, Welcome, ToLogin, Picture}
AsText == [b \in {"oops", "panel", "blank", "image"} |-> IF b = "image" THEN "marks" ELSE b]

(* The asset graph.                                                        *)
HostItem(h, d, a, i, w) ==
  [type |-> "host", host |-> h, domain |-> d, alive |-> a, ips |-> i, wildcard |-> w]

(* https://api.zone/page?a&b, ?b&a and ?a&b#top are one endpoint.  Prefix  *)
(* rules tell them apart, rules about hosts do not.                        *)
Url(rest) == [host |-> <<"zone", "api">>, text |-> <<"https", "api", "zone">> \o rest]
Sorted == Url(<<"page", "a", "b">>)
Unsorted == Url(<<"page", "b", "a">>)
Fragment == Url(<<"page", "a", "b", "top">>)
PageUrls == {Sorted, Unsorted, Fragment}

Scoping == INSTANCE Scope

Rule(kind, value) == [kind |-> kind, value |-> value]
Zone == Rule("domain_suffix", <<"zone">>)
InScopeUrls(allow, deny) == {u \in PageUrls : Scoping!InScope([allow |-> allow, deny |-> deny], u)}
ExportScopes ==
  {InScopeUrls({Zone}, {}), InScopeUrls({Zone}, {Rule("host_exact", <<"zone", "api">>)}),
   InScopeUrls({Zone}, {Rule("url_prefix", Unsorted.text)}),
   InScopeUrls({Rule("url_prefix", Fragment.text)}, {}),
   InScopeUrls({Zone}, {Rule("url_prefix", Fragment.text)})}

SomeItems ==
  { HostItem("www", "none", "yes", {"ip1"}, FALSE), HostItem("www", "zone", "no", {"ip2"}, TRUE),
    HostItem("api", "zone", "yes", {}, FALSE), HostItem("api", "none", "no", {}, FALSE),
    [type |-> "endpoint", url |-> Sorted, host |-> "api"],
    [type |-> "endpoint", url |-> Unsorted, host |-> "none"],
    [type |-> "param", param |-> "query", url |-> Fragment, host |-> "none"],
    [type |-> "param", param |-> "query", url |-> Sorted, host |-> "www"],
    [type |-> "route", route |-> "script"], [type |-> "broken"] }

(* Bundles of up to two items, in the order import_bundle walks them.      *)
Rank == [host |-> 1, endpoint |-> 2, param |-> 2, route |-> 3]
InOrder(b) ==
  \A i, j \in DOMAIN b :
    i < j /\ "broken" \notin {b[i].type, b[j].type} => Rank[b[i].type] <= Rank[b[j].type]

SomeBundles == {b \in BoundedSeq(SomeItems, 2) : InOrder(b)}
Normalized == [u \in PageUrls |-> Sorted]

RobotsRest == state = "start" /\ child = Links(<<"part", "leaf">>, <<>>, <<>>)
NamesRest == waiting = Name
ContentRests ==
  /\ stage = "start" /\ wordlist = <<>> /\ missing = NotFound
  /\ allowed = {"admin", "upload"} /\ page = [e \in {} |-> NotFound]
GraphRests == imports = 0

everything == <<robotVars, nameVars, contentVars, vars>>
ReconInit == RobotsInit /\ NamesInit /\ ContentInit /\ Init
RobotsMove ==
  RobotsNext /\ NamesRest /\ ContentRests /\ GraphRests /\ UNCHANGED <<nameVars, contentVars, vars>>
NamesMove ==
  NamesNext /\ RobotsRest /\ ContentRests /\ GraphRests /\ UNCHANGED <<robotVars, contentVars, vars>>
ContentMove ==
  ContentNext /\ RobotsRest /\ NamesRest /\ GraphRests /\ UNCHANGED <<robotVars, nameVars, vars>>
GraphMove ==
  Next /\ RobotsRest /\ NamesRest /\ ContentRests /\ UNCHANGED <<robotVars, nameVars, contentVars>>
ReconNext == RobotsMove \/ NamesMove \/ ContentMove \/ GraphMove

(* Requests have timeouts, the resolver answers sooner or later, and the   *)
(* rest is a loop in one thread.                                           *)
ReconSpec == ReconInit /\ [][ReconNext]_everything /\ WF_everything(ReconNext)

=============================================================================
