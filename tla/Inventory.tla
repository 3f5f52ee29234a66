------------------------------- MODULE Inventory -------------------------------
(***************************************************************************)
(* The asset graph (src/dribik/graph.py, with the ids and Graph.add_edge   *)
(* of models.py) and the commands that add to it: they load the graph,     *)
(* merge a bundle of hosts, endpoints, parameters and JavaScript routes    *)
(* into their copy, one item after the other, and save the copy at the     *)
(* end.  An item without a field the code asks for raises, and nothing is  *)
(* saved.  Two commands read what was saved: recon plan and the export of  *)
(* a collection (collection.py).                                           *)
(*                                                                         *)
(* A node is its id.  A host keeps what is known of it, an endpoint the    *)
(* URL it was last written as: URLs that differ in spelling only (case of  *)
(* the host, order of the query, fragment) are one endpoint.  Which        *)
(* processes overwrite whose file is module Workspace's business; here one *)
(* command runs at a time.                                                 *)
(***************************************************************************)
EXTENDS Naturals, FiniteSets, Sequences

CONSTANTS
  Host, Domain, Param, Route,   \* identities
  Ip,
  Spelling,     \* URLs as bundles and commands write them
  Normal,       \* spelling -> normalize_url of it, which is a spelling too
  Scopes,       \* the scopes an export may be made under: sets of spellings
  Bundles,      \* bundles to import: sequences of Items
  MaxImports    \* bound on the commands

None == "none"
Endpoint == {Normal[u] : u \in Spelling}    \* endpoint_id, the method left out
Alive == {None, "no", "yes"}

(* Items as import_bundle walks them.  A host item may name its domain, an *)
(* endpoint its host; a parameter of the top-level list comes with its     *)
(* endpoint and, maybe, the host.  A broken item lacks a field.            *)
Items ==
  [type : {"host"}, host : Host, domain : Domain \union {None}, alive : Alive,
   ips : SUBSET Ip, wildcard : BOOLEAN]
  \union [type : {"endpoint"}, url : Spelling, host : Host \union {None}]
  \union [type : {"param"}, param : Param, url : Spelling, host : Host \union {None}]
  \union [type : {"route"}, route : Route]
  \union [type : {"broken"}]

ASSUME InventoryAssumption ==
  /\ Normal \in [Spelling -> Spelling] /\ None \notin Host
  /\ Bundles \subseteq Seq(Items) /\ MaxImports \in Nat

VARIABLES
  saved,       \* graph.json: [nodes, hosts, urls, edges]
  graph,       \* the copy of the command in progress
  todo,        \* the items it still has to merge
  busy,
  merged,      \* items merged into saved so far
  pending,     \* items merged into graph since it was loaded
  imports

vars == <<saved, graph, todo, busy, merged, pending, imports>>

Node(type, id) == <<type, id>>
Empty == [nodes |-> {}, hosts |-> [h \in {} |-> h], urls |-> [e \in {} |-> e], edges |-> {}]

Init ==
  /\ saved = Empty /\ graph = Empty
  /\ todo = <<>> /\ busy = FALSE
  /\ merged = {} /\ pending = {} /\ imports = 0

(* Slip: alive is the latest that was said.                                *)
MergeHostLatest(old, new) ==
  [alive |-> IF new.alive = None THEN old.alive ELSE new.alive,
   ips |-> old.ips \union new.ips, wildcard |-> old.wildcard \/ new.wildcard]

(* _merge_node on a host that is there.  The fields left out here, such as *)
(* an endpoint's status, take the latest value that is not empty.          *)
MergeHost(old, new) ==
  [alive |-> IF new.alive = None THEN old.alive
             ELSE IF "yes" \in {old.alive, new.alive} THEN "yes" ELSE "no",
   ips |-> old.ips \union new.ips,
   wildcard |-> old.wildcard \/ new.wildcard]

WithNode(g, type, id) == [g EXCEPT !.nodes = @ \union {Node(type, id)}]

(* add_edge: an edge that is there is not added again.                     *)
WithEdge(g, from, to) == [g EXCEPT !.edges = @ \union {<<from, to>>}]

HostData(alive, ips, wildcard) == [alive |-> alive, ips |-> ips, wildcard |-> wildcard]
Unknown == HostData(None, {}, FALSE)

WithHost(g, h, data) ==
  LET hosts == [k \in DOMAIN g.hosts \union {h} |->
                  IF k # h THEN g.hosts[k]
                  ELSE IF h \in DOMAIN g.hosts THEN MergeHost(g.hosts[h], data) ELSE data]
  IN  WithNode([g EXCEPT !.hosts = hosts], "host", h)

AddHost(g, item) ==
  LET with == WithHost(g, item.host, HostData(item.alive, item.ips, item.wildcard)) IN
    IF item.domain = None THEN with
    ELSE WithEdge(WithNode(with, "domain", item.domain),
                  Node("domain", item.domain), Node("host", item.host))

(* The endpoint is written as it was last.                                 *)
WithUrl(g, e, url) ==
  [g EXCEPT !.urls = [k \in DOMAIN g.urls \union {e} |-> IF k = e THEN url ELSE g.urls[k]]]

(* The host of an endpoint is added too, with nothing known about it.      *)
AddEndpoint(g, url, h) ==
  LET e == Normal[url]
      with == WithNode(WithUrl(g, e, url), "endpoint", e) IN
    IF h = None THEN with
    ELSE WithEdge(WithHost(with, h, Unknown), Node("host", h), Node("endpoint", e))

(* Slip: the edge is added the other way round.                            *)
AddParamUpward(g, p, e) ==
  WithEdge(WithNode(g, "param", <<e, p>>), Node("param", <<e, p>>), Node("endpoint", e))

AddParam(g, p, e) ==
  WithEdge(WithNode(g, "param", <<e, p>>), Node("endpoint", e), Node("param", <<e, p>>))

AddRoute(g, r) == WithNode(g, "js_route", r)

Merge(g, item) ==
  CASE item.type = "host" -> AddHost(g, item)
    [] item.type = "endpoint" -> AddEndpoint(g, item.url, item.host)
    [] item.type = "param" ->
         AddParam(AddEndpoint(g, item.url, item.host), item.param, Normal[item.url])
    [] item.type = "route" -> AddRoute(g, item.route)

(* A command loads the graph and turns to its bundle.                      *)
Import(bundle) ==
  /\ ~busy /\ imports < MaxImports
  /\ graph' = saved /\ todo' = bundle /\ busy' = TRUE
  /\ pending' = {} /\ imports' = imports + 1
  /\ UNCHANGED <<saved, merged>>

MergeItem ==
  /\ busy /\ todo # <<>> /\ Head(todo).type # "broken"
  /\ graph' = Merge(graph, Head(todo))
  /\ todo' = Tail(todo) /\ pending' = pending \union {Head(todo)}
  /\ UNCHANGED <<saved, busy, merged, imports>>

(* KeyError: the command ends without saving.                              *)
Raise ==
  /\ busy /\ todo # <<>> /\ Head(todo).type = "broken"
  /\ busy' = FALSE /\ todo' = <<>>
  /\ UNCHANGED <<saved, graph, merged, pending, imports>>

Save ==
  /\ busy /\ todo = <<>>
  /\ saved' = graph /\ busy' = FALSE
  /\ merged' = merged \union pending
  /\ UNCHANGED <<graph, todo, pending, imports>>

Next == (\E b \in Bundles : Import(b)) \/ MergeItem \/ Raise \/ Save

Spec == Init /\ [][Next]_vars

(* recon_plan: which hosts are shown as live, and which as flagged.  The   *)
(* others need review; a flagged host is among the live ones all the same. *)
Live(g) == {h \in DOMAIN g.hosts : g.hosts[h].alive = "yes" \/ g.hosts[h].ips # {}}
Flagged(g) == {h \in DOMAIN g.hosts : g.hosts[h].wildcard}

(* Slip: the export asks the scope about the URL in the node's id.         *)
ToPostmanById(g, scope) == {g.urls[e] : e \in DOMAIN g.urls \intersect scope}

(* to_postman: one request for each endpoint node whose URL, as it was     *)
(* last written, is in scope.                                              *)
ToPostman(g, scope) == {g.urls[e] : e \in DOMAIN g.urls} \intersect scope
-----------------------------------------------------------------------------
GraphOK(g) ==
  /\ g.nodes \subseteq ({"host"} \X Host) \union ({"domain"} \X Domain) \union ({"endpoint"} \X Endpoint)
                         \union ({"param"} \X (Endpoint \X Param)) \union ({"js_route"} \X Route)
  /\ DOMAIN g.hosts \subseteq Host
  /\ \A n \in g.nodes : n[1] = "endpoint" => n[2] \in DOMAIN g.urls /\ Normal[g.urls[n[2]]] = n[2]
  /\ \A h \in DOMAIN g.hosts : g.hosts[h] \in [alive : Alive, ips : SUBSET Ip, wildcard : BOOLEAN]
  /\ g.edges \subseteq g.nodes \X g.nodes

(* Types of the graph; an edge joins two nodes that are there.             *)
TypeOK ==
  /\ GraphOK(saved) /\ GraphOK(graph)
  /\ busy \in BOOLEAN /\ imports \in 0..MaxImports
  /\ merged \subseteq Items /\ pending \subseteq Items
  /\ todo \in Seq(Items)

(* Parents are of the type the hierarchy gives them (architecture.md):     *)
(* domain, host, endpoint, parameter, whichever way the bundle nests them, *)
(* and every parameter in the graph hangs on an endpoint.                  *)
Parent == [host |-> "domain", endpoint |-> "host", param |-> "endpoint"]
HierarchyKept ==
  /\ \A e \in saved.edges : e[2][1] \in DOMAIN Parent /\ e[1][1] = Parent[e[2][1]]
  /\ \A n \in saved.nodes : n[1] = "param" => \E e \in saved.edges : e[2] = n

(* What has been said of host h by the items of a set.                     *)
Said(items, h) == {i \in items : i.type = "host" /\ i.host = h}
Joined(items, h) ==
  LET said == Said(items, h)
      alive == {i.alive : i \in said} \ {None}
  IN  [alive |-> IF "yes" \in alive THEN "yes" ELSE IF alive = {} THEN None ELSE "no",
       ips |-> UNION {i.ips : i \in said},
       wildcard |-> \E i \in said : i.wildcard]

(* The saved graph says of every host exactly what the items of all saved  *)
(* commands say together, whatever their order and however often an item   *)
(* was merged; a command that raised has left no trace.  So no later       *)
(* import takes a host from the live ones of the plan.                     *)
HostsJoined ==
  /\ \A h \in DOMAIN saved.hosts : saved.hosts[h] = Joined(merged, h)
  /\ DOMAIN saved.hosts =
       {i.host : i \in {j \in merged : j.type \in {"host", "endpoint", "param"}}} \ {None}
  /\ Live(saved) = {h \in Host : \E i \in Said(merged, h) : i.alive = "yes" \/ i.ips # {}}
  /\ Flagged(saved) = {h \in Host : \E i \in Said(merged, h) : i.wildcard}

(* The spellings endpoint e has had in the items of a set.                 *)
Spellings(items, e) ==
  {i.url : i \in {j \in items : j.type \in {"endpoint", "param"} /\ Normal[j.url] = e}}

(* README: out-of-scope assets are "excluded from collections".  Under any *)
(* scope, a collection requests each endpoint at most once, by a URL that  *)
(* was imported for it and is in scope; the endpoint is left out if no     *)
(* spelling of it was in scope, and not left out if all were.  In between  *)
(* the order of the imports decides.                                       *)
ExportJudged ==
  \A scope \in Scopes, e \in Endpoint :
    LET seen == Spellings(merged, e)
        sent == {u \in ToPostman(saved, scope) : Normal[u] = e}
    IN  /\ sent \subseteq seen \intersect scope
        /\ Cardinality(sent) <= 1
        /\ seen # {} /\ seen \subseteq scope => sent # {}

=============================================================================
