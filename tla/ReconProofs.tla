------------------------------ MODULE ReconProofs ------------------------------
(***************************************************************************)
(* Proofs about reconnaissance: the asset graph, for any bundles in any    *)
(* order, any spellings of any pages, and any scope to export under        *)
(* (module Inventory); content discovery, for any wordlist, any site and   *)
(* any way it may answer a path that is not there (module Discovery); the  *)
(* resolver pool, for any names and any number of threads (module          *)
(* Enumeration); and the sitemap reader, for any sitemaps, however they    *)
(* name each other (module Sitemap).                                       *)
(***************************************************************************)
EXTENDS Inventory, Discovery, Enumeration, Sitemap,
        FiniteSetTheorems, SequenceTheorems, WellFoundedInduction, TLAPS

-----------------------------------------------------------------------------
(* The asset graph.                                                        *)

(* What an item adds to a graph, whatever is in it already.                *)
HostOf(item) ==
  IF item.type \in {"host", "endpoint", "param"} THEN {item.host} \ {None} ELSE {}
PageOf(item) == IF item.type \in {"endpoint", "param"} THEN {Normal[item.url]} ELSE {}
DataOf(item) ==
  IF item.type = "host" THEN HostData(item.alive, item.ips, item.wildcard) ELSE Unknown

DomainOf(item) == IF item.type = "host" THEN {item.domain} \ {None} ELSE {}
ParamOf(item) == IF item.type = "param" THEN {<<Normal[item.url], item.param>>} ELSE {}
RouteOf(item) == IF item.type = "route" THEN {item.route} ELSE {}

NodesOf(item) ==
  {Node("host", h) : h \in HostOf(item)} \union {Node("domain", d) : d \in DomainOf(item)}
    \union {Node("endpoint", e) : e \in PageOf(item)} \union {Node("param", p) : p \in ParamOf(item)}
    \union {Node("js_route", r) : r \in RouteOf(item)}

EdgesOf(item) ==
  {<<Node("domain", d), Node("host", h)>> : d \in DomainOf(item), h \in HostOf(item)}
    \union {<<Node("host", h), Node("endpoint", e)>> : h \in HostOf(item), e \in PageOf(item)}
    \union {<<Node("endpoint", e), Node("param", p)>> : e \in PageOf(item), p \in ParamOf(item)}

IsGraph(g) == g = [nodes |-> g.nodes, hosts |-> g.hosts, urls |-> g.urls, edges |-> g.edges]

(* Graph r is graph g with the item.                                       *)
Extended(r, g, item) ==
  /\ IsGraph(r)
  /\ r.nodes = g.nodes \union NodesOf(item)
  /\ r.edges = g.edges \union EdgesOf(item)
  /\ DOMAIN r.hosts = DOMAIN g.hosts \union HostOf(item)
  /\ \A h \in DOMAIN r.hosts :
       r.hosts[h] = IF h \notin HostOf(item) THEN g.hosts[h]
                    ELSE IF h \in DOMAIN g.hosts THEN MergeHost(g.hosts[h], DataOf(item)) ELSE DataOf(item)
  /\ DOMAIN r.urls = DOMAIN g.urls \union PageOf(item)
  /\ \A e \in DOMAIN r.urls : r.urls[e] = IF e \in PageOf(item) THEN item.url ELSE g.urls[e]

(* What the fields of an item hold, by its type.                           *)
LEMMA ItemFields ==
  ASSUME NEW item \in Items
  PROVE  /\ item.type \in {"host", "endpoint", "param", "route", "broken"}
         /\ item.type = "host" =>
              item.host \in Host /\ item.domain \in Domain \union {None} /\ item.alive \in Alive
                /\ item.ips \in SUBSET Ip /\ item.wildcard \in BOOLEAN
         /\ item.type = "endpoint" => item.url \in Spelling /\ item.host \in Host \union {None}
         /\ item.type = "param" =>
              item.param \in Param /\ item.url \in Spelling /\ item.host \in Host \union {None}
         /\ item.type = "route" => item.route \in Route
<1> QED BY DEF Items

(* A record of the four parts is a graph.                                  *)
LEMMA RecordIsGraph ==
  ASSUME NEW n, NEW h, NEW u, NEW e
  PROVE  IsGraph([nodes |-> n, hosts |-> h, urls |-> u, edges |-> e])
<1> QED BY DEF IsGraph

(* What the operations on a graph do to its four parts.                    *)
LEMMA NodeAdded ==
  ASSUME NEW g, IsGraph(g), NEW t, NEW id
  PROVE  WithNode(g, t, id) = [nodes |-> g.nodes \union {Node(t, id)}, hosts |-> g.hosts,
                               urls |-> g.urls, edges |-> g.edges]
<1> QED BY DEF WithNode, IsGraph

(* An edge changes the edges only.                                         *)
LEMMA EdgeAdded ==
  ASSUME NEW g, IsGraph(g), NEW a, NEW b
  PROVE  WithEdge(g, a, b) = [nodes |-> g.nodes, hosts |-> g.hosts, urls |-> g.urls,
                              edges |-> g.edges \union {<<a, b>>}]
<1> QED BY DEF WithEdge, IsGraph

(* A spelling changes the URLs only.                                       *)
LEMMA UrlAdded ==
  ASSUME NEW g, IsGraph(g), NEW e, NEW url
  PROVE  WithUrl(g, e, url) =
           [nodes |-> g.nodes, hosts |-> g.hosts, edges |-> g.edges,
            urls |-> [k \in DOMAIN g.urls \union {e} |-> IF k = e THEN url ELSE g.urls[k]]]
<1> QED BY DEF WithUrl, IsGraph

HostsWith(g, h, data) ==
  [k \in DOMAIN g.hosts \union {h} |->
     IF k # h THEN g.hosts[k]
     ELSE IF h \in DOMAIN g.hosts THEN MergeHost(g.hosts[h], data) ELSE data]

(* A host is a node, and its data is merged with what is known.            *)
LEMMA HostAdded ==
  ASSUME NEW g, IsGraph(g), NEW h, NEW data
  PROVE  WithHost(g, h, data) =
           [nodes |-> g.nodes \union {Node("host", h)}, hosts |-> HostsWith(g, h, data),
            urls |-> g.urls, edges |-> g.edges]
<1> DEFINE with == [g EXCEPT !.hosts = HostsWith(g, h, data)]
<1>1. with = [nodes |-> g.nodes, hosts |-> HostsWith(g, h, data), urls |-> g.urls, edges |-> g.edges]
  BY DEF IsGraph
<1>2. WithHost(g, h, data) = WithNode(with, "host", h)
  BY DEF WithHost, HostsWith
<1> HIDE DEF with
<1>3. IsGraph(with)
  BY <1>1, RecordIsGraph
<1>4. WithNode(with, "host", h) = [nodes |-> with.nodes \union {Node("host", h)}, hosts |-> with.hosts,
                                  urls |-> with.urls, edges |-> with.edges]
  BY <1>3, NodeAdded
<1> QED BY <1>1, <1>2, <1>4

(* Merging a host item adds the host, its domain, the edge between them.   *)
LEMMA HostItemAdded ==
  ASSUME NEW g, IsGraph(g), NEW item \in Items, item.type = "host", None \notin Host
  PROVE  Extended(AddHost(g, item), g, item)
<1> DEFINE data == HostData(item.alive, item.ips, item.wildcard)
           with == WithHost(g, item.host, data)
<1>1. /\ with = [nodes |-> g.nodes \union {Node("host", item.host)},
                 hosts |-> HostsWith(g, item.host, data), urls |-> g.urls, edges |-> g.edges]
      /\ IsGraph(with)
  <2> HIDE DEF data
  <2>1. with = [nodes |-> g.nodes \union {Node("host", item.host)},
                hosts |-> HostsWith(g, item.host, data), urls |-> g.urls, edges |-> g.edges]
    BY HostAdded
  <2> HIDE DEF with
  <2> QED BY <2>1, RecordIsGraph
<1>2. /\ HostOf(item) = {item.host} /\ PageOf(item) = {} /\ ParamOf(item) = {} /\ RouteOf(item) = {}
      /\ DataOf(item) = data /\ DomainOf(item) = {item.domain} \ {None}
  BY ItemFields DEF HostOf, PageOf, ParamOf, RouteOf, DataOf, DomainOf
<1> HIDE DEF data
<1>3. CASE item.domain = None
  <2>1. AddHost(g, item) = with
    BY <1>3 DEF AddHost, data
  <2>2. NodesOf(item) = {Node("host", item.host)} /\ EdgesOf(item) = {}
    BY <1>2, <1>3 DEF NodesOf, EdgesOf
  <2> HIDE DEF with
  <2> QED BY <1>1, <1>2, <2>1, <2>2 DEF Extended, HostsWith
<1>4. CASE item.domain # None
  <2> DEFINE d == Node("domain", item.domain)
             h == Node("host", item.host)
             more == WithNode(with, "domain", item.domain)
  <2>1. AddHost(g, item) = WithEdge(more, d, h)
    BY <1>4 DEF AddHost, data
  <2>2. NodesOf(item) = {h, d} /\ EdgesOf(item) = {<<d, h>>}
    BY <1>2, <1>4 DEF NodesOf, EdgesOf
  <2> HIDE DEF with
  <2>3. more = [nodes |-> g.nodes \union {h} \union {d}, hosts |-> HostsWith(g, item.host, data),
                urls |-> g.urls, edges |-> g.edges] /\ IsGraph(more)
    <3>1. more = [nodes |-> with.nodes \union {d}, hosts |-> with.hosts, urls |-> with.urls, edges |-> with.edges]
      <4>1. IsGraph(with)
        BY <1>1
      <4> QED BY <4>1, NodeAdded
    <3> HIDE DEF more
    <3> QED BY <1>1, <3>1, RecordIsGraph
  <2> HIDE DEF more
  <2>4. AddHost(g, item) = [nodes |-> g.nodes \union {h} \union {d}, hosts |-> HostsWith(g, item.host, data),
                urls |-> g.urls, edges |-> g.edges \union {<<d, h>>}]
    BY <2>1, <2>3, EdgeAdded
  <2> HIDE DEF d, h
  <2> QED BY <1>2, <2>2, <2>4 DEF Extended, HostsWith, IsGraph
<1> QED BY <1>3, <1>4

(* Graph r is graph g with the page of the item and the host it names.     *)
PageExtended(r, g, item) ==
  /\ IsGraph(r)
  /\ r.nodes = g.nodes \union {Node("endpoint", Normal[item.url])} \union {Node("host", h) : h \in HostOf(item)}
  /\ r.edges = g.edges \union {<<Node("host", h), Node("endpoint", Normal[item.url])>> : h \in HostOf(item)}
  /\ DOMAIN r.hosts = DOMAIN g.hosts \union HostOf(item)
  /\ \A h \in DOMAIN r.hosts :
       r.hosts[h] = IF h \notin HostOf(item) THEN g.hosts[h]
                    ELSE IF h \in DOMAIN g.hosts THEN MergeHost(g.hosts[h], Unknown) ELSE Unknown
  /\ DOMAIN r.urls = DOMAIN g.urls \union {Normal[item.url]}
  /\ \A e \in DOMAIN r.urls : r.urls[e] = IF e = Normal[item.url] THEN item.url ELSE g.urls[e]

(* Merging an endpoint adds its page, its host and the edge between them.  *)
LEMMA PageAdded ==
  ASSUME NEW g, IsGraph(g), NEW item \in Items, item.type \in {"endpoint", "param"}, None \notin Host
  PROVE  PageExtended(AddEndpoint(g, item.url, item.host), g, item)
<1> DEFINE r == AddEndpoint(g, item.url, item.host)
           home == Normal[item.url]
           urls == [k \in DOMAIN g.urls \union {home} |-> IF k = home THEN item.url ELSE g.urls[k]]
           spelled == WithUrl(g, home, item.url)
           with == WithNode(spelled, "endpoint", home)
<1>1. spelled = [nodes |-> g.nodes, hosts |-> g.hosts, urls |-> urls, edges |-> g.edges]
  <2> HIDE DEF home
  <2> QED BY UrlAdded
<1>2. DOMAIN urls = DOMAIN g.urls \union {home} /\ \A e \in DOMAIN urls : urls[e] = IF e = home THEN item.url ELSE g.urls[e]
  OBVIOUS
<1>3. HostOf(item) = {item.host} \ {None}
  BY DEF HostOf
<1>4. r = IF item.host = None THEN with
          ELSE WithEdge(WithHost(with, item.host, Unknown), Node("host", item.host), Node("endpoint", home))
  BY DEF AddEndpoint
<1> HIDE DEF r, home, urls, spelled
<1>5. with = [nodes |-> g.nodes \union {Node("endpoint", home)}, hosts |-> g.hosts,
              urls |-> urls, edges |-> g.edges]
  <2>1. IsGraph(spelled)
    BY <1>1, RecordIsGraph
  <2>2. with = [nodes |-> spelled.nodes \union {Node("endpoint", home)}, hosts |-> spelled.hosts,
                urls |-> spelled.urls, edges |-> spelled.edges]
    BY <2>1, NodeAdded
  <2> HIDE DEF with
  <2> QED BY <1>1, <2>2
<1> HIDE DEF with
<1>6. IsGraph(with)
  BY <1>5, RecordIsGraph
<1>7. CASE item.host = None
  <2>1. HostOf(item) = {} /\ r = with
    BY <1>3, <1>4, <1>7
  <2> QED BY <1>2, <1>5, <1>6, <2>1 DEF PageExtended, r, home
<1>8. CASE item.host # None
  <2> DEFINE known == WithHost(with, item.host, Unknown)
  <2>1. known = [nodes |-> with.nodes \union {Node("host", item.host)}, hosts |-> HostsWith(with, item.host, Unknown),
                 urls |-> with.urls, edges |-> with.edges]
    BY <1>6, HostAdded
  <2>2. r = WithEdge(known, Node("host", item.host), Node("endpoint", home))
    BY <1>4, <1>8
  <2> HIDE DEF known
  <2>3. IsGraph(known)
    BY <2>1, RecordIsGraph
  <2>4. r = [nodes |-> known.nodes, hosts |-> known.hosts, urls |-> known.urls,
             edges |-> known.edges \union {<<Node("host", item.host), Node("endpoint", home)>>}]
    BY <2>2, <2>3, EdgeAdded
  <2>5. IsGraph(r)
    BY <2>4, RecordIsGraph
  <2>6. HostOf(item) = {item.host}
    BY <1>3, <1>8
  <2>7. /\ r.hosts = HostsWith(with, item.host, Unknown) /\ r.urls = urls
        /\ r.nodes = g.nodes \union {Node("endpoint", home)} \union {Node("host", item.host)}
        /\ r.edges = g.edges \union {<<Node("host", item.host), Node("endpoint", home)>>}
        /\ with.hosts = g.hosts
    BY <1>5, <2>1, <2>4
  <2>8. /\ {Node("host", h) : h \in HostOf(item)} = {Node("host", item.host)}
        /\ {<<Node("host", h), Node("endpoint", home)>> : h \in HostOf(item)}
             = {<<Node("host", item.host), Node("endpoint", home)>>}
    BY <2>6
  <2>9. PageExtended(r, g, item)
    BY <1>2, <2>5, <2>6, <2>7, <2>8 DEF PageExtended, home, HostsWith
  <2> QED BY <2>9 DEF r
<1> QED BY <1>7, <1>8

(* Merging an item adds what the item is about, and no more.               *)
LEMMA ItemAdded ==
  ASSUME NEW g, IsGraph(g), NEW item \in Items, item.type # "broken", None \notin Host
  PROVE  Extended(Merge(g, item), g, item)
<1>1. CASE item.type = "host"
  BY <1>1, HostItemAdded DEF Merge
<1>2. CASE item.type = "endpoint"
  <2> DEFINE r == AddEndpoint(g, item.url, item.host)
  <2>1. Merge(g, item) = r
    BY <1>2 DEF Merge
  <2>2. /\ PageOf(item) = {Normal[item.url]} /\ ParamOf(item) = {} /\ RouteOf(item) = {}
        /\ DataOf(item) = Unknown /\ DomainOf(item) = {}
    BY <1>2 DEF PageOf, ParamOf, RouteOf, DataOf, DomainOf
  <2>3. /\ NodesOf(item) = {Node("endpoint", Normal[item.url])} \union {Node("host", h) : h \in HostOf(item)}
        /\ EdgesOf(item) = {<<Node("host", h), Node("endpoint", Normal[item.url])>> : h \in HostOf(item)}
    BY <2>2 DEF NodesOf, EdgesOf
  <2>4. PageExtended(r, g, item)
    BY <1>2, PageAdded
  <2> HIDE DEF r
  <2> QED BY <2>1, <2>2, <2>3, <2>4 DEF Extended, PageExtended
<1>3. CASE item.type = "param"
  <2> DEFINE r == AddEndpoint(g, item.url, item.host)
             e == Normal[item.url]
             p == <<e, item.param>>
             with == WithNode(r, "param", p)
  <2>1. Merge(g, item) = WithEdge(with, Node("endpoint", e), Node("param", p))
    BY <1>3 DEF Merge, AddParam
  <2>2. /\ PageOf(item) = {e} /\ ParamOf(item) = {p} /\ RouteOf(item) = {}
        /\ DataOf(item) = Unknown /\ DomainOf(item) = {}
    BY <1>3 DEF PageOf, ParamOf, RouteOf, DataOf, DomainOf
  <2>3. /\ NodesOf(item) = {Node("endpoint", e)} \union {Node("host", h) : h \in HostOf(item)} \union {Node("param", p)}
        /\ EdgesOf(item) = {<<Node("host", h), Node("endpoint", e)>> : h \in HostOf(item)}
                              \union {<<Node("endpoint", e), Node("param", p)>>}
    BY <2>2 DEF NodesOf, EdgesOf
  <2>4. PageExtended(r, g, item)
    BY <1>3, PageAdded
  <2> HIDE DEF r, e, p
  <2>5. IsGraph(r)
    BY <2>4 DEF PageExtended
  <2>6. with = [nodes |-> r.nodes \union {Node("param", p)}, hosts |-> r.hosts, urls |-> r.urls, edges |-> r.edges]
    BY <2>5, NodeAdded
  <2> HIDE DEF with
  <2>7. IsGraph(with)
    BY <2>6, RecordIsGraph
  <2>8. Merge(g, item) = [nodes |-> with.nodes, hosts |-> with.hosts, urls |-> with.urls,
                          edges |-> with.edges \union {<<Node("endpoint", e), Node("param", p)>>}]
    BY <2>1, <2>7, EdgeAdded
  <2>9. /\ IsGraph(Merge(g, item)) /\ Merge(g, item).hosts = r.hosts /\ Merge(g, item).urls = r.urls
        /\ Merge(g, item).nodes = r.nodes \union {Node("param", p)}
        /\ Merge(g, item).edges = r.edges \union {<<Node("endpoint", e), Node("param", p)>>}
    BY <2>6, <2>8, RecordIsGraph
  <2> QED BY <2>2, <2>3, <2>4, <2>9 DEF Extended, PageExtended, e
<1>4. CASE item.type = "route"
  <2>1. Merge(g, item) = [nodes |-> g.nodes \union {Node("js_route", item.route)}, hosts |-> g.hosts,
                          urls |-> g.urls, edges |-> g.edges]
    BY <1>4, NodeAdded DEF Merge, AddRoute
  <2>2. /\ HostOf(item) = {} /\ PageOf(item) = {} /\ ParamOf(item) = {} /\ DomainOf(item) = {}
        /\ RouteOf(item) = {item.route}
    BY <1>4 DEF HostOf, PageOf, ParamOf, RouteOf, DomainOf
  <2>3. NodesOf(item) = {Node("js_route", item.route)} /\ EdgesOf(item) = {}
    BY <2>2 DEF NodesOf, EdgesOf
  <2> QED BY <2>1, <2>2, <2>3 DEF Extended, IsGraph
<1> QED BY <1>1, <1>2, <1>3, <1>4, ItemFields

-----------------------------------------------------------------------------
(* The graph is what the items of a set make it: a hierarchy whose hosts   *)
(* carry the join of what was said, and whose endpoints are spelled in one *)
(* of the ways they came.                                                  *)
Tree(g) ==
  /\ \A e \in g.edges : e[2][1] \in DOMAIN Parent /\ e[1][1] = Parent[e[2][1]]
  /\ \A n \in g.nodes : n[1] = "param" => \E e \in g.edges : e[2] = n

Naming(items) == {j \in items : j.type \in {"host", "endpoint", "param"}}
Linking(items) == {j \in items : j.type \in {"endpoint", "param"}}
HostsAre(g, items) ==
  /\ DOMAIN g.hosts = {i.host : i \in Naming(items)} \ {None}
  /\ \A h \in DOMAIN g.hosts : g.hosts[h] = Joined(items, h)
UrlsAre(g, items) ==
  /\ DOMAIN g.urls = {Normal[i.url] : i \in Linking(items)}
  /\ \A e \in DOMAIN g.urls : g.urls[e] \in Spellings(items, e)

Sound(g, items) == IsGraph(g) /\ GraphOK(g) /\ Tree(g) /\ HostsAre(g, items) /\ UrlsAre(g, items)

(* Types: also used for the copy of a command that has raised.             *)
LEMMA GraphKept ==
  ASSUME NEW g, IsGraph(g), GraphOK(g), NEW item \in Items, item.type # "broken"
  PROVE  GraphOK(Merge(g, item))
<1> DEFINE r == Merge(g, item)
<1>1. Extended(r, g, item)
  BY ItemAdded, InventoryAssumption
<1> HIDE DEF r
<1>2. /\ HostOf(item) \subseteq Host /\ PageOf(item) \subseteq Endpoint /\ DomainOf(item) \subseteq Domain
      /\ ParamOf(item) \subseteq PageOf(item) \X Param /\ RouteOf(item) \subseteq Route
  BY ItemFields DEF HostOf, PageOf, DomainOf, ParamOf, RouteOf, Endpoint
<1>3. NodesOf(item) \subseteq ({"host"} \X Host) \union ({"domain"} \X Domain) \union ({"endpoint"} \X Endpoint)
                         \union ({"param"} \X (Endpoint \X Param)) \union ({"js_route"} \X Route)
  BY <1>2 DEF NodesOf, Node
<1>4. EdgesOf(item) \subseteq NodesOf(item) \X NodesOf(item)
  BY DEF EdgesOf, NodesOf
<1>5. DataOf(item) \in [alive : Alive, ips : SUBSET Ip, wildcard : BOOLEAN]
  BY ItemFields DEF DataOf, HostData, Unknown, Alive
<1>6. \A a, b \in [alive : Alive, ips : SUBSET Ip, wildcard : BOOLEAN] :
        MergeHost(a, b) \in [alive : Alive, ips : SUBSET Ip, wildcard : BOOLEAN]
  BY DEF MergeHost, Alive
<1>7. \A h \in DOMAIN r.hosts : r.hosts[h] \in [alive : Alive, ips : SUBSET Ip, wildcard : BOOLEAN]
  BY <1>1, <1>5, <1>6 DEF Extended, GraphOK
<1>8. \A n \in r.nodes : n[1] = "endpoint" => n[2] \in DOMAIN r.urls /\ Normal[r.urls[n[2]]] = n[2]
  <2>1. \A n \in NodesOf(item) : n[1] = "endpoint" => n[2] \in PageOf(item)
    BY DEF NodesOf, Node
  <2>2. \A e \in PageOf(item) : e \in DOMAIN r.urls /\ Normal[r.urls[e]] = e
    BY <1>1 DEF Extended, PageOf
  <2>3. ASSUME NEW n \in g.nodes, n[1] = "endpoint"
        PROVE  n[2] \in DOMAIN r.urls /\ Normal[r.urls[n[2]]] = n[2]
    <3>1. n[2] \in DOMAIN g.urls /\ Normal[g.urls[n[2]]] = n[2]
      BY <2>3 DEF GraphOK
    <3> QED BY <1>1, <2>2, <3>1 DEF Extended
  <2> QED BY <1>1, <2>1, <2>2, <2>3 DEF Extended
<1> QED BY <1>1, <1>2, <1>3, <1>4, <1>7, <1>8 DEF Extended, GraphOK, r

(* One item more leaves every edge within the hierarchy.                   *)
LEMMA TreeKept ==
  ASSUME NEW g, GraphOK(g), Tree(g), NEW item \in Items, NEW r, Extended(r, g, item)
  PROVE  Tree(r)
<1>1. \A e \in EdgesOf(item) : e[2][1] \in DOMAIN Parent /\ e[1][1] = Parent[e[2][1]]
  BY DEF EdgesOf, Node, Parent
<1>2. \A n \in NodesOf(item) : n[1] = "param" => \E e \in EdgesOf(item) : e[2] = n
  <2>1. SUFFICES ASSUME NEW p \in ParamOf(item) PROVE \E e \in EdgesOf(item) : e[2] = Node("param", p)
    BY DEF NodesOf, Node
  <2>2. PICK home \in PageOf(item) : TRUE
    BY DEF ParamOf, PageOf
  <2>3. <<Node("endpoint", home), Node("param", p)>> \in EdgesOf(item)
    BY <2>2 DEF EdgesOf
  <2> QED BY <2>3
<1> QED BY <1>1, <1>2 DEF Extended, Tree

(* One item more: every page keeps a URL some item spelled it with.        *)
LEMMA UrlsKept ==
  ASSUME NEW g, NEW items, UrlsAre(g, items), NEW item \in Items, NEW r, Extended(r, g, item)
  PROVE  UrlsAre(r, items \union {item})
<1>1. {Normal[i.url] : i \in Linking(items \union {item})} = {Normal[i.url] : i \in Linking(items)} \union PageOf(item)
  BY DEF Linking, PageOf
<1>2. \A e : Spellings(items, e) \subseteq Spellings(items \union {item}, e)
  BY DEF Spellings
<1>3. \A e \in PageOf(item) : item.url \in Spellings(items \union {item}, e)
  BY DEF Spellings, PageOf
<1> QED BY <1>1, <1>2, <1>3 DEF Extended, UrlsAre


(* What is said with one item more is the join of what was said before     *)
(* with what it says.                                                      *)
LEMMA SaidMore ==
  ASSUME NEW items \in SUBSET Items, NEW item \in Items, NEW h \in Host
  PROVE  Said(items \union {item}, h) =
           Said(items, h) \union (IF item.type = "host" /\ item.host = h THEN {item} ELSE {})
<1> QED BY DEF Said

Summed(alive) == IF "yes" \in alive THEN "yes" ELSE IF alive = {} THEN None ELSE "no"
Flags(items, h) == \E i \in Said(items, h) : i.wildcard

(* What is known of a host's life, with one word more.                     *)
LEMMA SummedMore ==
  ASSUME NEW alive \in SUBSET {"no", "yes"}, NEW x \in Alive
  PROVE  Summed((alive \union {x}) \ {None}) =
           IF x = None THEN Summed(alive) ELSE IF "yes" \in {Summed(alive), x} THEN "yes" ELSE "no"
<1>1. CASE x = None
  <2>1. (alive \union {x}) \ {None} = alive
    BY <1>1 DEF None
  <2> QED BY <1>1, <2>1
<1>2. CASE x # None
  <2>1. (alive \union {x}) \ {None} = alive \union {x}
    BY <1>2 DEF None
  <2> QED BY <1>2, <2>1 DEF Summed, Alive, None
<1> QED BY <1>1, <1>2

(* What was said of a host, field by field.                                *)
LEMMA JoinedIs ==
  ASSUME NEW items, NEW h
  PROVE  Joined(items, h) =
           [alive |-> Summed({i.alive : i \in Said(items, h)} \ {None}),
            ips |-> UNION {i.ips : i \in Said(items, h)}, wildcard |-> Flags(items, h)]
<1> QED BY DEF Joined, Summed, Flags

(* Merging computes the join: one item more joins its data to the rest.    *)
LEMMA JoinedMore ==
  ASSUME NEW items \in SUBSET Items, NEW item \in Items, None \notin Host, NEW h \in HostOf(item)
  PROVE  Joined(items \union {item}, h) = MergeHost(Joined(items, h), DataOf(item))
<1> DEFINE old == Said(items, h)
           new == Said(items \union {item}, h)
           alive == {i.alive : i \in old} \ {None}
           ips == UNION {i.ips : i \in old}
           flag == Flags(items, h)
<1>1. h \in Host /\ Joined(items, h) = [alive |-> Summed(alive), ips |-> ips, wildcard |-> flag]
  BY ItemFields, JoinedIs DEF HostOf
<1>2. flag \in BOOLEAN
  BY DEF Flags
<1>3. alive \in SUBSET {"no", "yes"}
  BY ItemFields DEF Said, Alive
<1>4. CASE item.type = "host"
  <2>1. item.host = h /\ new = old \union {item}
    BY <1>1, <1>4, SaidMore DEF HostOf
  <2>2. DataOf(item) = [alive |-> item.alive, ips |-> item.ips, wildcard |-> item.wildcard]
    BY <1>4 DEF DataOf, HostData
  <2>3. item.alive \in Alive /\ item.wildcard \in BOOLEAN
    BY <1>4, ItemFields
  <2>4. {i.alive : i \in new} \ {None} = (alive \union {item.alive}) \ {None}
    BY <2>1
  <2>5. UNION {i.ips : i \in new} = ips \union item.ips
    BY <2>1
  <2>6. Flags(items \union {item}, h) = (flag \/ item.wildcard)
    <3>1. Flags(items \union {item}, h) <=> flag \/ item.wildcard
      BY <2>1 DEF Flags
    <3> QED BY <1>2, <2>3, <3>1, Zenon DEF Flags
  <2>7. Joined(items \union {item}, h) =
          [alive |-> Summed((alive \union {item.alive}) \ {None}), ips |-> ips \union item.ips,
           wildcard |-> flag \/ item.wildcard]
    BY <2>4, <2>5, <2>6, JoinedIs
  <2> HIDE DEF alive, ips, flag
  <2>8. MergeHost(Joined(items, h), DataOf(item)) =
          [alive |-> IF item.alive = None THEN Summed(alive)
                     ELSE IF "yes" \in {Summed(alive), item.alive} THEN "yes" ELSE "no",
           ips |-> ips \union item.ips, wildcard |-> flag \/ item.wildcard]
    BY <1>1, <2>2 DEF MergeHost
  <2> QED BY <1>3, <2>3, <2>7, <2>8, SummedMore
<1>5. CASE item.type # "host"
  <2>1. new = old
    BY <1>5 DEF Said
  <2>2. DataOf(item) = [alive |-> None, ips |-> {}, wildcard |-> FALSE]
    BY <1>5 DEF DataOf, Unknown, HostData
  <2>3. Flags(items \union {item}, h) = flag
    BY <2>1 DEF Flags
  <2>4. Joined(items \union {item}, h) = [alive |-> Summed(alive), ips |-> ips, wildcard |-> flag]
    BY <2>1, <2>3, JoinedIs
  <2> HIDE DEF alive, ips, flag
  <2>5. MergeHost(Joined(items, h), DataOf(item)) = [alive |-> Summed(alive), ips |-> ips \union {}, wildcard |-> flag \/ FALSE]
    BY <1>1, <2>2 DEF MergeHost
  <2>6. ips \union {} = ips /\ (flag \/ FALSE) = flag
    BY <1>2
  <2> QED BY <2>4, <2>5, <2>6
<1> QED BY <1>4, <1>5

(* One item more: every host's data is the join of what was said of it.    *)
LEMMA HostsKept ==
  ASSUME None \notin Host, NEW g, NEW items \in SUBSET Items, HostsAre(g, items),
         NEW item \in Items, NEW r, Extended(r, g, item)
  PROVE  HostsAre(r, items \union {item})
<1>1. {i.host : i \in Naming(items \union {item})} \ {None} = DOMAIN g.hosts \union HostOf(item)
  BY DEF HostsAre, Naming, HostOf
<1>2. ASSUME NEW h \in DOMAIN g.hosts, h \notin HostOf(item)
      PROVE  Joined(items \union {item}, h) = g.hosts[h]
  <2>1. item.type = "host" => item.host # h
    BY <1>2, ItemFields DEF HostOf
  <2>2. Said(items \union {item}, h) = Said(items, h)
    BY <2>1 DEF Said
  <2>3. Joined(items \union {item}, h) = Joined(items, h)
    BY <2>2 DEF Joined
  <2> QED BY <1>2, <2>3 DEF HostsAre
<1>3. ASSUME NEW h \in HostOf(item), h \in DOMAIN g.hosts
      PROVE  Joined(items \union {item}, h) = MergeHost(g.hosts[h], DataOf(item))
  BY <1>3, JoinedMore DEF HostsAre
<1>4. ASSUME NEW h \in HostOf(item), h \notin DOMAIN g.hosts
      PROVE  Joined(items \union {item}, h) = DataOf(item)
  <2>1. h \in Host
    BY ItemFields DEF HostOf
  <2>2. Said(items, h) = {}
    BY <1>4, <2>1 DEF HostsAre, Said, Naming
  <2>3. Joined(items, h) = [alive |-> None, ips |-> {}, wildcard |-> FALSE]
    <3>1. Flags(items, h) = FALSE
      BY <2>2, Zenon DEF Flags
    <3>2. {i.alive : i \in Said(items, h)} \ {None} = {} /\ UNION {i.ips : i \in Said(items, h)} = {}
      BY <2>2
    <3>3. Summed({}) = None
      BY DEF Summed
    <3> QED BY <3>1, <3>2, <3>3, JoinedIs
  <2>4. DataOf(item) \in [alive : Alive, ips : SUBSET Ip, wildcard : BOOLEAN]
    BY ItemFields DEF DataOf, HostData, Unknown, Alive
  <2>5. ASSUME NEW data \in [alive : Alive, ips : SUBSET Ip, wildcard : BOOLEAN]
        PROVE  MergeHost([alive |-> None, ips |-> {}, wildcard |-> FALSE], data) = data
    BY DEF MergeHost, Alive, None
  <2> QED BY <2>3, <2>4, <2>5, JoinedMore
<1> QED BY <1>1, <1>2, <1>3, <1>4 DEF HostsAre, Extended

(* Merging one item keeps the graph what its items make it.                *)
LEMMA SoundKept ==
  ASSUME NEW g, NEW items \in SUBSET Items, Sound(g, items),
         NEW item \in Items, item.type # "broken"
  PROVE  Sound(Merge(g, item), items \union {item})
<1>1. Extended(Merge(g, item), g, item)
  BY ItemAdded, InventoryAssumption DEF Sound
<1>2. GraphOK(Merge(g, item))
  BY GraphKept DEF Sound
<1>3. Tree(Merge(g, item))
  BY <1>1, TreeKept DEF Sound
<1>4. HostsAre(Merge(g, item), items \union {item})
  BY <1>1, HostsKept, InventoryAssumption DEF Sound
<1>5. UrlsAre(Merge(g, item), items \union {item})
  BY <1>1, UrlsKept DEF Sound
<1>6. IsGraph(Merge(g, item))
  BY <1>1 DEF Extended
<1> QED BY <1>2, <1>3, <1>4, <1>5, <1>6 DEF Sound
-----------------------------------------------------------------------------
(* The saved graph is what the items merged into it make it; the copy of a *)
(* command at work, what those and the items it has merged make it.        *)
InventoryInv ==
  /\ TypeOK
  /\ Sound(saved, merged)
  /\ busy => Sound(graph, merged \union pending)

(* The empty graph is what no items make.                                  *)
LEMMA EmptySound == GraphOK(Empty) /\ Sound(Empty, {})
<1>1. IsGraph(Empty) /\ GraphOK(Empty) /\ Tree(Empty)
  BY DEF IsGraph, Empty, GraphOK, Tree
<1>2. HostsAre(Empty, {}) /\ UrlsAre(Empty, {})
  BY DEF Empty, HostsAre, UrlsAre, Naming, Linking
<1> QED BY <1>1, <1>2 DEF Sound

(* A workspace starts without a graph.                                     *)
LEMMA InitHolds == ASSUME Init PROVE InventoryInv
<1>1. /\ saved = Empty /\ graph = Empty /\ todo = <<>> /\ busy = FALSE
      /\ merged = {} /\ pending = {} /\ imports = 0
  BY DEF Init
<1>2. 0 \in 0..MaxImports /\ todo \in Seq(Items)
  BY <1>1, InventoryAssumption
<1>3. TypeOK
  BY <1>1, <1>2, EmptySound DEF TypeOK
<1> QED BY <1>1, <1>3, EmptySound DEF InventoryInv

(* Every step of an import, a save or an export keeps the invariant.       *)
LEMMA StepHolds == ASSUME InventoryInv, [Next]_vars PROVE InventoryInv'
<1>1. /\ GraphOK(saved) /\ GraphOK(graph) /\ busy \in BOOLEAN /\ imports \in 0..MaxImports
      /\ merged \subseteq Items /\ pending \subseteq Items /\ todo \in Seq(Items)
      /\ Sound(saved, merged) /\ (busy => Sound(graph, merged \union pending))
  BY DEF InventoryInv, TypeOK
<1>2. CASE UNCHANGED vars
  <2>1. UNCHANGED <<saved, graph, todo, busy, merged, pending, imports>>
    BY <1>2 DEF vars
  <2> QED BY <1>1, <2>1 DEF InventoryInv, TypeOK
<1>3. CASE \E b \in Bundles : Import(b)
  <2>1. PICK b \in Bundles : Import(b)
    BY <1>3
  <2>2. b \in Seq(Items) /\ imports' \in 0..MaxImports
    BY <1>1, <2>1, InventoryAssumption DEF Import
  <2>3. merged \union {} = merged
    OBVIOUS
  <2> QED BY <1>1, <2>1, <2>2, <2>3 DEF Import, InventoryInv, TypeOK
<1>4. CASE MergeItem
  <2>1. /\ busy /\ todo # <<>> /\ Head(todo) \in Items /\ Head(todo).type # "broken" /\ Tail(todo) \in Seq(Items)
        /\ graph' = Merge(graph, Head(todo)) /\ todo' = Tail(todo) /\ pending' = pending \union {Head(todo)}
        /\ UNCHANGED <<saved, busy, merged, imports>>
    BY <1>1, <1>4 DEF MergeItem
  <2>2. Sound(graph', (merged \union pending) \union {Head(todo)})
    BY <1>1, <2>1, SoundKept
  <2>3. (merged \union pending) \union {Head(todo)} = merged' \union pending'
    BY <2>1
  <2>4. GraphOK(graph')
    BY <2>2 DEF Sound
  <2> QED BY <1>1, <2>1, <2>2, <2>3, <2>4 DEF InventoryInv, TypeOK
<1>5. CASE Raise
  <2>1. busy' = FALSE /\ todo' = <<>> /\ UNCHANGED <<saved, graph, merged, pending, imports>>
    BY <1>5 DEF Raise
  <2>2. todo' \in Seq(Items)
    BY <2>1
  <2>3. TypeOK'
    BY <1>1, <2>1, <2>2 DEF TypeOK
  <2>4. ~busy'
    BY <2>1
  <2> QED BY <1>1, <2>1, <2>3, <2>4 DEF InventoryInv
<1>6. CASE Save
  <2>1. /\ busy /\ saved' = graph /\ busy' = FALSE /\ merged' = merged \union pending
        /\ UNCHANGED <<graph, todo, pending, imports>>
    BY <1>6 DEF Save
  <2>2. Sound(saved', merged')
    BY <1>1, <2>1
  <2>3. TypeOK'
    BY <1>1, <2>1 DEF TypeOK
  <2>4. ~busy'
    BY <2>1
  <2> QED BY <2>2, <2>3, <2>4 DEF InventoryInv
<1> QED BY <1>2, <1>3, <1>4, <1>5, <1>6 DEF Next

(* The invariant holds throughout.                                         *)
LEMMA InventoryInvHolds == Spec => []InventoryInv
<1>1. Init => InventoryInv
  BY InitHolds
<1>2. InventoryInv /\ [Next]_vars => InventoryInv'
  BY StepHolds
<1> QED BY <1>1, <1>2, PTL DEF Spec

(* The graph keeps its types, and an edge never hangs in the air.          *)
THEOREM GraphTypeCorrect == Spec => []TypeOK
<1>1. InventoryInv => TypeOK
  BY DEF InventoryInv
<1> QED BY <1>1, InventoryInvHolds, PTL

(* Edges keep to the hierarchy, and every parameter hangs on an endpoint.  *)
THEOREM HierarchyCorrect == Spec => []HierarchyKept
<1>1. InventoryInv => HierarchyKept
  BY DEF InventoryInv, Sound, Tree, HierarchyKept
<1> QED BY <1>1, InventoryInvHolds, PTL

(* Hosts are the join of what was said, in any order of any imports, and   *)
(* the plan shows them so.                                                 *)
THEOREM HostsCorrect == Spec => []HostsJoined
<1>1. ASSUME InventoryInv PROVE HostsJoined
  <2>1. HostsAre(saved, merged) /\ merged \subseteq Items
    BY <1>1 DEF InventoryInv, TypeOK, Sound
  <2>2. \A h \in Host : Said(merged, h) # {} => h \in DOMAIN saved.hosts
    BY <1>1, <2>1, InventoryAssumption DEF HostsAre, Said, Naming
  <2>3. \A h : saved.hosts[h] = Joined(merged, h) =>
               /\ saved.hosts[h].alive = "yes" <=> \E i \in Said(merged, h) : i.alive = "yes"
               /\ saved.hosts[h].ips # {} <=> \E i \in Said(merged, h) : i.ips # {}
               /\ saved.hosts[h].wildcard <=> \E i \in Said(merged, h) : i.wildcard
    BY DEF Joined, None
  <2>4. DOMAIN saved.hosts \subseteq Host
    BY <1>1 DEF InventoryInv, TypeOK, GraphOK
  <2>5. Live(saved) = {h \in Host : \E i \in Said(merged, h) : i.alive = "yes" \/ i.ips # {}}
    BY <2>1, <2>2, <2>3, <2>4 DEF Live, HostsAre
  <2>6. Flagged(saved) = {h \in Host : \E i \in Said(merged, h) : i.wildcard}
    BY <2>1, <2>2, <2>3, <2>4 DEF Flagged, HostsAre
  <2> QED BY <2>1, <2>5, <2>6 DEF HostsJoined, HostsAre, Naming
<1>2. InventoryInv => HostsJoined
  BY <1>1
<1> QED BY <1>2, InventoryInvHolds, PTL

(* A collection requests each endpoint once at most, by a URL that was     *)
(* imported for it and is in scope, whatever the scope.                    *)
THEOREM ExportCorrect == Spec => []ExportJudged
<1>1. ASSUME InventoryInv PROVE ExportJudged
  <2> SUFFICES ASSUME NEW scope \in Scopes, NEW e \in Endpoint
               PROVE  LET seen == Spellings(merged, e)
                          sent == {u \in ToPostman(saved, scope) : Normal[u] = e}
                      IN  /\ sent \subseteq seen \intersect scope
                          /\ Cardinality(sent) <= 1
                          /\ seen # {} /\ seen \subseteq scope => sent # {}
    BY DEF ExportJudged
  <2> DEFINE seen == Spellings(merged, e)
             sent == {u \in ToPostman(saved, scope) : Normal[u] = e}
  <2>1. UrlsAre(saved, merged)
    BY <1>1 DEF InventoryInv, Sound
  <2>2. \A k \in DOMAIN saved.urls : Normal[saved.urls[k]] = k
    BY <2>1 DEF UrlsAre, Spellings
  <2>3. sent \subseteq {saved.urls[e]} \intersect seen \intersect scope
    BY <2>1, <2>2 DEF UrlsAre, ToPostman
  <2>4. Cardinality(sent) <= 1
    <3>1. IsFiniteSet({saved.urls[e]}) /\ Cardinality({saved.urls[e]}) = 1
      BY FS_Singleton
    <3>2. sent \subseteq {saved.urls[e]}
      BY <2>3
    <3> QED BY <3>1, <3>2, FS_Subset
  <2>5. seen # {} /\ seen \subseteq scope => sent # {}
    <3>1. seen # {} => e \in DOMAIN saved.urls
      BY <2>1 DEF UrlsAre, Spellings, Linking
    <3> QED BY <2>1, <2>2, <3>1 DEF UrlsAre, ToPostman
  <2> QED BY <2>3, <2>4, <2>5
<1>2. InventoryInv => ExportJudged
  BY <1>1
<1> QED BY <1>2, InventoryInvHolds, PTL
-----------------------------------------------------------------------------
(* Content discovery.                                                      *)

(* Types of the state a run of the command keeps.                          *)
ContentTypeOK ==
  /\ wordlist \in Seq(Entry) /\ found \in Seq(Entry)
  /\ next \in Nat \ {0} /\ renewed \in BOOLEAN /\ baseline.failed \in BOOLEAN
  /\ stage \in {"start", "probing", "done", "raised"}

(* Before the baseline is taken nothing has been tried; afterwards, if it  *)
(* was answered, it looks like the missing page of that moment.            *)
BaselineHeld ==
  /\ stage = "start" => baseline.failed /\ found = <<>> /\ next = 1
  /\ ~baseline.failed /\ ~renewed => baseline.looks = Looks(missing)

DiscoveryInv == ContentTypeOK /\ BaselineHeld /\ FilterExact

(* The candidates are entries of the wordlist.                             *)
LEMMA CandidatesType ==
  ASSUME wordlist \in Seq(Entry)
  PROVE  Candidates \in Seq(Entry)
<1> QED BY DiscoveryAssumption DEF Candidates

(* A run starts with nothing found.                                        *)
LEMMA ContentInitHolds == ASSUME ContentInit PROVE DiscoveryInv
<1>1. /\ wordlist \in Seq(Entry) /\ found = <<>> /\ next = 1 /\ stage = "start"
      /\ baseline.failed = TRUE /\ renewed = FALSE
  BY DiscoveryAssumption DEF ContentInit
<1>2. ContentTypeOK
  <2>1. baseline.failed \in BOOLEAN /\ renewed \in BOOLEAN
    BY <1>1, Zenon
  <2>2. found \in Seq(Entry) /\ next \in Nat \ {0}
    BY <1>1
  <2> QED BY <1>1, <2>1, <2>2 DEF ContentTypeOK
<1>3. BaselineHeld
  BY <1>1 DEF BaselineHeld
<1>4. FilterExact
  BY <1>1 DEF FilterExact, MissingNeverReported, PresentReported
<1> QED BY <1>2, <1>3, <1>4 DEF DiscoveryInv

(* The next candidate is passed over: neither part of the filter is about  *)
(* it, because it was refused, or because its request unanswered.              *)
LEMMA PassedOver ==
  ASSUME DiscoveryInv, Candidates \in Seq(Entry), Turn, next' = next + 1, unanswered \subseteq unanswered',
         Candidates[next] \notin allowed \/ next \in unanswered',
         UNCHANGED <<allowed, wordlist, page, missing, renewed, baseline, found, stage>>
  PROVE  DiscoveryInv'
<1>1. next \in Nat \ {0} /\ next' \in Nat \ {0} /\ Candidates' = Candidates
  BY DEF DiscoveryInv, ContentTypeOK, Candidates
<1>2. ContentTypeOK' /\ BaselineHeld' /\ MissingNeverReported'
  BY <1>1 DEF DiscoveryInv, FilterExact, ContentTypeOK, BaselineHeld, MissingNeverReported, Reported, Turn, Looks, Hash, Succeeded
<1>3. Numbers' \subseteq Numbers \union {next}
  BY <1>1 DEF Numbers
<1>4. PresentReported'
  BY <1>1, <1>3 DEF DiscoveryInv, FilterExact, PresentReported, Reported, Looks, Hash, Succeeded
<1> QED BY <1>2, <1>4 DEF DiscoveryInv, FilterExact

(* Every answer, failure and change of the site keeps the invariant.       *)
LEMMA ContentStepHolds == ASSUME DiscoveryInv, [ContentNext]_contentVars PROVE DiscoveryInv'
<1> USE DEF DiscoveryInv, FilterExact
<1>1. ContentTypeOK /\ BaselineHeld /\ MissingNeverReported /\ PresentReported
  OBVIOUS
<1>2. Candidates \in Seq(Entry)
  BY <1>1, CandidatesType DEF ContentTypeOK
<1>3. CASE UNCHANGED contentVars
  <2>1. Candidates' = Candidates /\ Numbers' = Numbers
    BY <1>3 DEF contentVars, Candidates, Numbers
  <2> QED
    BY <1>1, <1>3, <2>1 DEF contentVars, ContentTypeOK, BaselineHeld, MissingNeverReported, PresentReported, Reported, Looks, Hash, Succeeded
<1>4. CASE Decline
  <2>1. Candidates' = Candidates /\ stage = "start" /\ next = 1 /\ Numbers' = {} /\ found' = <<>>
    BY <1>1, <1>2, <1>4 DEF Decline, Candidates, Numbers, BaselineHeld
  <2> QED
    BY <1>1, <1>4, <2>1 DEF Decline, ContentTypeOK, BaselineHeld, MissingNeverReported, PresentReported, Reported, Looks, Hash, Succeeded
<1>5. CASE TakeBaseline
  <2>1. /\ Candidates' = Candidates /\ stage = "start" /\ next = 1 /\ Numbers' = {} /\ found' = <<>>
        /\ stage' = "probing"
    BY <1>1, <1>2, <1>5 DEF TakeBaseline, Starts, Candidates, Numbers, BaselineHeld
  <2>2. /\ baseline'.failed \in BOOLEAN
        /\ baseline'.failed = FALSE => baseline'.looks = Looks(missing)
    <3>1. CASE baseline' = [failed |-> FALSE, looks |-> Looks(missing)]
      <4>1. baseline'.failed = FALSE /\ baseline'.looks = Looks(missing)
        BY <3>1
      <4> QED BY <4>1, Zenon
    <3>2. CASE baseline' = [failed |-> TRUE, looks |-> NoAnswer]
      <4>1. baseline'.failed = TRUE
        BY <3>2
      <4> QED BY <4>1, Zenon
    <3> QED BY <1>5, <3>1, <3>2 DEF TakeBaseline
  <2> QED
    BY <1>1, <1>5, <2>1, <2>2 DEF TakeBaseline, ContentTypeOK, BaselineHeld, MissingNeverReported, PresentReported, Reported, Looks, Hash, Succeeded
<1>6. CASE RefuseCandidate
  BY <1>2, <1>6, PassedOver DEF RefuseCandidate
<1>7. CASE RequestFails
  BY <1>2, <1>7, PassedOver DEF RequestFails
<1>8. CASE Judge
  <2> DEFINE e == Candidates[next]
  <2>1. /\ stage = "probing" /\ next \in DOMAIN Candidates /\ e \in Entry /\ e \in allowed
        /\ next \in Nat \ {0} /\ found \in Seq(Entry) /\ Candidates' = Candidates
    BY <1>1, <1>2, <1>8 DEF Judge, Turn, ContentTypeOK, Candidates
  <2>2. /\ next' = next + 1 /\ stage' = stage
        /\ UNCHANGED <<allowed, wordlist, page, missing, renewed, baseline, unanswered>>
        /\ found' = IF Dropped(Looks(Answer(e))) THEN found ELSE Append(found, e)
    BY <1>8 DEF Judge
  <2>3. found' \in Seq(Entry)
    BY <2>1, <2>2
  <2>4. \A x : Reported(x)' <=> Reported(x) \/ (x = e /\ ~Dropped(Looks(Answer(e))))
    BY <2>1, <2>2 DEF Reported
  <2>5. ContentTypeOK' /\ BaselineHeld'
    BY <1>1, <2>1, <2>2, <2>3 DEF ContentTypeOK, BaselineHeld, Looks, Hash, Succeeded
  <2>6. MissingNeverReported'
    <3> SUFFICES ASSUME ~baseline.failed, ~renewed, e \notin DOMAIN page
                 PROVE  Dropped(Looks(Answer(e)))
      BY <1>1, <2>2, <2>4 DEF MissingNeverReported
    <3> QED BY <1>1 DEF Answer, Dropped, BaselineHeld
  <2>7. PresentReported'
    <3>1. Numbers' \subseteq Numbers \union {next}
      BY <2>1, <2>2 DEF Numbers
    <3>2. ASSUME e \in DOMAIN page, page[e].status \in Interesting,
                 baseline.failed \/ Looks(page[e]) # baseline.looks
          PROVE  ~Dropped(Looks(Answer(e)))
      BY <3>2 DEF Answer, Dropped, Looks
    <3> QED BY <1>1, <2>1, <2>2, <2>4, <3>1, <3>2 DEF PresentReported, Looks, Hash, Succeeded
  <2> QED BY <2>5, <2>6, <2>7
<1>9. CASE BreakOff
  <2>1. Candidates' = Candidates /\ found' = <<>> /\ stage' = "raised"
    BY <1>9 DEF BreakOff, Candidates
  <2> QED
    BY <1>1, <1>9, <2>1 DEF BreakOff, ContentTypeOK, BaselineHeld, MissingNeverReported, PresentReported, Reported, Looks, Hash, Succeeded
<1>10. CASE Finish
  <2>1. Candidates' = Candidates /\ Numbers' = Numbers
    BY <1>10 DEF Finish, Candidates, Numbers
  <2> QED
    BY <1>1, <1>10, <2>1 DEF Finish, ContentTypeOK, BaselineHeld, MissingNeverReported, PresentReported, Reported, Looks, Hash, Succeeded
<1>11. CASE \E a \in Missing : Renew(a)
  <2>1. Candidates' = Candidates /\ Numbers' = Numbers
    BY <1>11 DEF Renew, Candidates, Numbers
  <2> QED
    BY <1>1, <1>11, <2>1 DEF Renew, ContentTypeOK, BaselineHeld, MissingNeverReported, PresentReported, Reported, Looks, Hash, Succeeded
<1> QED BY <1>3, <1>4, <1>5, <1>6, <1>7, <1>8, <1>9, <1>10, <1>11 DEF ContentNext

(* What is reported stands out from the missing page, and whatever is      *)
(* there and stands out is reported: module Discovery says what that means.*)
THEOREM FilterCorrect == ContentSpec => []FilterExact
<1>1. ContentInit => DiscoveryInv
  BY ContentInitHolds
<1>2. DiscoveryInv /\ [ContentNext]_contentVars => DiscoveryInv'
  BY ContentStepHolds
<1>3. DiscoveryInv => FilterExact
  BY DEF DiscoveryInv
<1> QED BY <1>1, <1>2, <1>3, PTL DEF ContentSpec

-----------------------------------------------------------------------------
(* The resolver pool.                                                      *)

(* A name waits, is being resolved, or has an answer, and stays with it.   *)
Resolved ==
  /\ pool \in {"collecting", "leaving", "done", "raised"}
  /\ waiting \subseteq Name /\ running \subseteq Name /\ waiting \intersect running = {}
  /\ answer \in [Name -> Outcomes \union {Pending}]
  /\ \A n \in waiting \union running : answer[n] = Pending

(* What the loop has collected, and what became of it.                     *)
NamesInv ==
  /\ Resolved
  /\ collected \subseteq Name /\ \A n \in collected : answer[n] # Pending
  /\ resolved = {n \in collected : answer[n] = "addresses"}
  /\ pool = "done" => collected = Name /\ hosts = resolved
  /\ pool # "done" => hosts = {}
  /\ pool \in {"leaving", "raised"} => \E n \in Name : answer[n] = "raises"

(* No outcome of the resolver is taken for a name that still waits.        *)
LEMMA PendingIsNone == Pending \notin Outcomes
BY DEF Pending, Outcomes

(* Nothing has been resolved when the pool starts.                         *)
LEMMA NamesInitHolds == NamesInit => NamesInv
BY DEF NamesInit, NamesInv, Resolved

(* Every step of the pool or of its collector keeps the answers whole.     *)
LEMMA NamesStep == NamesInv /\ [NamesNext]_nameVars => NamesInv'
<1> SUFFICES ASSUME NamesInv, [NamesNext]_nameVars PROVE NamesInv'
  OBVIOUS
<1> USE DEF NamesInv, Resolved
<1>1. CASE UNCHANGED nameVars
  BY <1>1 DEF nameVars
<1>2. CASE \E n \in Name : Start(n)
  BY <1>2 DEF Start
<1>3. CASE \E n \in Name : Collect(n)
  <2>1. PICK n \in Name : Collect(n)
    BY <1>3
  <2>2. /\ pool = "collecting" /\ answer[n] # Pending /\ collected' = collected \union {n}
        /\ pool' = IF answer[n] = "raises" THEN "leaving" ELSE pool
        /\ resolved' = IF answer[n] = "addresses" THEN resolved \union {n} ELSE resolved
        /\ UNCHANGED <<waiting, running, answer, hosts>>
    BY <2>1 DEF Collect
  <2>3. resolved' = {k \in collected' : answer'[k] = "addresses"}
    BY <2>2
  <2>4. pool' \in {"leaving", "raised"} => answer'[n] = "raises"
    BY <2>2
  <2> QED BY <2>2, <2>3, <2>4
<1>4. CASE \E n \in Name, o \in Outcomes : Resolve(n, o)
  <2>1. PICK n \in Name, o \in Outcomes : Resolve(n, o)
    BY <1>4
  <2>2. /\ n \in running /\ running' = running \ {n} /\ answer' = [answer EXCEPT ![n] = o]
        /\ UNCHANGED <<pool, waiting, collected, resolved, hosts>>
    BY <2>1 DEF Resolve
  <2>3. answer[n] = Pending /\ n \notin collected /\ n \notin waiting
    BY <2>2
  <2>4. answer' \in [Name -> Outcomes \union {Pending}] /\ \A k \in Name \ {n} : answer'[k] = answer[k]
    BY <2>2
  <2>5. Resolved'
    BY <2>2, <2>3, <2>4
  <2>6. /\ collected' \subseteq Name /\ \A k \in collected' : answer'[k] # Pending
        /\ resolved' = {k \in collected' : answer'[k] = "addresses"}
    BY <2>2, <2>3, <2>4
  <2>7. pool' \in {"leaving", "raised"} => \E k \in Name : answer'[k] = "raises"
    <3> SUFFICES ASSUME pool \in {"leaving", "raised"} PROVE \E k \in Name : answer'[k] = "raises"
      BY <2>2
    <3>1. PICK k \in Name : answer[k] = "raises"
      OBVIOUS
    <3>2. k # n
      BY <2>3, <3>1 DEF Pending
    <3> QED BY <2>4, <3>1, <3>2
  <2> QED BY <2>2, <2>5, <2>6, <2>7
<1>5. CASE AddResolved
  BY <1>5 DEF AddResolved
<1>6. CASE Leave
  BY <1>6 DEF Leave
<1> QED BY <1>1, <1>2, <1>3, <1>4, <1>5, <1>6 DEF NamesNext

(* Whatever order the threads finish in: every name that resolved is added *)
(* to the graph, or none is, and then only because a name raised.          *)
THEOREM NamesCorrect == NamesSpec => []AllOrNothing
<1>1. NamesInv => AllOrNothing
  BY DEF NamesInv, Resolved, AllOrNothing
<1> QED BY <1>1, NamesInitHolds, NamesStep, PTL DEF NamesSpec

-----------------------------------------------------------------------------
(* The sitemap reader.                                                     *)

(* Induction over the natural numbers, stated with a set.                  *)
LEMMA Induct ==
  ASSUME NEW S, 0 \in S, \A n \in Nat : n \in S => n + 1 \in S
  PROVE  Nat \subseteq S
<1> DEFINE T == Nat \ S
           R == OpToRel(<, Nat)
<1> SUFFICES ASSUME T # {} PROVE FALSE
  OBVIOUS
<1>1. R = {ss \in Nat \X Nat : ss[1] < ss[2]}
  BY DEF OpToRel
<1>2. IsWellFoundedOn(R, Nat)
  BY NatLessThanWellFounded, Zenon
<1> HIDE DEF R
<1>3. PICK x \in T : \A y \in T : <<y, x>> \notin R
  <2> HIDE DEF T
  <2>1. T \subseteq Nat
    BY DEF T
  <2> QED BY <1>2, <2>1, WFMin
<1>4. x \in Nat \ {0} /\ x - 1 \in Nat /\ (x - 1) + 1 = x
  OBVIOUS
<1>5. x - 1 \notin T
  <2>1. x - 1 < x
    BY <1>4
  <2> QED BY <1>1, <1>3, <1>4, <2>1
<1> QED BY <1>4, <1>5

Steps(V, N) == [1..N -> [V -> V]]
Recursive(V, N, first, step) ==
  \E f \in [0..N -> V] : \A n \in 0..N : f[n] = IF n = 0 THEN first ELSE step[n][f[n - 1]]

(* A recursion over 0..N has a solution, whatever is done in each step.    *)
LEMMA Recursion ==
  ASSUME NEW V, NEW N \in Nat, NEW first \in V, NEW step \in Steps(V, N)
  PROVE  Recursive(V, N, first, step)
<1> USE DEF Steps, Recursive
<1> DEFINE Solves(f, k) == /\ f \in [0..k -> V]
                           /\ \A n \in 0..k : f[n] = IF n = 0 THEN first ELSE step[n][f[n - 1]]
           Good == {k \in Nat : k <= N => \E f : Solves(f, k)}
<1>1. 0 \in Good
  <2>1. Solves([n \in 0..0 |-> first], 0)
    OBVIOUS
  <2> QED BY <2>1
<1>2. ASSUME NEW k \in Nat, k \in Good PROVE k + 1 \in Good
  <2> SUFFICES ASSUME k + 1 <= N PROVE \E f : Solves(f, k + 1)
    OBVIOUS
  <2>1. PICK f : Solves(f, k)
    BY <1>2
  <2> DEFINE more == [n \in 0..(k + 1) |-> IF n = k + 1 THEN step[k + 1][f[k]] ELSE f[n]]
  <2>2. k \in 0..k /\ k + 1 \in 1..N /\ f[k] \in V /\ step[k + 1][f[k]] \in V
    BY <2>1
  <2>3. more \in [0..(k + 1) -> V]
    BY <2>1, <2>2
  <2>4. ASSUME NEW n \in 0..(k + 1) PROVE more[n] = IF n = 0 THEN first ELSE step[n][more[n - 1]]
    <3>1. CASE n = k + 1
      <4>1. more[n] = step[k + 1][f[k]] /\ more[n - 1] = f[k] /\ n # 0
        BY <3>1
      <4> QED BY <3>1, <4>1
    <3>2. CASE n # k + 1
      <4>1. n \in 0..k /\ more[n] = f[n] /\ (n # 0 => more[n - 1] = f[n - 1])
        BY <3>2
      <4> QED BY <2>1, <4>1
    <3> QED BY <3>1, <3>2
  <2> HIDE DEF more
  <2>5. Solves(more, k + 1)
    BY <2>3, <2>4
  <2> QED BY <2>5
<1>3. \E f : Solves(f, N)
  <2>1. N \in Good
    <3> HIDE DEF Good
    <3> QED BY <1>1, <1>2, Induct
  <2> QED BY <2>1
<1> QED BY <1>3

(* What is kept of a list of URLs is in scope.                             *)
LEMMA KeptInScope ==
  ASSUME NEW S, NEW urls \in Seq(S)
  PROVE  Kept(urls) \in Seq(S \intersect Allowed)
<1> DEFINE V == Seq(S \intersect Allowed)
           N == Len(urls)
           step == [n \in 1..N |-> [v \in V |-> IF urls[n] \in Allowed THEN Append(v, urls[n]) ELSE v]]
           IsKept(f) == f = [n \in 0..N |-> IF n = 0 THEN <<>>
                                             ELSE IF urls[n] \in Allowed THEN Append(f[n - 1], urls[n])
                                             ELSE f[n - 1]]
           kept == CHOOSE f : IsKept(f)
<1>1. N \in Nat /\ <<>> \in V /\ \A n \in 1..N : urls[n] \in S
  OBVIOUS
<1>2. \A n \in 1..N, v \in V : urls[n] \in Allowed => Append(v, urls[n]) \in V
  <2> SUFFICES ASSUME NEW n \in 1..N, NEW v \in V, urls[n] \in Allowed PROVE Append(v, urls[n]) \in V
    OBVIOUS
  <2>1. urls[n] \in S \intersect Allowed
    BY <1>1
  <2> QED BY <2>1, AppendProperties
<1> HIDE DEF V, N
<1>3. step \in Steps(V, N)
  BY <1>2 DEF Steps
<1>4. \E f : IsKept(f)
  <2>1. PICK f \in [0..N -> V] : \A n \in 0..N : f[n] = IF n = 0 THEN <<>> ELSE step[n][f[n - 1]]
    <3>1. Recursive(V, N, <<>>, step)
      <4> HIDE DEF step
      <4> QED BY <1>1, <1>3, Recursion
    <3> QED BY <3>1 DEF Recursive
  <2>2. \A n \in 0..N : n # 0 => n \in 1..N /\ f[n - 1] \in V
    BY <1>1
  <2>3. \A n \in 0..N : f[n] = IF n = 0 THEN <<>> ELSE IF urls[n] \in Allowed THEN Append(f[n - 1], urls[n])
                                                  ELSE f[n - 1]
    BY <2>1, <2>2
  <2>4. IsKept(f)
    BY <2>1, <2>3
  <2> HIDE DEF IsKept
  <2> QED BY <2>4
<1>5. IsKept(kept)
  <2> HIDE DEF IsKept
  <2> QED BY <1>4
<1>6. Kept(urls) = kept[N]
  BY DEF Kept, N
<1> HIDE DEF kept
<1> DEFINE Good == {n \in Nat : n <= N => kept[n] \in V}
<1>7. 0 \in Good
  BY <1>1, <1>5
<1>8. ASSUME NEW n \in Nat, n \in Good PROVE n + 1 \in Good
  <2> SUFFICES ASSUME n + 1 <= N PROVE kept[n + 1] \in V
    OBVIOUS
  <2>1. n + 1 \in 1..N /\ n + 1 \in 0..N /\ n + 1 # 0 /\ (n + 1) - 1 = n /\ kept[n] \in V
    BY <1>1, <1>8
  <2>2. kept[n + 1] = IF urls[n + 1] \in Allowed THEN Append(kept[n], urls[n + 1]) ELSE kept[n]
    BY <1>5, <2>1
  <2> QED BY <1>2, <2>1, <2>2
<1>9. N \in Good
  <2> HIDE DEF Good
  <2> QED BY <1>1, <1>7, <1>8, Induct
<1> QED BY <1>1, <1>6, <1>9 DEF V

(* A sequence of sequences, joined one after the other.                    *)
Flattens(flat, seqs, S) ==
  /\ flat \in [0..Len(seqs) -> Seq(S)] /\ flat[0] = <<>>
  /\ \A n \in 1..Len(seqs) : flat[n] = flat[n - 1] \o seqs[n]

(* Concat is what its recursion says.                                      *)
LEMMA ConcatEquation ==
  ASSUME NEW S, NEW seqs \in Seq(Seq(S))
  PROVE  \E flat : Flattens(flat, seqs, S) /\ Concat(seqs) = flat[Len(seqs)]
<1> DEFINE V == Seq(S)
           N == Len(seqs)
           step == [n \in 1..N |-> [v \in V |-> v \o seqs[n]]]
           IsFlat(f) == f = [n \in 0..N |-> IF n = 0 THEN <<>> ELSE f[n - 1] \o seqs[n]]
           flat == CHOOSE f : IsFlat(f)
<1>1. N \in Nat /\ <<>> \in V /\ \A n \in 1..N : seqs[n] \in V
  OBVIOUS
<1>2. \A n \in 1..N, v \in V : v \o seqs[n] \in V
  BY <1>1, ConcatProperties
<1> HIDE DEF V, N
<1>3. step \in Steps(V, N)
  BY <1>2 DEF Steps
<1>4. \E f : IsFlat(f)
  <2>1. PICK f \in [0..N -> V] : \A n \in 0..N : f[n] = IF n = 0 THEN <<>> ELSE step[n][f[n - 1]]
    <3>1. Recursive(V, N, <<>>, step)
      <4> HIDE DEF step
      <4> QED BY <1>1, <1>3, Recursion
    <3> QED BY <3>1 DEF Recursive
  <2>2. \A n \in 0..N : n # 0 => n \in 1..N /\ f[n - 1] \in V
    BY <1>1
  <2>3. \A n \in 0..N : f[n] = IF n = 0 THEN <<>> ELSE f[n - 1] \o seqs[n]
    BY <2>1, <2>2
  <2>4. IsFlat(f)
    BY <2>1, <2>3
  <2> HIDE DEF IsFlat
  <2> QED BY <2>4
<1>5. IsFlat(flat)
  <2> HIDE DEF IsFlat
  <2> QED BY <1>4
<1>6. Concat(seqs) = flat[N]
  BY DEF Concat, N
<1> HIDE DEF flat
<1>7. flat[0] = <<>> /\ \A n \in 1..N : flat[n] = flat[n - 1] \o seqs[n]
  <2>1. 0 \in 0..N /\ \A n \in 1..N : n \in 0..N /\ n # 0
    BY <1>1
  <2> QED BY <1>5, <2>1
<1> DEFINE Good == {n \in Nat : n <= N => flat[n] \in V}
<1>8. 0 \in Good
  BY <1>1, <1>7
<1>9. ASSUME NEW n \in Nat, n \in Good PROVE n + 1 \in Good
  <2> SUFFICES ASSUME n + 1 <= N PROVE flat[n + 1] \in V
    OBVIOUS
  <2>1. n + 1 \in 1..N /\ (n + 1) - 1 = n /\ flat[n] \in V
    BY <1>1, <1>9
  <2>2. flat[n + 1] = flat[n] \o seqs[n + 1]
    BY <1>7, <2>1
  <2> QED BY <1>2, <2>1, <2>2
<1>10. Nat \subseteq Good
  <2> HIDE DEF Good
  <2> QED BY <1>8, <1>9, Induct
<1>11. flat \in [0..N -> V]
  <2>1. \A n \in 0..N : flat[n] \in V
    BY <1>1, <1>10
  <2> QED BY <1>5, <2>1
<1>12. Flattens(flat, seqs, S)
  BY <1>7, <1>11 DEF Flattens, V, N
<1> QED BY <1>6, <1>12 DEF N

(* Of an empty list nothing is left, of any other its head and what is     *)
(* left of its tail.                                                       *)
LEMMA ConcatFacts ==
  ASSUME NEW S, NEW seqs \in Seq(Seq(S))
  PROVE  /\ Concat(seqs) \in Seq(S)
         /\ seqs = <<>> => Concat(seqs) = <<>>
         /\ seqs # <<>> => Concat(seqs) = Head(seqs) \o Concat(Tail(seqs))
<1>1. PICK flat : Flattens(flat, seqs, S) /\ Concat(seqs) = flat[Len(seqs)]
  BY ConcatEquation
<1>2. Len(seqs) \in Nat /\ Len(seqs) \in 0..Len(seqs)
  OBVIOUS
<1>3. Concat(seqs) \in Seq(S) /\ (seqs = <<>> => Concat(seqs) = <<>>)
  <2>1. seqs = <<>> => Len(seqs) = 0
    OBVIOUS
  <2> QED BY <1>1, <1>2, <2>1 DEF Flattens
<1>4. ASSUME seqs # <<>> PROVE Concat(seqs) = Head(seqs) \o Concat(Tail(seqs))
  <2> DEFINE rest == Tail(seqs)
             head == Head(seqs)
             N == Len(rest)
  <2>1. /\ rest \in Seq(Seq(S)) /\ head \in Seq(S) /\ N \in Nat /\ Len(seqs) = N + 1
        /\ head = seqs[1] /\ \A i \in 1..N : rest[i] = seqs[i + 1]
    BY <1>4, HeadTailProperties
  <2> HIDE DEF rest, head
  <2>2. PICK more : Flattens(more, rest, S) /\ Concat(rest) = more[N]
    BY <2>1, ConcatEquation
  <2>3. /\ \A n \in 0..N : more[n] \in Seq(S)
        /\ more[0] = <<>> /\ \A n \in 1..N : more[n] = more[n - 1] \o rest[n]
        /\ flat[0] = <<>> /\ \A n \in 1..(N + 1) : flat[n] = flat[n - 1] \o seqs[n]
    BY <1>1, <2>1, <2>2 DEF Flattens
  <2> HIDE DEF N
  <2> DEFINE Good == {n \in Nat : n <= N => flat[n + 1] = head \o more[n]}
  <2>4. 0 \in Good
    <3>1. 1 \in 1..(N + 1) /\ 1 - 1 = 0 /\ 0 + 1 = 1
      BY <2>1
    <3>2. flat[1] = <<>> \o head
      BY <2>1, <2>3, <3>1
    <3>3. <<>> \o head = head \o <<>>
      BY <2>1, ConcatEmptySeq
    <3> QED BY <2>3, <3>1, <3>2, <3>3
  <2>5. ASSUME NEW n \in Nat, n \in Good PROVE n + 1 \in Good
    <3> SUFFICES ASSUME n + 1 <= N PROVE flat[(n + 1) + 1] = head \o more[n + 1]
      OBVIOUS
    <3>0. /\ n + 1 \in 1..N /\ (n + 1) + 1 \in 1..(N + 1) /\ ((n + 1) + 1) - 1 = n + 1
          /\ (n + 1) - 1 = n /\ n \in 0..N /\ n <= N
      <4>1. N \in Nat
        BY <2>1
      <4> QED BY <4>1
    <3>1. flat[n + 1] = head \o more[n]
      BY <2>5, <3>0
    <3>2. flat[(n + 1) + 1] = flat[n + 1] \o seqs[(n + 1) + 1]
      BY <2>3, <3>0
    <3>3. seqs[(n + 1) + 1] = rest[n + 1] /\ more[n + 1] = more[n] \o rest[n + 1]
      BY <2>1, <2>3, <3>0
    <3>4. rest[n + 1] \in Seq(S)
      BY <2>1, <3>0 DEF N
    <3>5. (head \o more[n]) \o rest[n + 1] = head \o (more[n] \o rest[n + 1])
      <4>1. head \in Seq(S) /\ more[n] \in Seq(S)
        BY <2>1, <2>3, <3>0
      <4>2. \A x, y, z \in Seq(S) : (x \o y) \o z = x \o (y \o z)
        BY ConcatAssociative
      <4> QED BY <3>4, <4>1, <4>2, Zenon
    <3> QED BY <3>1, <3>2, <3>3, <3>5
  <2>6. N \in Good
    <3> HIDE DEF Good
    <3> QED BY <2>1, <2>4, <2>5, Induct
  <2>7. flat[N + 1] = head \o more[N]
    <3>1. N <= N
      <4>1. N \in Nat
        BY <2>1
      <4> QED BY <4>1
    <3> QED BY <2>6, <3>1
  <2> QED BY <1>1, <2>1, <2>2, <2>7 DEF head, rest
<1> QED BY <1>3, <1>4

-----------------------------------------------------------------------------
(* What one sitemap lists, given what those it names list.                 *)
Lists(below, m) ==
  IF m \notin Allowed THEN <<>> ELSE Concat([i \in DOMAIN child[m] |-> below[child[m][i]]]) \o Kept(Locs[m])

(* The pages in scope.                                                     *)
InScopePages == Page \intersect Allowed

(* The listings are sequences of pages in scope, and they are what their   *)
(* recursion says.                                                         *)
LEMMA ListsType ==
  ASSUME child \in [Map -> Seq(Map)], NEW below \in [Map -> Seq(InScopePages)], NEW m \in Map
  PROVE  Lists(below, m) \in Seq(InScopePages)
<1> DEFINE lower == [i \in DOMAIN child[m] |-> below[child[m][i]]]
<1>1. child[m] \in Seq(Map) /\ DOMAIN child[m] = 1..Len(child[m]) /\ Len(child[m]) \in Nat
  BY LenProperties
<1>2. lower \in Seq(Seq(InScopePages))
  <2>1. \A i \in 1..Len(child[m]) : child[m][i] \in Map
    BY <1>1, ElementOfSeq
  <2>2. lower = [i \in 1..Len(child[m]) |-> below[child[m][i]]]
    BY <1>1
  <2>3. \A i \in 1..Len(child[m]) : below[child[m][i]] \in Seq(InScopePages)
    BY <2>1
  <2> DEFINE n == Len(child[m])
             T == Seq(InScopePages)
  <2> HIDE DEF lower
  <2>4. lower \in [1..n -> T] /\ n \in Nat
    BY <1>1, <2>2, <2>3
  <2> HIDE DEF n, T
  <2>5. lower \in Seq(T)
    BY <2>4
  <2> QED BY <2>5 DEF T
<1> HIDE DEF lower
<1>3. Concat(lower) \in Seq(InScopePages)
  BY <1>2, ConcatFacts
<1>4. Kept(Locs[m]) \in Seq(InScopePages)
  BY SitemapAssumption, KeptInScope DEF InScopePages
<1>5. Concat(lower) \o Kept(Locs[m]) \in Seq(InScopePages)
  BY <1>3, <1>4, ConcatProperties
<1> QED BY <1>5 DEF Lists, lower

(* Listing is what its recursion over the depth says.                      *)
LEMMA ListingEquation ==
  ASSUME child \in [Map -> Seq(Map)]
  PROVE  /\ \A d \in 0..DepthLimit : Listing[d] \in [Map -> Seq(InScopePages)]
         /\ \A m \in Map : Listing[0][m] = <<>>
         /\ \A d \in 1..DepthLimit, m \in Map : Listing[d][m] = Lists(Listing[d - 1], m)
<1> DEFINE V == [Map -> Seq(InScopePages)]
           N == DepthLimit
           none == [m \in Map |-> <<>>]
           step == [n \in 1..N |-> [v \in V |-> [m \in Map |-> Lists(v, m)]]]
           IsListing(f) ==
             f = [d \in 0..N |->
                    [m \in Map |->
                       IF d = 0 \/ m \notin Allowed THEN <<>>
                       ELSE Concat([i \in DOMAIN child[m] |-> f[d - 1][child[m][i]]]) \o Kept(Locs[m])]]
           listing == CHOOSE f : IsListing(f)
<1>1. N \in Nat /\ none \in V
  BY SitemapAssumption
<1>2. \A v \in V : [m \in Map |-> Lists(v, m)] \in V
  BY ListsType
<1>3. step \in Steps(V, N)
  BY <1>2 DEF Steps
<1>4. \A f : IsListing(f) <=> f = [d \in 0..N |-> [m \in Map |-> IF d = 0 THEN <<>> ELSE Lists(f[d - 1], m)]]
  <2> SUFFICES ASSUME NEW f
               PROVE  [d \in 0..N |->
                         [m \in Map |->
                            IF d = 0 \/ m \notin Allowed THEN <<>>
                            ELSE Concat([i \in DOMAIN child[m] |-> f[d - 1][child[m][i]]]) \o Kept(Locs[m])]]
                      = [d \in 0..N |-> [m \in Map |-> IF d = 0 THEN <<>> ELSE Lists(f[d - 1], m)]]
    OBVIOUS
  <2> QED BY DEF Lists
<1> HIDE DEF V, IsListing
<1>5. \E f : IsListing(f)
  <2>1. PICK f \in [0..N -> V] : \A n \in 0..N : f[n] = IF n = 0 THEN none ELSE step[n][f[n - 1]]
    <3>1. Recursive(V, N, none, step)
      <4> HIDE DEF step, none, N
      <4> QED BY <1>1, <1>3, Recursion
    <3> QED BY <3>1 DEF Recursive
  <2>2. \A n \in 0..N : n # 0 => n \in 1..N /\ f[n - 1] \in V
    BY <1>1
  <2>3. \A n \in 0..N : f[n] = [m \in Map |-> IF n = 0 THEN <<>> ELSE Lists(f[n - 1], m)]
    <3> SUFFICES ASSUME NEW n \in 0..N PROVE f[n] = [m \in Map |-> IF n = 0 THEN <<>> ELSE Lists(f[n - 1], m)]
      OBVIOUS
    <3>1. CASE n = 0
      BY <2>1, <3>1
    <3>2. CASE n # 0
      <4>1. f[n] = step[n][f[n - 1]] /\ n \in 1..N /\ f[n - 1] \in V
        BY <2>1, <2>2, <3>2
      <4>2. step[n][f[n - 1]] = [m \in Map |-> Lists(f[n - 1], m)]
        BY <4>1
      <4> QED BY <3>2, <4>1, <4>2
    <3> QED BY <3>1, <3>2
  <2>4. f = [d \in 0..N |-> [m \in Map |-> IF d = 0 THEN <<>> ELSE Lists(f[d - 1], m)]]
    BY <2>1, <2>3
  <2>5. IsListing(f)
    BY <1>4, <2>4
  <2> QED BY <2>5
<1>6. IsListing(listing)
  BY <1>5
<1>7. Listing = listing
  BY DEF Listing, IsListing
<1> HIDE DEF listing
<1>8. Listing = [d \in 0..N |-> [m \in Map |-> IF d = 0 THEN <<>> ELSE Lists(Listing[d - 1], m)]]
  BY <1>4, <1>6, <1>7
<1>9. \A d \in 0..N : Listing[d] = [m \in Map |-> IF d = 0 THEN <<>> ELSE Lists(Listing[d - 1], m)]
  BY <1>8
<1> HIDE DEF N
<1> DEFINE Good == {d \in Nat : d <= N => Listing[d] \in V}
<1>10. 0 \in Good
  <2>1. 0 \in 0..N
    BY <1>1
  <2>2. Listing[0] = none
    BY <1>9, <2>1
  <2> QED BY <1>1, <2>2
<1>11. ASSUME NEW d \in Nat, d \in Good PROVE d + 1 \in Good
  <2> SUFFICES ASSUME d + 1 <= N PROVE Listing[d + 1] \in V
    OBVIOUS
  <2>1. d + 1 \in 0..N /\ d + 1 # 0 /\ (d + 1) - 1 = d /\ Listing[d] \in V
    BY <1>1, <1>11
  <2>2. Listing[d + 1] = [m \in Map |-> Lists(Listing[d], m)]
    BY <1>9, <2>1
  <2> QED BY <1>2, <2>1, <2>2
<1>12. Nat \subseteq Good
  <2> HIDE DEF Good
  <2> QED BY <1>10, <1>11, Induct
<1>13. \A d \in 0..N : Listing[d] \in V
  BY <1>1, <1>12
<1>14. \A m \in Map : Listing[0][m] = <<>>
  <2>1. 0 \in 0..N
    BY <1>1
  <2> QED BY <1>9, <2>1
<1>15. \A d \in 1..N, m \in Map : Listing[d][m] = Lists(Listing[d - 1], m)
  <2> SUFFICES ASSUME NEW d \in 1..N, NEW m \in Map PROVE Listing[d][m] = Lists(Listing[d - 1], m)
    OBVIOUS
  <2>1. d \in 0..N /\ d # 0
    BY <1>1
  <2>2. Listing[d] = [k \in Map |-> Lists(Listing[d - 1], k)]
    BY <1>9, <2>1
  <2> QED BY <2>2
<1> QED BY <1>13, <1>14, <1>15 DEF V, N

(* What the sitemaps of a list are to add, given what each one lists, and  *)
(* what a frame is to add until it is gone.                                *)
Output(lists, maps) == Concat([i \in DOMAIN maps |-> lists[maps[i]]])
Owed(lists, frame) == Output(lists, frame.todo) \o frame.adds

Frame == [todo : Seq(Map), adds : Seq(InScopePages)]

(* A list adds what its head lists, then what its tail adds.               *)
LEMMA OutputFacts ==
  ASSUME NEW lists \in [Map -> Seq(InScopePages)], NEW maps \in Seq(Map)
  PROVE  /\ Output(lists, maps) \in Seq(InScopePages)
         /\ maps = <<>> => Output(lists, maps) = <<>>
         /\ maps # <<>> => Output(lists, maps) = lists[Head(maps)] \o Output(lists, Tail(maps))
<1> DEFINE T == Seq(InScopePages)
           Each(s) == [i \in DOMAIN s |-> lists[s[i]]]
<1>1. ASSUME NEW s \in Seq(Map) PROVE Each(s) \in Seq(T) /\ Len(Each(s)) = Len(s)
  <2> DEFINE n == Len(s)
             each == Each(s)
  <2>1. n \in Nat /\ DOMAIN s = 1..n /\ \A i \in 1..n : s[i] \in Map
    OBVIOUS
  <2> HIDE DEF T, n
  <2>2. each = [i \in 1..n |-> lists[s[i]]] /\ \A i \in 1..n : lists[s[i]] \in T
    BY <2>1 DEF T
  <2> HIDE DEF each
  <2>3. each \in [1..n -> T]
    BY <2>2
  <2>4. each \in Seq(T) /\ Len(each) = n
    BY <2>1, <2>3
  <2> QED BY <2>4 DEF each, n
<1>2. Each(maps) \in Seq(T) /\ Len(Each(maps)) = Len(maps)
  BY <1>1
<1>3. Concat(Each(maps)) \in T /\ (Each(maps) = <<>> => Concat(Each(maps)) = <<>>)
  <2> HIDE DEF Each
  <2> QED BY <1>2, ConcatFacts
<1>4. maps = <<>> => Each(maps) = <<>>
  OBVIOUS
<1>5. ASSUME maps # <<>> PROVE Concat(Each(maps)) = lists[Head(maps)] \o Concat(Each(Tail(maps)))
  <2>1. /\ Tail(maps) \in Seq(Map) /\ Len(maps) \in Nat \ {0} /\ Len(Tail(maps)) = Len(maps) - 1
        /\ Head(maps) = maps[1] /\ \A i \in 1..Len(Tail(maps)) : Tail(maps)[i] = maps[i + 1]
    BY <1>5, HeadTailProperties
  <2>2. Each(Tail(maps)) \in Seq(T) /\ Len(Each(Tail(maps))) = Len(maps) - 1
    BY <1>1, <2>1
  <2>3. Each(maps) # <<>> /\ Head(Each(maps)) = lists[Head(maps)]
    <3>1. 1 \in DOMAIN maps /\ Each(maps)[1] = lists[maps[1]]
      BY <2>1
    <3> HIDE DEF Each
    <3> QED BY <1>2, <2>1, <3>1
  <2>4. \A i \in 1..(Len(maps) - 1) : Each(Tail(maps))[i] = lists[maps[i + 1]] /\ Each(maps)[i + 1] = lists[maps[i + 1]]
    BY <2>1
  <2> HIDE DEF Each, T
  <2>5. /\ Tail(Each(maps)) \in Seq(T) /\ Len(Tail(Each(maps))) = Len(maps) - 1
        /\ \A i \in 1..(Len(maps) - 1) : Tail(Each(maps))[i] = Each(maps)[i + 1]
    BY <1>2, <2>3, HeadTailProperties
  <2>6. Tail(Each(maps)) = Each(Tail(maps))
    BY <2>2, <2>4, <2>5, SeqEqual
  <2>7. Concat(Each(maps)) = Head(Each(maps)) \o Concat(Tail(Each(maps)))
    BY <1>2, <2>3, ConcatFacts DEF T
  <2> QED BY <2>3, <2>6, <2>7
<1> QED BY <1>3, <1>4, <1>5 DEF Output

(* Types of the reader's state; the stack is there while it runs.          *)
ReaderType ==
  /\ child \in [Map -> Seq(Map)] /\ named \in Seq(Map)
  /\ frames \in Seq(Frame) /\ Len(frames) <= DepthLimit + 1
  /\ results \in Seq(InScopePages) /\ fetched \subseteq Allowed
  /\ state = "start" => results = <<>>
  /\ state # "run" => frames = <<>>

(* While no fetch failed, what was returned and what the stack still owes  *)
(* is what robots.txt makes the whole listing be: owed[k] is what the      *)
(* frames from the k-th down to the first are to add.                      *)
Pays(owed, listing, stack, got, sitemaps) ==
  /\ owed \in [0..Len(stack) -> Seq(InScopePages)] /\ owed[0] = <<>>
  /\ \A k \in 1..Len(stack) : owed[k] = Owed(listing[DepthLimit + 1 - k], stack[k]) \o owed[k - 1]
  /\ got \o owed[Len(stack)] = Output(listing[DepthLimit], sitemaps)

Balanced == state # "start" /\ ~failed => \E owed : Pays(owed, Listing, frames, results, named)

ReaderInv == ReaderType /\ Balanced

(* Before robots.txt is read, nothing is owed.                             *)
LEMMA ReaderInit == RobotsInit => ReaderInv
<1> SUFFICES ASSUME RobotsInit PROVE ReaderInv
  OBVIOUS
<1>1. ReaderType
  BY SitemapAssumption DEF RobotsInit, ReaderType
<1>2. Balanced
  BY DEF RobotsInit, Balanced
<1> QED BY <1>1, <1>2 DEF ReaderInv

(* A call takes one sitemap off the top of the stack.                      *)
LEMMA PoppedFacts ==
  ASSUME ReaderType, NEW m \in Map, Calls(m)
  PROVE  /\ state = "run" /\ Len(frames) \in Nat \ {0}
         /\ Popped \in Seq(Frame) /\ Len(Popped) = Len(frames)
         /\ \A k \in 1..(Len(frames) - 1) : Popped[k] = frames[k]
         /\ frames[Len(frames)] \in Frame /\ frames[Len(frames)].todo # <<>>
         /\ Head(frames[Len(frames)].todo) = m
         /\ Popped[Len(frames)].todo = Tail(frames[Len(frames)].todo)
         /\ Popped[Len(frames)].adds = frames[Len(frames)].adds
<1> DEFINE n == Len(frames)
           top == frames[n]
           less == [top EXCEPT !.todo = Tail(@)]
<1>1. state = "run" /\ frames # <<>> /\ frames \in Seq(Frame) /\ top.todo # <<>> /\ Head(top.todo) = m
  BY DEF Calls, Running, Top, ReaderType
<1>2. n \in Nat \ {0} /\ top \in Frame /\ n \in 1..n
  BY <1>1
<1>3. less \in Frame /\ less.todo = Tail(top.todo) /\ less.adds = top.adds
  <2>1. top.todo \in Seq(Map) /\ Tail(top.todo) \in Seq(Map)
    BY <1>1, <1>2 DEF Frame
  <2> QED BY <1>2, <2>1 DEF Frame
<1>4. Popped = [frames EXCEPT ![n] = less]
  BY DEF Popped
<1> HIDE DEF less
<1>5. Popped \in Seq(Frame) /\ Len(Popped) = n /\ \A k \in 1..n : Popped[k] = IF k = n THEN less ELSE frames[k]
  BY <1>1, <1>2, <1>3, <1>4, ExceptSeq
<1> QED BY <1>1, <1>2, <1>3, <1>5

(* A frame owes a sequence of pages in scope.                              *)
LEMMA OwedType ==
  ASSUME NEW lists \in [Map -> Seq(InScopePages)], NEW frame \in Frame
  PROVE  /\ frame.adds \in Seq(InScopePages) /\ Output(lists, frame.todo) \in Seq(InScopePages)
         /\ Owed(lists, frame) \in Seq(InScopePages)
<1>1. frame.todo \in Seq(Map) /\ frame.adds \in Seq(InScopePages)
  BY DEF Frame
<1>2. Output(lists, frame.todo) \in Seq(InScopePages)
  BY <1>1, OutputFacts
<1>3. Output(lists, frame.todo) \o frame.adds \in Seq(InScopePages)
  BY <1>1, <1>2, ConcatProperties
<1> QED BY <1>1, <1>2, <1>3 DEF Owed

(* The types, step by step.                                                *)
LEMMA ReaderTypeStep == ASSUME ReaderType, [RobotsNext]_robotVars PROVE ReaderType'
<1> USE DEF ReaderType
<1>1. CASE UNCHANGED robotVars
  BY <1>1 DEF robotVars
<1>2. CASE FetchRobots
  <2>1. named' \in Seq(Map)
    <3>1. named' \in Robots \/ named' = <<>>
      BY <1>2 DEF FetchRobots
    <3> QED BY <3>1, SitemapAssumption, EmptySeq
  <2>2. [todo |-> named', adds |-> <<>>] \in Frame
    BY <2>1 DEF Frame
  <2>3. frames' \in Seq(Frame) /\ Len(frames') = 1
    BY <1>2, <2>2 DEF FetchRobots
  <2> QED BY <1>2, <2>1, <2>3, SitemapAssumption DEF FetchRobots
<1>3. ASSUME NEW m \in Map, Refuse(m) \/ FetchFails(m) \/ TooDeep(m) PROVE ReaderType'
  <2>1. /\ Calls(m) /\ frames' = Popped /\ UNCHANGED <<child, named, state, results>>
        /\ fetched' \subseteq Allowed
    BY <1>3 DEF Refuse, FetchFails, TooDeep
  <2>2. state = "run" /\ Popped \in Seq(Frame) /\ Len(Popped) = Len(frames)
    BY <2>1, PoppedFacts
  <2> QED BY <2>1, <2>2
<1>4. ASSUME NEW m \in Map, Fetch(m) PROVE ReaderType'
  <2> DEFINE new == [todo |-> child[m], adds |-> Kept(Locs[m])]
  <2>1. /\ Calls(m) /\ Len(frames) <= DepthLimit /\ frames' = Append(Popped, new)
        /\ UNCHANGED <<child, named, state, results>> /\ fetched' \subseteq Allowed
    BY <1>4 DEF Fetch
  <2>2. state = "run" /\ Popped \in Seq(Frame) /\ Len(Popped) = Len(frames)
    BY <2>1, PoppedFacts
  <2>3. new \in Frame
    <3>1. Kept(Locs[m]) \in Seq(InScopePages)
      BY SitemapAssumption, KeptInScope DEF InScopePages
    <3> QED BY <3>1 DEF Frame
  <2> HIDE DEF new
  <2>4. frames' \in Seq(Frame) /\ Len(frames') = Len(frames) + 1
    BY <2>1, <2>2, <2>3, AppendProperties
  <2>5. Len(frames') <= DepthLimit + 1
    BY <2>1, <2>4, LenProperties, SitemapAssumption
  <2> QED BY <2>1, <2>2, <2>4, <2>5
<1>5. CASE Return
  <2> DEFINE n == Len(frames)
  <2>1. /\ state = "run" /\ frames # <<>> /\ results' = results \o frames[n].adds
        /\ frames' = SubSeq(frames, 1, n - 1) /\ state' = IF n = 1 THEN "done" ELSE state
        /\ UNCHANGED <<child, named, fetched, failed>>
    BY <1>5 DEF Return, Running, Top
  <2>2. n \in Nat \ {0} /\ frames[n] \in Frame
    BY <2>1
  <2>3. results' \in Seq(InScopePages)
    BY <2>1, <2>2, ConcatProperties DEF Frame
  <2>4. frames' \in Seq(Frame) /\ Len(frames') = n - 1
    <3>1. \A i \in 1..(n - 1) : frames[i] \in Frame
      BY <2>2
    <3> HIDE DEF n
    <3>2. 1 \in Int /\ n - 1 \in Int /\ (1 <= n - 1 \/ n - 1 = 0)
      <4>1. n \in Nat \ {0}
        BY <2>2
      <4> QED BY <4>1
    <3> QED BY <2>1, <3>1, <3>2, SubSeqProperties
  <2>5. n = 1 => frames' = <<>>
    BY <2>4
  <2>6. n - 1 <= DepthLimit + 1
    BY <2>2, SitemapAssumption
  <2> QED BY <2>1, <2>2, <2>3, <2>4, <2>5, <2>6
<1> QED BY <1>1, <1>2, <1>3, <1>4, <1>5 DEF RobotsNext

(* The account, step by step: the listings do not change, and each step    *)
(* moves what is owed from the sitemap to its frame, and to the results.   *)
LEMMA BalanceStep == ASSUME ReaderInv, [RobotsNext]_robotVars PROVE Balanced'
<1> DEFINE T == Seq(InScopePages)
           n == Len(frames)
           d == DepthLimit + 1 - n
<1>1. /\ ReaderType /\ child' = child
      /\ state # "start" /\ ~failed => \E owed : Pays(owed, Listing, frames, results, named)
  <2>1. child' = child
    BY DEF RobotsNext, robotVars, FetchRobots, Refuse, FetchFails, Fetch, TooDeep, Return
  <2> QED BY <2>1 DEF ReaderInv, Balanced
<1>2. Listing' = Listing
  BY <1>1 DEF Listing
<1>3. /\ \A e \in 0..DepthLimit : Listing[e] \in [Map -> T]
      /\ \A m \in Map : Listing[0][m] = <<>>
      /\ \A e \in 1..DepthLimit, m \in Map : Listing[e][m] = Lists(Listing[e - 1], m)
  BY <1>1, ListingEquation DEF ReaderType
<1>4. SUFFICES ASSUME state' # "start", ~failed'
               PROVE  \E owed : Pays(owed, Listing, frames', results', named')
  BY <1>2 DEF Balanced
<1>5. /\ \A x, y, z \in T : (x \o y) \o z = x \o (y \o z)
      /\ \A x, y \in T : x \o y \in T
      /\ \A x \in T : x \o <<>> = x /\ <<>> \o x = x
      /\ <<>> \in T
  BY ConcatAssociative, ConcatProperties, ConcatEmptySeq
<1>6. DepthLimit \in Nat /\ n \in Nat /\ n <= DepthLimit + 1
  BY <1>1, SitemapAssumption DEF ReaderType
<1> HIDE DEF T
<1>7. CASE UNCHANGED robotVars
  BY <1>1, <1>4, <1>7 DEF robotVars
<1>8. CASE FetchRobots
  <2> DEFINE first == [todo |-> named', adds |-> <<>>]
             all == Output(Listing[DepthLimit], named')
             owed == [k \in 0..1 |-> IF k = 0 THEN <<>> ELSE all]
  <2>1. frames' = <<first>> /\ results' = <<>> /\ named' \in Seq(Map)
    <3>1. named' \in Robots \/ named' = <<>>
      BY <1>8 DEF FetchRobots
    <3>2. named' \in Seq(Map)
      BY <3>1, SitemapAssumption, EmptySeq
    <3>3. frames' = <<first>> /\ results' = <<>>
      BY <1>1, <1>8 DEF FetchRobots, ReaderType
    <3> QED BY <3>2, <3>3
  <2>2. all \in T
    <3>1. DepthLimit \in 0..DepthLimit
      BY <1>6
    <3> QED BY <1>3, <2>1, <3>1, OutputFacts DEF T
  <2>3. Owed(Listing[DepthLimit], first) = all
    <3>1. Owed(Listing[DepthLimit], first) = all \o <<>>
      BY DEF Owed
    <3> HIDE DEF all
    <3> QED BY <1>5, <2>2, <3>1
  <2>4. Len(frames') = 1 /\ frames'[1] = first /\ DepthLimit + 1 - 1 = DepthLimit
    BY <1>6, <2>1
  <2> HIDE DEF first, all
  <2>5. /\ owed \in [0..1 -> T] /\ owed[0] = <<>> /\ owed[1] = all
    BY <1>5, <2>2
  <2> HIDE DEF owed
  <2>6. owed[1] = Owed(Listing[DepthLimit + 1 - 1], frames'[1]) \o owed[1 - 1]
    <3>1. 1 - 1 = 0 /\ all \o <<>> = all
      BY <1>5, <2>2
    <3> QED BY <2>3, <2>4, <2>5, <3>1
  <2>7. results' \o owed[1] = all
    BY <1>5, <2>1, <2>2, <2>5
  <2>8. \A k \in 1..1 : k = 1
    OBVIOUS
  <2>9. Pays(owed, Listing, frames', results', named')
    BY <2>4, <2>5, <2>6, <2>7, <2>8 DEF Pays, all, T
  <2> QED BY <2>9
<1>9. ASSUME NEW m \in Map, Refuse(m) PROVE \E owed : Pays(owed, Listing, frames', results', named')
  <2>1. /\ Calls(m) /\ m \notin Allowed /\ frames' = Popped
        /\ UNCHANGED <<named, state, results, failed>>
    BY <1>9 DEF Refuse
  <2>2. PICK owed : Pays(owed, Listing, frames, results, named)
    BY <1>1, <1>4, <2>1
  <2> DEFINE top == frames[n]
  <2>3. /\ n \in Nat \ {0} /\ Len(frames') = n /\ \A k \in 1..(n - 1) : frames'[k] = frames[k]
        /\ top \in Frame /\ top.todo # <<>> /\ Head(top.todo) = m
        /\ frames'[n].todo = Tail(top.todo) /\ frames'[n].adds = top.adds
    BY <1>1, <2>1, PoppedFacts
  <2>4. d \in 0..DepthLimit
    BY <1>6, <2>3
  <2>5. Listing[d][m] = <<>>
    <3>1. d # 0 => d \in 1..DepthLimit
      BY <1>6, <2>4
    <3>2. Lists(Listing[d - 1], m) = <<>>
      BY <2>1 DEF Lists
    <3> QED BY <1>3, <3>1, <3>2
  <2>6. Output(Listing[d], Tail(top.todo)) = Output(Listing[d], top.todo)
    <3>1. top.todo \in Seq(Map) /\ Tail(top.todo) \in Seq(Map)
      BY <2>3 DEF Frame
    <3>2. Listing[d] \in [Map -> Seq(InScopePages)]
      BY <1>3, <2>4 DEF T
    <3> HIDE DEF d
    <3>3. Output(Listing[d], Tail(top.todo)) \in T
      BY <3>1, <3>2, OutputFacts DEF T
    <3>4. Output(Listing[d], top.todo) = <<>> \o Output(Listing[d], Tail(top.todo))
      BY <2>3, <2>5, <3>1, <3>2, OutputFacts
    <3> QED BY <1>5, <3>3, <3>4
  <2>7. Owed(Listing[d], frames'[n]) = Owed(Listing[d], top)
    BY <2>3, <2>6 DEF Owed
  <2>8. \A k \in 1..n : Owed(Listing[DepthLimit + 1 - k], frames'[k]) = Owed(Listing[DepthLimit + 1 - k], frames[k])
    <3> SUFFICES ASSUME NEW k \in 1..n
                 PROVE  Owed(Listing[DepthLimit + 1 - k], frames'[k]) = Owed(Listing[DepthLimit + 1 - k], frames[k])
      OBVIOUS
    <3>1. k = n \/ k \in 1..(n - 1)
      BY <2>3
    <3> QED BY <2>3, <2>7, <3>1
  <2>9. Pays(owed, Listing, frames', results', named')
    BY <2>1, <2>2, <2>3, <2>8 DEF Pays
  <2> QED BY <2>9
<1>10. ASSUME NEW m \in Map, Fetch(m) PROVE \E owed : Pays(owed, Listing, frames', results', named')
  <2> DEFINE top == frames[n]
             less == Popped[n]
             new == [todo |-> child[m], adds |-> Kept(Locs[m])]
             rest == Output(Listing[d], less.todo)
  <2>1. /\ Calls(m) /\ m \in Allowed /\ n <= DepthLimit /\ frames' = Append(Popped, new)
        /\ UNCHANGED <<named, state, results, failed>>
    BY <1>10 DEF Fetch
  <2>2. PICK owed : Pays(owed, Listing, frames, results, named)
    BY <1>1, <1>4, <2>1
  <2>3. /\ n \in Nat \ {0} /\ Popped \in Seq(Frame) /\ Len(Popped) = n
        /\ \A k \in 1..(n - 1) : Popped[k] = frames[k]
        /\ top \in Frame /\ top.todo # <<>> /\ Head(top.todo) = m
        /\ less.todo = Tail(top.todo) /\ less.adds = top.adds
    BY <1>1, <2>1, PoppedFacts
  <2>4. d \in 1..DepthLimit /\ d \in 0..DepthLimit /\ d - 1 \in 0..DepthLimit /\ d - 1 = DepthLimit + 1 - (n + 1)
    BY <1>6, <2>1, <2>3
  <2>5. Listing[d] \in [Map -> Seq(InScopePages)] /\ Listing[d - 1] \in [Map -> Seq(InScopePages)]
    BY <1>3, <2>4 DEF T
  <2>6. Listing[d][m] = Owed(Listing[d - 1], new)
    <3>1. Listing[d][m] = Lists(Listing[d - 1], m)
      BY <1>3, <2>4
    <3>2. Lists(Listing[d - 1], m) = Output(Listing[d - 1], child[m]) \o Kept(Locs[m])
      BY <2>1 DEF Lists, Output
    <3> QED BY <3>1, <3>2 DEF Owed
  <2>7. new \in Frame
    <3>1. Kept(Locs[m]) \in Seq(InScopePages)
      BY SitemapAssumption, KeptInScope DEF InScopePages
    <3>2. child[m] \in Seq(Map)
      BY <1>1 DEF ReaderType
    <3> QED BY <3>1, <3>2 DEF Frame
  <2>8. less \in Frame
    BY <2>3
  <2> HIDE DEF new, less
  <2>9. /\ Len(frames') = n + 1 /\ frames'[n + 1] = new /\ \A k \in 1..n : frames'[k] = Popped[k]
    BY <2>1, <2>3, <2>7, AppendProperties
  <2> HIDE DEF n
  <2>10. /\ owed \in [0..n -> T] /\ owed[0] = <<>>
         /\ \A k \in 1..n : owed[k] = Owed(Listing[DepthLimit + 1 - k], frames[k]) \o owed[k - 1]
         /\ results \o owed[n] = Output(Listing[DepthLimit], named)
    BY <2>2 DEF Pays, n, T
  <2> DEFINE below == owed[n - 1]
             left == Owed(Listing[d], less)
             called == Owed(Listing[d - 1], new)
             more == [k \in 0..(n + 1) |-> IF k = n + 1 THEN called \o (left \o below)
                                           ELSE IF k = n THEN left \o below ELSE owed[k]]
  <2>11. below \in T /\ owed[n] = Owed(Listing[d], top) \o below
    <3>1. n \in 1..n /\ n - 1 \in 0..n
      <4>1. n \in Nat \ {0}
        BY <2>3
      <4> QED BY <4>1
    <3> QED BY <2>10, <3>1
  <2>12. called \in T /\ left \in T /\ top.adds \in T /\ Output(Listing[d], less.todo) \in T
    BY <2>3, <2>5, <2>7, <2>8, OwedType DEF T
  <2>13. Owed(Listing[d], top) = called \o left
    <3>1. top.todo \in Seq(Map)
      BY <2>3 DEF Frame
    <3> HIDE DEF d, top
    <3>2. Output(Listing[d], top.todo) = called \o Output(Listing[d], less.todo)
      BY <2>3, <2>5, <2>6, <3>1, OutputFacts
    <3>3. left = Output(Listing[d], less.todo) \o top.adds
      BY <2>3 DEF Owed
    <3>4. Owed(Listing[d], top) = (called \o Output(Listing[d], less.todo)) \o top.adds
      BY <3>2 DEF Owed
    <3> HIDE DEF called, left
    <3>5. (called \o Output(Listing[d], less.todo)) \o top.adds = called \o (Output(Listing[d], less.todo) \o top.adds)
      <4>1. \A x, y, z \in T : (x \o y) \o z = x \o (y \o z)
        BY <1>5
      <4>2. called \in T /\ Output(Listing[d], less.todo) \in T /\ top.adds \in T
        BY <2>12
      <4> QED BY <4>1, <4>2, Zenon
    <3> QED BY <3>3, <3>4, <3>5
  <2> HIDE DEF d, below, called, left, top
  <2>14. left \o below \in T /\ called \o (left \o below) \in T /\ owed[n] = called \o (left \o below)
    <3>1. left \o below \in T /\ called \o (left \o below) \in T
      BY <1>5, <2>11, <2>12
    <3>2. (called \o left) \o below = called \o (left \o below)
      BY <1>5, <2>11, <2>12
    <3> QED BY <2>11, <2>13, <3>1, <3>2
  <2>15. /\ more \in [0..(n + 1) -> T] /\ more[n + 1] = called \o (left \o below) /\ more[n] = left \o below
         /\ \A k \in 0..(n - 1) : more[k] = owed[k]
    <3>1. /\ \A k \in 0..(n + 1) : k = n + 1 \/ k = n \/ k \in 0..(n - 1)
          /\ \A k \in 0..(n - 1) : k \in 0..n /\ k \in 0..(n + 1) /\ k # n /\ k # n + 1
          /\ n # n + 1 /\ n \in 0..(n + 1) /\ n + 1 \in 0..(n + 1)
      BY <2>3
    <3> QED BY <2>10, <2>14, <3>1
  <2> HIDE DEF more
  <2>16. \A k \in 1..(n + 1) : more[k] = Owed(Listing[DepthLimit + 1 - k], frames'[k]) \o more[k - 1]
    <3> SUFFICES ASSUME NEW k \in 1..(n + 1)
                 PROVE  more[k] = Owed(Listing[DepthLimit + 1 - k], frames'[k]) \o more[k - 1]
      OBVIOUS
    <3>1. CASE k = n + 1
      <4>1. k - 1 = n /\ DepthLimit + 1 - k = d - 1
        BY <2>3, <2>4, <3>1
      <4> QED BY <2>9, <2>15, <3>1, <4>1 DEF called
    <3>2. CASE k = n
      <4>1. k - 1 \in 0..(n - 1) /\ DepthLimit + 1 - k = d /\ k \in 1..n
        BY <2>3, <3>2 DEF d, n
      <4> QED BY <2>9, <2>15, <3>2, <4>1 DEF left, less, below, n
    <3>3. CASE k \in 1..(n - 1)
      <4>1. k \in 1..n /\ k \in 0..(n - 1) /\ k - 1 \in 0..(n - 1)
        BY <2>3, <3>3
      <4>2. frames'[k] = frames[k]
        BY <2>3, <2>9, <3>3, <4>1
      <4> QED BY <2>10, <2>15, <4>1, <4>2
    <3>4. k = n + 1 \/ k = n \/ k \in 1..(n - 1)
      BY <2>3
    <3> QED BY <3>1, <3>2, <3>3, <3>4
  <2>17. more[0] = <<>> /\ results' \o more[n + 1] = Output(Listing[DepthLimit], named')
    <3>1. 0 \in 0..(n - 1)
      BY <2>3
    <3> QED BY <2>1, <2>10, <2>14, <2>15, <3>1
  <2>18. Pays(more, Listing, frames', results', named')
    BY <2>9, <2>15, <2>16, <2>17 DEF Pays, T
  <2> QED BY <2>18
<1>11. ASSUME NEW m \in Map, FetchFails(m) \/ TooDeep(m) PROVE FALSE
  BY <1>4, <1>11 DEF FetchFails, TooDeep
<1>12. CASE Return
  <2> DEFINE top == frames[n]
  <2>1. /\ frames # <<>> /\ top.todo = <<>> /\ results' = results \o top.adds
        /\ frames' = SubSeq(frames, 1, n - 1) /\ state = "run"
        /\ UNCHANGED <<named, failed>>
    BY <1>12 DEF Return, Running, Top
  <2>2. PICK owed : Pays(owed, Listing, frames, results, named)
    BY <1>1, <1>4, <2>1
  <2>3. n \in Nat \ {0} /\ top \in Frame /\ results \in T /\ \A k \in 1..n : frames[k] \in Frame
    BY <1>1, <2>1 DEF ReaderType, T
  <2>4. d \in 0..DepthLimit
    BY <1>6, <2>3
  <2>5. Listing[d] \in [Map -> Seq(InScopePages)]
    BY <1>3, <2>4 DEF T
  <2>6. Owed(Listing[d], top) = top.adds /\ top.adds \in T
    <3>1. top.adds \in T
      BY <2>3 DEF Frame, T
    <3>2. Output(Listing[d], top.todo) = <<>>
      <4>1. top.todo \in Seq(Map)
        BY <2>3 DEF Frame
      <4> HIDE DEF d, top
      <4> QED BY <2>1, <2>5, <4>1, OutputFacts
    <3> HIDE DEF d, top
    <3> QED BY <1>5, <3>1, <3>2 DEF Owed
  <2> HIDE DEF n
  <2>7. Len(frames') = n - 1 /\ \A k \in 1..(n - 1) : frames'[k] = frames[k]
    <3>1. \A k \in 1..(n - 1) : frames[k] \in Frame
      BY <2>3
    <3>2. 1 \in Int /\ n - 1 \in Int /\ (1 <= n - 1 \/ n - 1 = 0) /\ (n - 1) - 1 + 1 = n - 1
      BY <2>3
    <3>3. \A k \in 1..(n - 1) : 1 + k - 1 = k
      BY <2>3
    <3> QED BY <2>1, <3>1, <3>2, <3>3, SubSeqProperties
  <2>8. /\ owed \in [0..n -> T] /\ owed[0] = <<>>
        /\ \A k \in 1..n : owed[k] = Owed(Listing[DepthLimit + 1 - k], frames[k]) \o owed[k - 1]
        /\ results \o owed[n] = Output(Listing[DepthLimit], named)
    BY <2>2 DEF Pays, n, T
  <2> DEFINE fewer == [k \in 0..(n - 1) |-> owed[k]]
  <2>9. /\ fewer \in [0..(n - 1) -> T] /\ \A k \in 0..(n - 1) : fewer[k] = owed[k]
        /\ 0 \in 0..(n - 1) /\ n - 1 \in 0..(n - 1)
    BY <2>3, <2>8
  <2>10. owed[n] = top.adds \o owed[n - 1] /\ owed[n - 1] \in T
    <3>1. n \in 1..n /\ n - 1 \in 0..n
      <4>1. n \in Nat \ {0}
        BY <2>3
      <4> QED BY <4>1
    <3>2. owed[n] = Owed(Listing[d], top) \o owed[n - 1]
      BY <2>8, <3>1
    <3> QED BY <2>6, <2>8, <3>1, <3>2
  <2> HIDE DEF fewer, d, top
  <2>11. results' \o fewer[n - 1] = Output(Listing[DepthLimit], named')
    <3>1. (results \o top.adds) \o owed[n - 1] = results \o (top.adds \o owed[n - 1])
      BY <1>5, <2>3, <2>6, <2>10
    <3> QED BY <2>1, <2>8, <2>9, <2>10, <3>1
  <2>12. \A k \in 1..(n - 1) : fewer[k] = Owed(Listing[DepthLimit + 1 - k], frames'[k]) \o fewer[k - 1]
    <3> SUFFICES ASSUME NEW k \in 1..(n - 1)
                 PROVE  fewer[k] = Owed(Listing[DepthLimit + 1 - k], frames'[k]) \o fewer[k - 1]
      OBVIOUS
    <3>1. k \in 1..n /\ k \in 0..(n - 1) /\ k - 1 \in 0..(n - 1)
      BY <2>3
    <3> QED BY <2>7, <2>8, <2>9, <3>1
  <2>13. Pays(fewer, Listing, frames', results', named')
    BY <2>7, <2>8, <2>9, <2>11, <2>12 DEF Pays, T
  <2> QED BY <2>13
<1> QED BY <1>7, <1>8, <1>9, <1>10, <1>11, <1>12 DEF RobotsNext

(* The invariant holds throughout every reading.                           *)
LEMMA ReaderInvHolds == RobotsSpec => []ReaderInv
<1>1. ReaderInv /\ [RobotsNext]_robotVars => ReaderInv'
  BY ReaderTypeStep, BalanceStep DEF ReaderInv
<1> QED BY <1>1, ReaderInit, PTL DEF RobotsSpec

(* Whatever robots.txt and the sitemaps name, every sitemap requested and  *)
(* every URL returned is in scope.                                         *)
THEOREM LinksCorrect == RobotsSpec => []LinksStayInScope
<1>1. ReaderInv => LinksStayInScope
  BY DEF ReaderInv, ReaderType, LinksStayInScope, InScopePages
<1> QED BY <1>1, ReaderInvHolds, PTL

(* Whatever the sitemaps name, also themselves: when no fetch failed, the  *)
(* command returns exactly what is listed, in the order of the documents.  *)
THEOREM ListingCorrect == RobotsSpec => []ListingComplete
<1>1. ASSUME ReaderInv PROVE ListingComplete
  <2> SUFFICES ASSUME state = "done", ~failed
               PROVE  results = Output(Listing[DepthLimit], named)
    BY DEF ListingComplete, Output
  <2>1. PICK owed : Pays(owed, Listing, frames, results, named)
    BY <1>1 DEF ReaderInv, Balanced
  <2>2. frames = <<>> /\ results \in Seq(InScopePages)
    BY <1>1 DEF ReaderInv, ReaderType
  <2>3. results \o <<>> = Output(Listing[DepthLimit], named)
    BY <2>1, <2>2 DEF Pays
  <2> QED BY <2>2, <2>3, ConcatEmptySeq
<1>2. ReaderInv => ListingComplete
  BY <1>1
<1> QED BY <1>2, ReaderInvHolds, PTL

=============================================================================
