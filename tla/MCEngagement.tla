----------------------------- MODULE MCEngagement -----------------------------
(***************************************************************************)
(* One command at a time on a small estate: two hosts of acme.test, an     *)
(* outsider, a denied prefix on the API host and a scope that may be       *)
(* narrowed.                                                               *)
(***************************************************************************)
EXTENDS Engagement

Www == <<"test", "acme", "www">>
Api == <<"test", "acme", "api">>
Other == <<"test", "other">>
WwwTyped == <<"test", "acme", "WWW">>

At(host, path) == [host |-> host, text |-> <<"https">> \o Reverse(host) \o path]

MCUrl == {At(Www, <<>>), At(Www, <<"robots.txt">>), At(Api, <<>>), At(Api, <<"pay">>), At(Other, <<>>)}

Wide == [allow |-> {[kind |-> "domain_suffix", value |-> <<"test", "acme">>]},
         deny |-> {[kind |-> "url_prefix", value |-> <<"https", "api", "acme", "test", "pay">>]}]
Narrow == [allow |-> Wide.allow, deny |-> {[kind |-> "host_exact", value |-> Www]}]
Paths == [allow |-> {[kind |-> "host_exact", value |-> Api], [kind |-> "url_prefix", value |-> <<"https", "www">>]},
          deny |-> {[kind |-> "url_prefix", value |-> <<"https", "api", "acme", "test">>]}]
MCScopes == {Wide, Narrow, Paths}

MCFolded == [h \in {Www, Api, Other, WwwTyped} |-> IF h = WwwTyped THEN Www ELSE h]
MCGrants ==
  {[target |-> WwwTyped, capability |-> Blanket, expires |-> 0],
   [target |-> Api, capability |-> Blanket \o <<"crawl">>, expires |-> Never],
   [target |-> Api, capability |-> Blanket, expires |-> Never]}

Cmd(kind, target, follow) == [kind |-> kind, target |-> target, follow |-> follow]
OnUrls == {Cmd(k, At(h, <<>>), FALSE) : k \in {"crawl", "content", "probe", "robots", "tech"}, h \in {Www, Api}}
MCCommand ==
  OnUrls \union {Cmd("replay", At(Www, <<>>), f) : f \in BOOLEAN} \union {Cmd("takeover", BareHost(Api), FALSE)}

=============================================================================
