------------------------------ MODULE MCCrawler ------------------------------
(***************************************************************************)
(* Crawls of every small site under a scope with a suffix rule, an exact   *)
(* denial and a denied prefix: five pages are in scope ("a" to "e"),       *)
(* "pay" is denied by its host, "old" by its prefix, "ext" lies outside    *)
(* and "mail" is a mailto: link on an allowed host.                        *)
(***************************************************************************)
EXTENDS Crawler, Scope, SequencesExt

AssetOf ==
  [a |-> [host |-> <<"test", "acme", "www">>, text |-> <<"https", "www", "acme", "test", "a">>],
   b |-> [host |-> <<"test", "acme", "www">>, text |-> <<"https", "www", "acme", "test", "b">>],
   c |-> [host |-> <<"test", "acme">>, text |-> <<"http", "acme", "test">>],
   d |-> [host |-> <<"test", "acme", "api", "v1">>, text |-> <<"https", "v1", "api", "acme", "test">>],
   e |-> [host |-> <<"test", "acme", "api">>, text |-> <<"https", "api", "acme", "test">>],
   pay |-> [host |-> <<"test", "acme", "pay">>, text |-> <<"https", "pay", "acme", "test">>],
   old |-> [host |-> <<"test", "acme", "www">>, text |-> <<"https", "www", "acme", "test", "old", "1">>],
   ext |-> [host |-> <<"test", "other">>, text |-> <<"https", "other", "test">>],
   mail |-> [host |-> <<"test", "acme">>, text |-> <<"mailto", "acme", "test">>]]

Rules ==
  [allow |-> {[kind |-> "domain_suffix", value |-> <<"test", "acme">>]},
   deny |-> {[kind |-> "host_exact", value |-> <<"test", "acme", "pay">>],
             [kind |-> "url_prefix", value |-> <<"https", "www", "acme", "test", "old">>]}]

MCPage == DOMAIN AssetOf
MCAllowed == {u \in MCPage : InScope(Rules, AssetOf[u])}
MCWeb == MCPage \ {"mail"}

(* A page in scope serves HTML with at most two links, or is a dead end;   *)
(* three of them may have a malformed reference in front of a link.  The   *)
(* links of pages outside the scope are never read.                        *)
Serves(body) == [kind |-> "html", body |-> body]
Dead(kind) == [kind |-> kind, body |-> <<>>]
Pages(targets) ==
  {Serves(SetToSeq(S)) : S \in {T \in SUBSET targets : Cardinality(T) <= 2}}
    \union {Dead("other"), Dead("raises")}

MCSite ==
  {[u \in MCPage |-> IF u = "a" THEN onA ELSE IF u = "b" THEN onB ELSE
                     IF u = "c" THEN onC ELSE IF u = "d" THEN onD ELSE Dead("other")] :
     onA \in Pages({"a", "b", "c", "pay"}) \union {Serves(<<"b", Malformed, "c">>)},
     onB \in Pages({"a", "c", "d", "old", "mail"}) \union {Serves(<<"c", Malformed, "d">>)},
     onC \in Pages({"b", "d", "e"}) \union {Serves(<<Malformed, "e">>)},
     onD \in Pages({"b", "ext"})}
=============================================================================
