----------------------------- MODULE MCOverlay -----------------------------
(***************************************************************************)
(* Overlay with a few specs of every kind: each field of a spec takes two  *)
(* values, each list at least the lengths 0 to 2 or 1 to 2, each pointer   *)
(* is set in one spec and not in another.                                  *)
(***************************************************************************)
EXTENDS Overlay

MCValues == {"a", "b", "c"}

rule(name, port) == [name |-> name, pool |-> "a", port |-> port]
balancer == [location |-> "a", frontends |-> <<"a">>, backends |-> <<"a">>,
             probes |-> Nil, rules |-> <<rule("a", "a")>>]
machine == [location |-> "a", sku |-> "a", zone |-> "a", primary |-> "a",
            secondaries |-> Nil]
config == [public |-> Nil, private |-> Nil, pools |-> Nil]
bound(own) == [config EXCEPT !.public = [name |-> "a", own |-> own]]
cache == [location |-> "a", sku |-> "a", capacity |-> "a", ssl |-> "a"]
namespace == [location |-> "a", sku |-> "a", capacity |-> "a"]
profile == [headers |-> <<"a">>, codes |-> <<"a">>, endpoints |-> Nil]
secured(rules) == [location |-> "a", rules |-> rules]
located == {[location |-> v] : v \in {"a", "b"}}

MCWants ==
    [ResourceGroup |-> located,
     VirtualNetwork |->
        {[location |-> "a", addresses |-> cidrs] :
            cidrs \in {<<"a">>, <<"b">>, <<"a", "b">>, <<"b", "c">>, <<"a", "a">>}},
     Subnet |-> {[prefix |-> v] : v \in MCValues},
     LoadBalancer |->
        {balancer,
         [balancer EXCEPT !.location = "b"],
         [balancer EXCEPT !.rules = Nil, !.probes = <<"a">>],
         [balancer EXCEPT !.rules = <<rule("a", "b")>>, !.frontends = <<"a", "b">>],
         [balancer EXCEPT !.rules = <<rule("a", "a"), rule("b", "b")>>],
         [balancer EXCEPT !.backends = <<"a", "b">>]},
     VM |->
        {machine,
         [machine EXCEPT !.sku = "b"],
         [machine EXCEPT !.zone = Nil],
         [machine EXCEPT !.zone = "b", !.sku = "c"],
         [machine EXCEPT !.secondaries = <<"b">>],
         [machine EXCEPT !.secondaries = <<"b", "c">>]},
     NetworkInterface |->
        {[location |-> "a", configs |-> configs] : configs \in
            {Nil, <<>>, <<config>>, <<config, [config EXCEPT !.private = "a"]>>,
             <<[config EXCEPT !.pools = <<"a">>]>>, <<bound(TRUE)>>, <<config, bound(FALSE)>>}},
     PublicIP |->
        {[location |-> "a", sku |-> Nil], [location |-> "a", sku |-> "b"],
         [location |-> "b", sku |-> Nil]},
     SecurityGroup |->
        {secured(<<>>),
         secured(<<[name |-> "a", port |-> "a"]>>),
         secured(<<[name |-> "b", port |-> "a"]>>),
         secured(<<[name |-> "a", port |-> "a"], [name |-> "b", port |-> "b"]>>)},
     TrafficManager |->
        {profile,
         [profile EXCEPT !.codes = <<"a", "b">>, !.endpoints = <<"a">>],
         [profile EXCEPT !.headers = Nil],
         [profile EXCEPT !.headers = Nil, !.codes = Nil],
         [profile EXCEPT !.codes = Nil]},
     SQLFirewallRule |->
        {[start |-> v, end |-> w] : v \in {"a", "b"}, w \in {"b", "c"}},
     StorageAccount |-> located,
     Identity |-> located,
     Keyvault |-> located,
     Redis |->
        {cache, [cache EXCEPT !.sku = "b"], [cache EXCEPT !.capacity = "b"],
         [cache EXCEPT !.ssl = "b"], [cache EXCEPT !.location = "b"]},
     ServiceBusNamespace |->
        {namespace, [namespace EXCEPT !.sku = "b"], [namespace EXCEPT !.capacity = "b"],
         [namespace EXCEPT !.location = "b"]}]
=============================================================================
