------------------------------- MODULE Bodies -------------------------------
(***************************************************************************)
(* What the clients of pkg/clients put in the body of a PUT, and when they *)
(* send one.  A client starts from a fresh value or from the resource GET  *)
(* returned, lays the fields of the object's spec over it, and leaves the  *)
(* rest as it was.  A resource is what it says of the fields its spec      *)
(* speaks of, and rest, all that the spec is silent about.  A record of    *)
(* these choices tells the clients apart:                                  *)
(*                                                                         *)
(*   reads     does Ensure look with GET before it sends?                  *)
(*   from      what it starts from when the resource exists: the "remote"  *)
(*             GET returned, or a "new" value;                             *)
(*   sends     whether a resource that exists is sent again: if it         *)
(*             "differs", "always" or "never";                             *)
(*   compares  the fields whose difference NeedsUpdate reports, and same,  *)
(*             the ones whose equality it reports.                         *)
(*                                                                         *)
(* Names, prefixes, ports are opaque values.  The Go version of the module *)
(* (go 1.12) has one variable per range loop: its address, stored in every *)
(* element of a list, shows the last element to all of them.               *)
(***************************************************************************)
EXTENDS Naturals, Sequences, SequencesExt

CONSTANTS
    Values,     \* the names, locations, sizes, prefixes that occur
    Nil,        \* a pointer that is not set
    Plain       \* the rest of a resource nobody has touched

Maybe(S) == S \cup {Nil}
Lists == Seq(Values)

-----------------------------------------------------------------------------
(* The specs of the custom resources: api/v1alpha1.                        *)

Rule == [name : Values, pool : Values, port : Values]
\* own: does the reference name the interface's own subscription and resource group?
Reference == [name : Values, own : BOOLEAN]
IPConfig == [public : Maybe(Reference), private : Maybe(Values), pools : Maybe(Lists)]
SecurityRule == [name : Values, port : Values]

ResourceGroupSpec == [location : Values]
VirtualNetworkSpec == [location : Values, addresses : Lists]
SubnetSpec == [prefix : Values]
LoadBalancerSpec ==
    [location : Values, frontends : Lists, backends : Lists,
     probes : Maybe(Lists), rules : Maybe(Seq(Rule))]
VMSpec ==
    [location : Values, sku : Values, zone : Maybe(Values),
     primary : Values, secondaries : Maybe(Lists)]
NetworkInterfaceSpec == [location : Values, configs : Maybe(Seq(IPConfig))]
PublicIPSpec == [location : Values, sku : Maybe(Values)]
SecurityGroupSpec == [location : Values, rules : Seq(SecurityRule)]
TrafficManagerSpec ==
    [headers : Maybe(Lists), codes : Maybe(Lists), endpoints : Maybe(Lists)]
SQLFirewallRuleSpec == [start : Values, end : Values]
StorageAccountSpec == [location : Values]
IdentitySpec == [location : Values]
KeyvaultSpec == [location : Values]
RedisSpec == [location : Values, sku : Values, capacity : Values, ssl : Values]
ServiceBusNamespaceSpec == [location : Values, sku : Values, capacity : Values]

Specs ==
    [ResourceGroup |-> ResourceGroupSpec, VirtualNetwork |-> VirtualNetworkSpec,
     Subnet |-> SubnetSpec, LoadBalancer |-> LoadBalancerSpec, VM |-> VMSpec,
     NetworkInterface |-> NetworkInterfaceSpec, PublicIP |-> PublicIPSpec,
     SecurityGroup |-> SecurityGroupSpec, TrafficManager |-> TrafficManagerSpec,
     SQLFirewallRule |-> SQLFirewallRuleSpec, StorageAccount |-> StorageAccountSpec,
     Identity |-> IdentitySpec, Keyvault |-> KeyvaultSpec, Redis |-> RedisSpec,
     ServiceBusNamespace |-> ServiceBusNamespaceSpec]

-----------------------------------------------------------------------------
(* When they send: Ensure and NeedsUpdate.                                 *)

\* A variant of the next definition (mutant): the body starts from a new value.
ComparingAfresh(fields) == [reads |-> TRUE, from |-> "new", sends |-> "differs",
                            compares |-> fields, same |-> {}]
Comparing(fields) == [reads |-> TRUE, from |-> "remote", sends |-> "differs",
                      compares |-> fields, same |-> {}]
Overwriting == [reads |-> FALSE, from |-> "new", sends |-> "always",
                compares |-> {}, same |-> {}]
Creating == [reads |-> TRUE, from |-> "new", sends |-> "never",
             compares |-> {}, same |-> {}]

ResourceGroup == Comparing({"location"})
VirtualNetwork == Comparing({"location", "addresses"})
Subnet == Comparing({"prefix"})
LoadBalancer == Comparing({"location", "rules"})
VM == Comparing({"sku"})
NetworkInterface == Creating
Identity == Creating
PublicIP == Overwriting
SecurityGroup == Overwriting
Keyvault == Overwriting
TrafficManager == Overwriting

\* NeedsUpdate is written but its calls are commented out.
SQLFirewallRule == [reads |-> TRUE, from |-> "remote", sends |-> "always",
                    compares |-> {"start", "end"}, same |-> {}]
StorageAccount == [reads |-> TRUE, from |-> "remote", sends |-> "always",
                   compares |-> {}, same |-> {}]

\* NeedsUpdate reports a changed location when the two are equal; that of
\* Redis looks at the capacity only when Azure reports none.
Redis == [Comparing({"sku", "ssl"}) EXCEPT !.from = "new", !.same = {"location"}]
ServiceBusNamespace ==
    [Comparing({"sku", "capacity"}) EXCEPT !.from = "new", !.same = {"location"}]

Builders ==
    [ResourceGroup |-> ResourceGroup, VirtualNetwork |-> VirtualNetwork,
     Subnet |-> Subnet, LoadBalancer |-> LoadBalancer, VM |-> VM,
     NetworkInterface |-> NetworkInterface, PublicIP |-> PublicIP,
     SecurityGroup |-> SecurityGroup, TrafficManager |-> TrafficManager,
     SQLFirewallRule |-> SQLFirewallRule, StorageAccount |-> StorageAccount,
     Identity |-> Identity, Keyvault |-> Keyvault, Redis |-> Redis,
     ServiceBusNamespace |-> ServiceBusNamespace]

\* Variants of the next definition (mutants): it never asks for an update; it
\* asks for one when a field agrees, as those of Redis and ServiceBus do.
NeedsUpdateNever(kind, remote, spec) == FALSE
NeedsUpdateInverted(kind, remote, spec) ==
    \E f \in Builders[kind].compares : remote.says[f] = spec[f]

NeedsUpdate(kind, remote, spec) ==
    \/ \E f \in Builders[kind].compares : remote.says[f] # spec[f]
    \/ \E f \in Builders[kind].same : remote.says[f] = spec[f]

\* Is a resource that exists, and has been provisioned, sent again?
Resends(kind, remote, spec) ==
    CASE Builders[kind].sends = "differs" -> NeedsUpdate(kind, remote, spec)
      [] OTHER -> Builders[kind].sends = "always"

-----------------------------------------------------------------------------
(* What they send: the setters of each spec.go, the literals of the rest.  *)

\* The list an optional pointer stands for where the code skips a nil one.
Optional(list) == IF list = Nil THEN <<>> ELSE list

\* The addresses of the loop variable, one per element: all show its last value.
Aliased(list) == [i \in DOMAIN list |-> Last(list)]

\* A variant of the next definition (mutant): nothing is looked for.
WithPrefixTwice(got, cidr) == Append(got, cidr)

\* A prefix is appended unless it is there.
WithPrefix(got, cidr) == IF Contains(got, cidr) THEN got ELSE Append(got, cidr)

\* A variant of the next definition (mutant): the spec's prefixes replace the
\* resource's.
AddressSpacesReplaced(prefixes, cidrs) == cidrs

\* The resource's prefixes, and after them those of the spec it lacks: what is there
\* after the first n of the spec.
AddressSpaces(prefixes, cidrs) ==
    LET after[n \in 0 .. Len(cidrs)] ==
            IF n = 0 THEN prefixes ELSE WithPrefix(after[n - 1], cidrs[n])
    IN  after[Len(cidrs)]

\* Each frontend is named after its address; it points to the last one's.
Frontends(frontends) ==
    [i \in DOMAIN frontends |-> [name |-> frontends[i], id |-> Last(frontends)]]

Probes(ports) == Optional(ports)

\* Ports are copied, names and references are addresses of the loop variable.
Rules(rules) ==
    [i \in DOMAIN Optional(rules) |-> [Last(rules) EXCEPT !.port = rules[i].port]]

SecurityRules(rules) ==
    [i \in DOMAIN rules |-> [rules[i] EXCEPT !.name = Last(rules).name]]

\* A variant of the next definition (mutant): the primary one is overwritten.
NICsSecondary(primary, secondaries) == Aliased(Optional(secondaries))

NICs(primary, secondaries) == <<primary>> \o Aliased(Optional(secondaries))

\* The spec's zone, else the one the machine is in.
Zone(base, spec) == IF spec.zone = Nil THEN base.zone ELSE spec.zone

\* The ID of a public address is put together from the interface's own subscription
\* and resource group, wherever the reference says it is.
PublicIPAddress(reference) == IF reference = Nil THEN Nil ELSE [reference EXCEPT !.own = TRUE]

IPConfiguration(config, index) ==
    [name |-> index, primary |-> index = 1, public |-> PublicIPAddress(config.public),
     method |-> IF config.private = Nil THEN "Dynamic" ELSE "static",
     private |-> config.private, pools |-> Optional(config.pools)]

\* The configuration made up for a spec without any is never sent.
IPConfigurations(configs) ==
    [i \in DOMAIN Optional(configs) |-> IPConfiguration(configs[i], i)]

\* The status codes are sent if there are headers.
Codes(spec) == IF spec.headers = Nil THEN <<>> ELSE spec.codes

\* An account is created where the spec says; an update sends no location.
AccountLocation(base, location) == IF base.location = Nil THEN location ELSE base.location

\* The fields as sent, over base, those of the resource or of the empty value.
Rendered(kind, base, spec) ==
    CASE kind = "VirtualNetwork" ->
            [spec EXCEPT !.addresses = AddressSpaces(base.addresses, @)]
      [] kind = "LoadBalancer" ->
            [spec EXCEPT !.frontends = Frontends(@), !.backends = Aliased(@),
                         !.probes = Probes(@), !.rules = Rules(@)]
      [] kind = "VM" ->
            [location |-> spec.location, sku |-> spec.sku, zone |-> Zone(base, spec),
             nics |-> NICs(spec.primary, spec.secondaries)]
      [] kind = "NetworkInterface" -> [spec EXCEPT !.configs = IPConfigurations(@)]
      [] kind = "PublicIP" -> [spec EXCEPT !.sku = IF @ = Nil THEN "Standard" ELSE @]
      [] kind = "SecurityGroup" -> [spec EXCEPT !.rules = SecurityRules(@)]
      [] kind = "TrafficManager" ->
            [headers |-> Optional(spec.headers), codes |-> Codes(spec),
             endpoints |-> Optional(spec.endpoints)]
      [] kind = "StorageAccount" -> [spec EXCEPT !.location = AccountLocation(base, @)]
      [] OTHER -> spec

Body(kind, base, spec) ==
    [says |-> Rendered(kind, base.says, spec), rest |-> base.rest]

\* NewSpec: what is read of the value a body starts from when it is new.
NewSpec(kind) ==
    [says |-> CASE kind = "VirtualNetwork" -> [addresses |-> <<>>]
                [] kind = "VM" -> [zone |-> Nil]
                [] kind = "StorageAccount" -> [location |-> Nil]
                [] OTHER -> Nil,
     rest |-> Plain]

-----------------------------------------------------------------------------
(* Where Ensure ends before it sends anything.                             *)

\* A machine without a zone is given one of those its size can be had in: the
\* client that lists them was never given a subscription, and returns an error.
Fails(kind, base, spec) ==
    \/ kind = "VM" /\ Zone(base.says, spec) = Nil
    \/ kind = "NetworkInterface" /\ spec.configs = <<>>

\* Pointers read without looking whether they are set: the rules, when the
\* comparison reaches them, and the status codes when there are headers.
Panics(kind, exists, remote, spec) ==
    \/ kind = "LoadBalancer" /\ exists /\ spec.rules = Nil
       /\ remote.says.location = spec.location
    \/ kind = "TrafficManager" /\ spec.headers # Nil /\ spec.codes = Nil
=============================================================================
