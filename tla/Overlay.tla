------------------------------ MODULE Overlay ------------------------------
(***************************************************************************)
(* One object of any kind, reconciled again and again, by the manager or   *)
(* by the command line tool, against the Azure resource it describes, as   *)
(* far as contents go: the user edits the spec, others change or remove    *)
(* the resource, also between the GET a reconcile decides on and the PUT   *)
(* it then sends.  How a PUT is provisioned, how calls fail, finalizers    *)
(* and deletion are AsyncReconciler's and SyncReconciler's: here a         *)
(* resource that GET finds has been provisioned.                           *)
(***************************************************************************)
EXTENDS Bodies

CONSTANTS
    Wants,      \* the specs the user may give an object of each kind
    Rests,      \* what else a resource may hold
    Absent,     \* no resource
    MaxEdits,   \* bound: how often the user edits the object
    MaxChanges  \* bound: how often others change the resource, or a PUT is lost

ASSUME OverlayAssumption ==
    /\ DOMAIN Wants \subseteq DOMAIN Builders
    /\ \A k \in DOMAIN Wants : Wants[k] \subseteq Specs[k] /\ Nil \notin Wants[k]
    /\ Plain \in Rests
    /\ Nil \notin Values /\ Nil \notin Seq(SecurityRule)
    /\ MaxEdits \in Nat /\ MaxChanges \in Nat

VARIABLES
    kind,       \* the object's kind
    want,       \* its spec
    azure,      \* the resource, or Absent
    pc,         \* "idle"; "put": about to send; "down": the process has panicked
    local,      \* the spec as the worker read it
    seen,       \* the resource as its GET returned it, or Absent
    edits, changes

vars == <<kind, want, azure, pc, local, seen, edits, changes>>

Builder == Builders[kind]

\* The value a body starts from, given the resource GET returned.
Base(remote) ==
    IF remote = Absent \/ Builder.from = "new" THEN NewSpec(kind) ELSE remote

OverlayInit ==
    /\ kind \in DOMAIN Wants
    /\ want \in Wants[kind]
    /\ azure = Absent
    /\ pc = "idle" /\ local = Nil /\ seen = Absent
    /\ edits = 0 /\ changes = 0

-----------------------------------------------------------------------------
(* The environment.                                                        *)

\* What Azure refuses, as far as the code tells: two members of a list with
\* one name, an interface without configurations or with a reference to a backend pool
\* (what nics.go:193 makes is no resource ID: types and names do not alternate), a
\* resource that moves, an update of an account that is not there.
NamesOf(list) == [i \in DOMAIN list |-> list[i].name]
Accepts(remote, body) ==
    LET fields == body.says
    IN  /\ kind = "LoadBalancer" =>
              /\ IsInjective(fields.backends)
              /\ IsInjective(NamesOf(fields.rules))
              /\ IsInjective(NamesOf(fields.frontends))
        /\ kind = "VM" => IsInjective(fields.nics)
        /\ kind = "SecurityGroup" => IsInjective(NamesOf(fields.rules))
        /\ kind = "NetworkInterface" =>
              /\ fields.configs # <<>>
              /\ \A i \in DOMAIN fields.configs : fields.configs[i].pools = <<>>
        /\ remote # Absent =>
              \A f \in {"location", "zone"} \cap DOMAIN fields : remote.says[f] = fields[f]

Change == changes < MaxChanges /\ changes' = changes + 1

Edit ==
    /\ edits < MaxEdits
    /\ edits' = edits + 1
    /\ want' \in Wants[kind] \ {want}
    /\ UNCHANGED <<kind, azure, pc, local, seen, changes>>

\* What others may have a resource say: what some spec of its kind stands for in the
\* form a body gives it, each element of a list with a value of its own.
Foreign(spec) ==
    CASE kind = "LoadBalancer" ->
            [spec EXCEPT !.frontends = [i \in DOMAIN @ |-> [name |-> @[i], id |-> @[i]]],
                         !.probes = Optional(@), !.rules = Optional(@)]
      [] kind = "VM" ->
            [location |-> spec.location, sku |-> spec.sku, zone |-> spec.zone,
             nics |-> <<spec.primary>> \o Optional(spec.secondaries)]
      [] kind = "SecurityGroup" -> spec
      [] kind = "TrafficManager" ->
            [headers |-> Optional(spec.headers), codes |-> Optional(spec.codes),
             endpoints |-> Optional(spec.endpoints)]
      [] OTHER -> Rendered(kind, NewSpec(kind).says, spec)

OthersWrite ==
    /\ Change
    /\ \E spec \in Wants[kind], rest \in Rests :
          LET body == [says |-> Foreign(spec), rest |-> rest]
          IN  Accepts(azure, body) /\ azure' = body
    /\ UNCHANGED <<kind, want, pc, local, seen, edits>>

OthersTouch ==
    /\ Change
    /\ azure # Absent
    /\ \E rest \in Rests \ {azure.rest} : azure' = [says |-> azure.says, rest |-> rest]
    /\ UNCHANGED <<kind, want, pc, local, seen, edits>>

OthersRemove ==
    /\ Change
    /\ azure # Absent /\ azure' = Absent
    /\ UNCHANGED <<kind, want, pc, local, seen, edits>>

-----------------------------------------------------------------------------
(* A reconcile, and the start of the process after a panic.                *)

\* Is there something to send?
Sends(remote) == remote = Absent \/ ~Builder.reads \/ Resends(kind, remote, want)

\* Ensure up to its PUT: GET, compare, build.
Look ==
    /\ pc = "idle"
    /\ LET remote == IF Builder.reads THEN azure ELSE Absent
           send == Sends(remote) /\ ~Fails(kind, Base(remote), want)
       IN  /\ pc' = CASE Panics(kind, remote # Absent, remote, want) -> "down"
                      [] send /\ ~Panics(kind, remote # Absent, remote, want) -> "put"
                      [] OTHER -> "idle"
           /\ local' = IF pc' = "put" THEN want ELSE Nil
           /\ seen' = IF pc' = "put" THEN remote ELSE Absent
    /\ UNCHANGED <<kind, want, azure, edits, changes>>

\* A variant of the next definition (mutant): what was read is kept for later.
DoneKeeping == pc' = "idle" /\ local' = Nil /\ UNCHANGED seen

Done == pc' = "idle" /\ local' = Nil /\ seen' = Absent

\* An update of a storage account is not a PUT: it creates nothing.
Put ==
    /\ pc = "put"
    /\ LET body == Body(kind, Base(seen), local)
           patched == kind = "StorageAccount" /\ seen # Absent
       IN  azure' = IF Accepts(azure, body) /\ (patched => azure # Absent)
                    THEN body ELSE azure
    /\ Done
    /\ UNCHANGED <<kind, want, edits, changes>>

\* CreateOrUpdate returns an error and nothing has reached Azure.
PutLost ==
    /\ pc = "put"
    /\ Change
    /\ Done
    /\ UNCHANGED <<kind, want, azure, edits>>

Restart ==
    /\ pc = "down"
    /\ Done
    /\ UNCHANGED <<kind, want, azure, edits, changes>>

Environment == Edit \/ OthersWrite \/ OthersTouch \/ OthersRemove \/ PutLost
Manager == Look \/ Put \/ Restart
OverlayNext == Environment \/ Manager

OverlaySpec == OverlayInit /\ [][OverlayNext]_vars

\* A work item is handled and, as informers resync, comes back; a process that
\* went down is started again.
OverlayFairSpec == OverlaySpec /\ WF_vars(Look) /\ WF_vars(Put) /\ WF_vars(Restart)

-----------------------------------------------------------------------------
(* Properties.                                                             *)

\* The types; the worker holds a spec exactly when it is about to send.
OverlayTypeOK ==
    /\ kind \in DOMAIN Wants /\ want \in Wants[kind]
    /\ azure # Absent => azure.rest \in Rests
    /\ pc \in {"idle", "put", "down"}
    /\ local \in Wants[kind] \cup {Nil} /\ (local # Nil <=> pc = "put")
    /\ seen # Absent => pc = "put" /\ seen.rest \in Rests
    /\ edits \in 0 .. MaxEdits /\ changes \in 0 .. MaxChanges

Sending == pc = "put" /\ pc' = "idle"

\* The fields of a resource that its spec speaks of.
Fields(spec) ==
    IF kind = "VM" THEN {"location", "sku", "zone", "nics"} ELSE DOMAIN spec

OptionalLists == {"probes", "rules", "headers", "codes", "endpoints"}
Single == {"location", "prefix", "backends", "sku", "zone", "start", "end", "capacity", "ssl"}

\* What it means that a field of a resource is as the spec asks, by the types of
\* api/v1alpha1 and not by the builders: prefixes are a set; a frontend, a rule, a
\* pool, an interface each has its own name and address, and there are no others; a
\* list that is not given is empty; an address of an interface is static if one is
\* given, one is primary, and references lead where they say.
AsAsked(spec, says, f) ==
    /\ f = "addresses" => ToSet(says[f]) = ToSet(spec[f]) /\ IsInjective(says[f])
    /\ f = "frontends" =>
          /\ Len(says[f]) = Len(spec[f])
          /\ \A i \in DOMAIN spec[f] : says[f][i] = [name |-> spec[f][i], id |-> spec[f][i]]
    /\ f = "nics" => says[f] = <<spec.primary>> \o Optional(spec.secondaries)
    /\ f = "configs" =>
          /\ Len(says[f]) = Len(Optional(spec[f]))
          /\ IsInjective(NamesOf(says[f]))
          /\ \E p \in DOMAIN says[f] : \A i \in DOMAIN says[f] : says[f][i].primary <=> i = p
          /\ \A i \in DOMAIN says[f] :
                /\ says[f][i].public = spec[f][i].public
                /\ says[f][i].private = spec[f][i].private
                /\ says[f][i].method = "Dynamic" <=> spec[f][i].private = Nil
                /\ says[f][i].pools = Optional(spec[f][i].pools)
    /\ f \in OptionalLists => says[f] = Optional(spec[f])
    /\ f \in Single =>
          says[f] = IF kind = "PublicIP" /\ spec[f] = Nil THEN "Standard" ELSE spec[f]

\* The fields Ensure gets wrong without Azure refusing them: the frontends, when
\* there are several (each points to the last one's address); the status codes, when
\* there are no headers; an interface's reference to a public address elsewhere.
Garbled(spec) ==
    {f \in Fields(spec) :
        \/ kind = "LoadBalancer" /\ f = "frontends" /\ Len(spec.frontends) > 1
        \/ /\ kind = "TrafficManager" /\ f = "codes"
           /\ spec.headers = Nil /\ Optional(spec.codes) # <<>>
        \/ /\ kind = "NetworkInterface" /\ f = "configs"
           /\ \E i \in DOMAIN Optional(spec.configs) :
                 spec.configs[i].public # Nil /\ ~spec.configs[i].public.own}

\* A field of a resource that Ensure creates, or overwrites without having seen it, is
\* as the spec that was read asks, unless it is one of those that the builders get
\* wrong, and those are wrong: where the address of a loop variable stands in any
\* other list of several elements, Azure refuses the body, and no other field is
\* lost, taken twice, or left at a default.
CreatedAsAsked ==
    [][ Sending /\ seen = Absent /\ azure' # azure
        => \A f \in Fields(local) :
              AsAsked(local, azure'.says, f) <=> f \notin Garbled(local) ]_vars

\* The kinds whose Ensure overlays the spec on the resource (NewSpecWithRemote).
Overlaid == {"ResourceGroup", "VirtualNetwork", "Subnet", "LoadBalancer", "VM",
             "SQLFirewallRule", "StorageAccount"}

\* What others put in a resource survives its update, unless they did so after
\* the GET of that reconcile: NewSpecWithRemote starts from all that was read.
KeepsOthers ==
    [][ Sending /\ kind \in Overlaid /\ seen # Absent /\ azure = seen
        => azure'.rest = azure.rest ]_vars

\* An update of a virtual network removes no prefix and moves none, whatever the
\* spec says by then: AddressSpaces adds to the prefixes it finds.
PrefixesOnlyGrow ==
    [][ Sending /\ kind = "VirtualNetwork" /\ seen # Absent /\ azure = seen
        => IsPrefix(azure.says.addresses, azure'.says.addresses) ]_vars

\* No PUT for this spec can succeed as Azure stands, or none is ever sent.
Stuck ==
    LET remote == IF Builder.reads THEN azure ELSE Absent
    IN  \/ Panics(kind, remote # Absent, remote, want)
        \/ Fails(kind, Base(remote), want)
        \/ ~Accepts(azure, Body(kind, Base(remote), want))

\* The fields Ensure sees to on a resource that exists.
Kept == IF Builder.reads THEN Builder.compares ELSE Fields(want)

Applied ==
    /\ azure # Absent
    /\ \A f \in Kept \ Garbled(want) :
          \/ AsAsked(want, azure.says, f)
          \/ f = "addresses" /\ ToSet(want[f]) \subseteq ToSet(azure.says[f])

\* Once the user and everybody else are done, the resource exists and says what
\* the spec asks for in the fields its client sees to, or the spec is one that
\* can never be applied: drift and edits are both found by some later reconcile.
\* (Stuck takes in the specs whose reading panics, the machine without a zone and
\* the lists that Azure refuses; a field Ensure does not compare is not looked at.)
Obeyed == <>[](Applied \/ Stuck)

\* The kinds a reconcile that finds nothing to change sends nothing for.
Quiet == {"ResourceGroup", "VirtualNetwork", "Subnet", "LoadBalancer", "VM",
          "NetworkInterface", "Identity"}

\* A prefix was withdrawn from the spec, put before another, or is in it twice: the
\* lists differ for good, as nothing is ever taken out of the resource's or added
\* to it again.
Withdrawn ==
    /\ kind = "VirtualNetwork" /\ azure # Absent
    /\ ~IsPrefix(azure.says.addresses, want.addresses) \/ ~IsInjective(want.addresses)

\* The spec that was read asks for each prefix once, after those that were there.
Extends ==
    kind = "VirtualNetwork" =>
        /\ IsPrefix(Base(seen).says.addresses, local.addresses)
        /\ IsInjective(local.addresses)

\* What a PUT has made of the resource does not read as one more difference from
\* the spec it was made from, whatever others did between GET and PUT: the same
\* spec is not sent again (or reading the spec panics).
PutSettles ==
    [][ Sending /\ azure' # azure /\ kind \in Quiet /\ Extends
        => ~Resends(kind, azure', local) \/ Panics(kind, TRUE, azure', local) ]_vars

\* A resource that agrees with its spec is left alone in the end: the PUTs stop,
\* what they write does not read as one more difference.
LeftAlone == kind \in Quiet => <>[](pc # "put" \/ Stuck \/ Withdrawn)
=============================================================================
