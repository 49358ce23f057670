-------------------------- MODULE ManagedClients --------------------------
(***************************************************************************)
(* The clients of pkg/clients that controllers.AsyncReconciler drives      *)
(* share one shape: Delete sends DELETE and then looks with GET; Ensure    *)
(* either looks with GET and sends PUT only when the resource is missing   *)
(* or differs, or sends PUT unconditionally and looks afterwards.  What    *)
(* tells one client from another is a record of five choices:              *)
(*                                                                         *)
(*   first      the first call of Ensure, "get" or "put";                  *)
(*   tolerated  the answers to DELETE after which Delete goes on to look;  *)
(*   clears     does SetStatus reset the state when GET returns no body?   *)
(*   update     when a finished resource is sent again: if it "differs",   *)
(*              "always" or "never";                                       *)
(*   merges     does a PUT keep what the resource already contains?        *)
(*   cleanup    does what Delete does after the resource is gone succeed?  *)
(***************************************************************************)
EXTENDS Resources

CONSTANT Kind       \* the custom resource's kind

Tolerant == {"ok", "lost", "notFound", "conflict"}
Strict == {"ok", "lost", "notFound"}

\* A resource group has only a name and a location, neither of which Azure
\* lets a PUT change: its specs differ in nothing (Items is {} for it).
ResourceGroup == [first |-> "get", tolerated |-> Tolerant, clears |-> FALSE,
                  update |-> "differs", merges |-> FALSE, cleanup |-> TRUE]

\* AddressSpaces only adds prefixes to those of the resource it read.
VirtualNetwork == [first |-> "get", tolerated |-> Tolerant, clears |-> FALSE,
                   update |-> "differs", merges |-> TRUE, cleanup |-> TRUE]

Subnet == [first |-> "get", tolerated |-> Strict, clears |-> FALSE,
           update |-> "differs", merges |-> FALSE, cleanup |-> TRUE]

\* Ensure returns as soon as the interface is there and done.
NetworkInterface == [first |-> "get", tolerated |-> Strict, clears |-> TRUE,
                     update |-> "never", merges |-> FALSE, cleanup |-> TRUE]

PublicIP == [first |-> "put", tolerated |-> Strict, clears |-> FALSE,
             update |-> "always", merges |-> FALSE, cleanup |-> TRUE]

SecurityGroup == [first |-> "put", tolerated |-> Strict, clears |-> FALSE,
                  update |-> "always", merges |-> FALSE, cleanup |-> TRUE]

\* NeedsUpdate is true when the location is the one asked for, which it is.
ServiceBusNamespace == [first |-> "get", tolerated |-> Strict, clears |-> TRUE,
                        update |-> "always", merges |-> FALSE, cleanup |-> TRUE]

\* Likewise.
Redis == [first |-> "get", tolerated |-> Tolerant, clears |-> TRUE,
          update |-> "always", merges |-> FALSE, cleanup |-> TRUE]

\* Once the machine is gone Delete goes on to delete its disk, through a
\* client no subscription was ever chosen for: its requests cannot be built.
VM == [first |-> "get", tolerated |-> Strict, clears |-> TRUE,
       update |-> "differs", merges |-> FALSE, cleanup |-> FALSE]

Clients ==
    [ResourceGroup |-> ResourceGroup, VirtualNetwork |-> VirtualNetwork,
     Subnet |-> Subnet, NetworkInterface |-> NetworkInterface,
     PublicIP |-> PublicIP, SecurityGroup |-> SecurityGroup,
     ServiceBusNamespace |-> ServiceBusNamespace, Redis |-> Redis, VM |-> VM]

ASSUME KindAssumption == Kind \in DOMAIN Clients

Client == Clients[Kind]

\* Variants of the next definitions that a slip would make (mutants): the old
\* state stays; an unfinished resource counts as done.
SetStatusKept(status, answer, state) == IF answer = "found" THEN state ELSE status
DoneUnlessFailed(status) == status \in {"Working", "Succeeded"}

\* The state SetStatus leaves in the object, from the one it had and what
\* GET returned: the resource's state when there is a body to read.
SetStatus(status, answer, state) ==
    CASE answer = "found" -> state
      [] answer # "found" /\ Client.clears -> "None"
      [] OTHER -> status

Done(status) == status = "Succeeded"

NeedsUpdate(has, wants) ==
    CASE Client.update = "differs" -> has # wants
      [] OTHER -> Client.update = "always"

\* The contents a PUT sends, from what GET found and what the spec asks for.
Build(has, wants) == IF Client.merges THEN has \cup wants ELSE wants
=============================================================================
