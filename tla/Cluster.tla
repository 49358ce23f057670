------------------------------ MODULE Cluster ------------------------------
(***************************************************************************)
(* One custom resource as the Kubernetes API server, the informer cache    *)
(* and the controller's work queue keep it.  This is code outside src/     *)
(* (controller-runtime v0.3.0 and the API server), modelled from how       *)
(* controllers/*.go uses it: Get reads the cache, Update and               *)
(* Status().Update are refused when the resource version is stale, an      *)
(* object whose last finalizer goes while it is being deleted vanishes,    *)
(* and every event or requeue marks the object's key for reconciliation.   *)
(***************************************************************************)
EXTENDS Resources

CONSTANTS
    MaxInc,     \* bound: how many times the user creates the object
    MaxEdits,   \* bound: how many times the user edits its spec
    MaxRV       \* bound: how many writes the API server stores

ASSUME ClusterAssumption == MaxInc \in Nat /\ MaxEdits \in Nat /\ MaxRV \in Nat

VARIABLES
    api,        \* the stored version of the object
    cached,     \* the version in the informer cache
    watch,      \* the versions stored but not yet delivered to the cache
    queued,     \* is the object's key waiting in the work queue?
    edits       \* how many edits the user has made

clusterVars == <<api, cached, watch, queued, edits>>

\* A stored version.  "inc" is the incarnation (the UID), "live" is false
\* once the object has gone, "fin" says whether azure.alexeldeib.xyz/finalizer
\* is there, "deleting" whether the deletion timestamp is set.
Version == [rv : Nat, inc : Nat, live : BOOLEAN, fin : BOOLEAN,
            deleting : BOOLEAN, items : Contents, status : ProvisioningState]

NoObject == [rv |-> 0, inc |-> 0, live |-> FALSE, fin |-> FALSE,
             deleting |-> FALSE, items |-> {}, status |-> "None"]

ClusterTypeOK ==
    /\ api \in Version
    /\ cached \in Version
    /\ watch \in SUBSET Version
    /\ queued \in BOOLEAN
    /\ edits \in Nat

ClusterInit ==
    /\ api = NoObject
    /\ cached = NoObject
    /\ watch = {}
    /\ queued = FALSE
    /\ edits = 0

\* The API server stores v under the next resource version; an object being
\* deleted goes with its last finalizer.
Store(v) ==
    /\ api.rv < MaxRV
    /\ api' = [v EXCEPT !.rv = api.rv + 1,
                        !.live = v.live /\ ~(v.deleting /\ ~v.fin)]
    /\ watch' = watch \cup {api'}

\* Optimistic concurrency: a write based on v is accepted.
Fresh(v) == api.live /\ api.inc = v.inc /\ api.rv = v.rv

\* The user creates the object, edits its spec, or deletes it.
UserCreate ==
    /\ ~api.live
    /\ api.inc < MaxInc
    /\ \E i \in Contents :
          Store([NoObject EXCEPT !.inc = api.inc + 1, !.live = TRUE, !.items = i])
    /\ UNCHANGED <<cached, queued, edits>>

UserEdit ==
    /\ api.live
    /\ edits < MaxEdits
    /\ edits' = edits + 1
    /\ \E i \in Contents \ {api.items} : Store([api EXCEPT !.items = i])
    /\ UNCHANGED <<cached, queued>>

UserDelete ==
    /\ api.live
    /\ ~api.deleting
    /\ Store([api EXCEPT !.deleting = TRUE])
    /\ UNCHANGED <<cached, queued, edits>>

\* The watch delivers the oldest undelivered version, which replaces the
\* cached one and enqueues the key.
Deliver ==
    /\ \E v \in watch :
          /\ \A w \in watch : v.rv <= w.rv
          /\ cached' = v
          /\ watch' = watch \ {v}
    /\ queued' = TRUE
    /\ UNCHANGED <<api, edits>>

\* The periodic resync of the informer enqueues every cached object.
Resync ==
    /\ cached.live
    /\ ~queued
    /\ queued' = TRUE
    /\ UNCHANGED <<api, cached, watch, edits>>
=============================================================================
