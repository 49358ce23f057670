----------------------------- MODULE Controller -----------------------------
(***************************************************************************)
(* What the reconcilers of controllers/*.go have in common, for one object *)
(* of one kind: AsyncReconciler and SyncReconciler differ in the calls     *)
(* their clients make in Ensure and Delete, and in little else.  The work  *)
(* queue never hands a key to two workers, so one worker serves the        *)
(* object; every call it makes to the API server or to Azure is a step of  *)
(* its own, between which the user, the watch, Azure and crashes act.      *)
(***************************************************************************)
EXTENDS Cluster, Arm

VARIABLES
    pc,         \* the call the worker makes next; "idle" between reconciles
    local,      \* the object as the worker holds it, Status included
    draft,      \* the contents its next PUT sends
    res,        \* what Ensure or Delete is about to return
    seen        \* history: the state the last GET of this reconcile showed

workerVars == <<pc, local, draft, res, seen>>
vars == <<clusterVars, armVars, workerVars>>

DeletePath == {"azDelete", "deleteGet", "deleteStatus", "removeFinalizer"}
EnsurePath == {"ensureGet", "ensurePut", "ensureRead", "ensureStatus"}

\* Delete returns an error, or whether it found the resource; Ensure returns
\* an error, or whether it is done.
Results == {"err", "found", "gone", "done", "more"}

TypeOK ==
    /\ ClusterTypeOK
    /\ ArmTypeOK
    /\ pc \in {"idle", "addFinalizer"} \cup DeletePath \cup EnsurePath
    /\ local \in Version
    /\ draft \in Contents
    /\ res \in Results
    /\ seen \in ProvisioningState \cup {"Unknown"}

Init ==
    /\ ClusterInit
    /\ ArmInit
    /\ pc = "idle"
    /\ local = NoObject
    /\ draft = {}
    /\ res = "more"
    /\ seen = "Unknown"

-----------------------------------------------------------------------------
(* Taking the key, and what Reconcile decides from the cached object.      *)

\* Reconcile returns, queued again after a back-off or not, and drops its
\* copy of the object.
Idle ==
    /\ pc' = "idle"
    /\ local' = NoObject
    /\ draft' = {}
    /\ res' = "more"
    /\ seen' = "Unknown"

Return(requeue) == Idle /\ queued' = (queued \/ requeue)

Take(next) ==
    /\ pc = "idle"
    /\ queued
    /\ queued' = FALSE
    /\ pc' = next
    /\ local' = cached
    /\ draft' = cached.items
    /\ UNCHANGED <<res, seen, api, cached, watch, edits, armVars>>

\* Not found, or being deleted without our finalizer: nothing to do.
FetchNothing ==
    /\ pc = "idle" /\ queued
    /\ ~(cached.live /\ (cached.fin \/ ~cached.deleting))
    /\ queued' = FALSE
    /\ UNCHANGED <<api, cached, watch, edits, armVars, workerVars>>

FetchUnguarded ==
    /\ cached.live /\ ~cached.deleting /\ ~cached.fin
    /\ Take("addFinalizer")

\* (mutant: the deletion timestamp is not looked at)
FetchDeletingAnyway == cached.live /\ cached.fin /\ Take("azDelete")

FetchDeleting ==
    /\ cached.live /\ cached.deleting /\ cached.fin
    /\ Take("azDelete")

-----------------------------------------------------------------------------
(* Writes to the API server.                                               *)

\* The worker asks the API server to store new, on the strength of the
\* version it holds: stored, refused as stale, or failed either way.
Write(new, ok) ==
    LET Stored == IF new = api THEN UNCHANGED <<api, watch>> ELSE Store(new)
    IN  /\ \/ ok /\ Fresh(local) /\ Stored /\ UNCHANGED faults
           \/ ~ok /\ ~Fresh(local) /\ UNCHANGED <<api, watch, faults>>
           \/ ~ok /\ Fault("kube") /\ UNCHANGED <<api, watch>>
           \/ ~ok /\ Fault("kube") /\ Fresh(local) /\ Stored
        /\ UNCHANGED <<cached, edits, remote, torn>>

\* Update stores everything but the status, Status().Update nothing else.
Update(new, ok) == Write([new EXCEPT !.status = api.status], ok)
StatusUpdate(ok) == Write([api EXCEPT !.status = local.status], ok)

\* (mutant: Reconcile goes on to Ensure whatever the update returned)
AddFinalizerIgnored ==
    /\ pc = "addFinalizer"
    /\ \E ok \in BOOLEAN : Update([local EXCEPT !.fin = TRUE], ok)
    /\ pc' = "ensureGet"
    /\ UNCHANGED <<queued, local, draft, res, seen>>

\* (mutant: a conflict is answered by writing the stale copy all the same)
AddFinalizerRetried ==
    /\ pc = "addFinalizer"
    /\ api.live /\ api.inc = local.inc
    /\ Store([local EXCEPT !.fin = TRUE, !.status = api.status])
    /\ Return(FALSE)
    /\ UNCHANGED <<cached, edits, armVars>>

AddFinalizer ==
    /\ pc = "addFinalizer"
    /\ \E ok \in BOOLEAN :
          /\ Update([local EXCEPT !.fin = TRUE], ok)
          /\ Return(~ok)

-----------------------------------------------------------------------------
(* The ends of the two paths: the status, and the finalizer.               *)

\* (mutants: the finalizer goes as soon as the deletion was accepted; a
\* deletion that has not finished is not looked at again)
DeleteStatusAccepted ==
    /\ pc = "deleteStatus"
    /\ \E ok \in BOOLEAN :
          /\ StatusUpdate(ok)
          /\ IF ok /\ res # "err"
             THEN /\ pc' = "removeFinalizer"
                  /\ local' = api'
                  /\ UNCHANGED <<queued, draft, res, seen>>
             ELSE Return(TRUE)

DeleteStatusForgotten ==
    /\ pc = "deleteStatus"
    /\ \E ok \in BOOLEAN :
          /\ StatusUpdate(ok)
          /\ IF ok /\ res = "gone"
             THEN /\ pc' = "removeFinalizer"
                  /\ local' = api'
                  /\ UNCHANGED <<queued, draft, res, seen>>
             ELSE Return(FALSE)

\* An error, or a resource that is still there, is an error of Reconcile.
DeleteStatus ==
    /\ pc = "deleteStatus"
    /\ \E ok \in BOOLEAN :
          /\ StatusUpdate(ok)
          /\ IF ok /\ res = "gone"
             THEN /\ pc' = "removeFinalizer"
                  /\ local' = api'
                  /\ UNCHANGED <<queued, draft, res, seen>>
             ELSE Return(TRUE)

RemoveFinalizer ==
    /\ pc = "removeFinalizer"
    /\ \E ok \in BOOLEAN :
          /\ Update([local EXCEPT !.fin = FALSE], ok)
          /\ Return(~ok)

\* (mutant: an unfinished resource is not looked at again)
EnsureStatusForgotten ==
    /\ pc = "ensureStatus"
    /\ \E ok \in BOOLEAN : StatusUpdate(ok) /\ Return(~ok \/ res = "err")

\* An error or an unfinished resource requeues the key.
EnsureStatus ==
    /\ pc = "ensureStatus"
    /\ \E ok \in BOOLEAN :
          /\ StatusUpdate(ok)
          /\ Return(~ok \/ res # "done")

\* Nothing but the resource (and the fault budget) is touched by a call to Azure.
Calling == UNCHANGED <<clusterVars, draft>>


-----------------------------------------------------------------------------
(* The manager dies and another one lists the objects anew.                *)

Crash ==
    /\ Fault("crash")
    /\ Idle
    /\ cached' = api
    /\ watch' = {}
    /\ queued' = api.live
    /\ UNCHANGED <<api, edits, remote, torn>>

Common ==
    \/ FetchNothing \/ FetchUnguarded \/ FetchDeleting
    \/ AddFinalizer \/ DeleteStatus \/ RemoveFinalizer \/ EnsureStatus

User == (UserCreate \/ UserEdit \/ UserDelete) /\ UNCHANGED <<armVars, workerVars>>
Informer == (Deliver \/ Resync) /\ UNCHANGED <<armVars, workerVars>>
Azure == ArmFinish /\ UNCHANGED <<clusterVars, workerVars>>
Outside == (ArmFail \/ ArmDrift) /\ UNCHANGED <<clusterVars, workerVars>>
Environment == User \/ Informer \/ Azure \/ Outside \/ Crash

-----------------------------------------------------------------------------
(* Properties.                                                             *)

\* No resource outlives its object: while a resource this controller sent is
\* in Azure, the object it was sent for is stored with the finalizer
\* (async_controller.go:62-81: the finalizer goes on before the first Ensure
\* and comes off only after GET has answered 404).
NoOrphan ==
    ~Absent /\ remote.owner # 0 =>
        api.live /\ api.fin /\ api.inc = remote.owner

\* Once a DELETE has been sent for an object, no reconcile of that object,
\* however stale the cache it read, goes on to send a PUT
\* (async_controller.go:68-87: the two paths exclude each other over time).
NoPutAfterDelete == pc = "ensurePut" => torn < local.inc

\* A DELETE only ever hits the resource of the object being deleted: a late
\* reconcile of a deleted object does not destroy what the object created
\* again under the same name has made (async_controller.go:48 and 70).
DeletesOwn == pc = "azDelete" => remote.owner \in {0, local.inc}

\* The worker's writes (Update sends the whole object) never undo what the
\* user has meanwhile asked for: neither an edit nor a deletion is lost.
UserIntentKept ==
    [][pc' # pc => /\ api'.items = api.items
                   /\ api'.inc = api.inc
                   /\ api'.deleting = api.deleting]_vars

\* Nothing is about to look at the object again: no key in the queue, no
\* reconcile under way, no event on its way.
AtRest == ~queued /\ pc = "idle" /\ watch = {}

\* No wake-up is lost: whatever failed, was refused as stale, lagged or crashed,
\* an object that is to be deleted or has no finalizer yet is looked at again
\* without anyone touching it (async_controller.go:55-99: what each return of
\* Reconcile requeues, and what only an event does).
NothingForgotten == AtRest /\ api.live => api.fin /\ ~api.deleting

\* Nobody else changes or removes the resource.
Alone == Faults \cap {"drift", "gone"} = {}

\* Behaviours that use up MaxRV are cut short by that bound and say nothing
\* about what eventually happens.
WithinBound == [](api.rv < MaxRV)

\* A deletion the user asked for completes: DELETE, GET and the finalizer's
\* removal are retried until the object is gone (async_controller.go:69-82).
DeletionCompletes ==
    WithinBound =>
        \A i \in 1..MaxInc :
            (api.live /\ api.deleting /\ api.inc = i) ~> ~(api.live /\ api.inc = i)

\* Once users and faults are quiet the resource comes to be what the object
\* asks for, the object says so, and both stay so (async_controller.go:87-99).
Converged ==
    api.live /\ ~api.deleting =>
        /\ remote.st = "Succeeded"
        /\ remote.has = api.items
        /\ api.status = "Succeeded"

Convergence == WithinBound => <>[]Converged

\* Reconciling ends only there: an object nothing will look at again has its
\* resource in Azure, provisioned and as its latest spec asks, and says so; an
\* operation that failed, an edit made in between or a state read too early is
\* never the last word (async_controller.go:87-99, subnets.go:75-103).
RestsWhenDone == Alone /\ AtRest => Converged

-----------------------------------------------------------------------------
(* The abstract specification this one implements.                         *)

Phase ==
    CASE ~api.live -> "none"
      [] api.live /\ ~api.fin -> "new"
      [] api.live /\ api.fin /\ ~api.deleting -> "held"
      [] api.live /\ api.fin /\ api.deleting ->
            IF torn = api.inc THEN "tearing" ELSE "dying"

L == INSTANCE Lifecycle WITH phase <- Phase, inc <- api.inc, made <- remote.owner

\* Every step of the reconciler, the user, the informer and Azure is a step of
\* the object's lifecycle or changes nothing in it: the promise of the
\* finalizer (async_controller.go:62-87) across stale caches, refused or lost
\* writes and restarts.
ImplementsLifecycle == L!LifecycleSpec

-----------------------------------------------------------------------------
(* Why NoOrphan, NoPutAfterDelete and DeletesOwn hold: what every copy of  *)
(* the object, however old, says about the object now.                     *)

Held == {cached} \cup watch
Known == Held \cup {local, NoObject}

\* Two versions of the same object that differ in their status at most.
Same(v, w) ==
    /\ v.inc = w.inc /\ v.live = w.live /\ v.fin = w.fin
    /\ v.deleting = w.deleting /\ v.items = w.items

\* Copies are older than the stored version, or are that version.
CopiesAreVersions ==
    /\ api \in Held
    /\ \A v \in Known :
          /\ v.rv <= api.rv
          /\ v.inc <= api.inc
          /\ v.rv = api.rv => Same(v, api)

\* Undelivered versions come after the cached one; names are reused in order,
\* and a deletion is not taken back.
VersionsInOrder ==
    /\ \A v \in watch : cached.rv < v.rv
    /\ \A v, w \in Held : v.rv = w.rv => v = w
    /\ \A v, w \in Held : v.rv <= w.rv =>
          /\ v.inc <= w.inc
          /\ v.inc = w.inc /\ v.deleting => w.deleting
    /\ \A v \in Held : local.inc <= v.inc

\* The finalizer, once on, stays on while any copy does not say "deleting".
GuardHolds ==
    /\ \A v \in Known : v.fin => v.live
    /\ \A v \in Known : v.live /\ v.deleting => v.fin
    /\ \A v \in Known : v.fin /\ ~v.deleting =>
          api.live /\ api.fin /\ api.inc = v.inc

\* A DELETE is sent only when no copy can lead to a PUT any more.
TornMeansDeleting ==
    /\ torn <= api.inc
    /\ \A v \in Known : v.live /\ ~v.deleting => torn < v.inc

\* What the worker knows where it stands.
PathsApart ==
    /\ pc = "addFinalizer" => local.live /\ ~local.deleting /\ ~local.fin
    /\ pc \in EnsurePath => local.fin /\ ~local.deleting
    /\ pc \in DeletePath => /\ local.fin /\ local.deleting
                            /\ \A v \in Held : v.inc = local.inc => v.deleting

\* Whose resource it is.
OwnerGuarded ==
    /\ Absent => remote.owner = 0
    /\ remote.owner # 0 => api.live /\ api.fin /\ api.inc = remote.owner
    /\ \A v \in Held : remote.owner <= v.inc
    /\ pc # "idle" => remote.owner <= local.inc
    /\ pc = "removeFinalizer" \/ (pc = "deleteStatus" /\ res = "gone") =>
          remote.owner = 0

\* Teardowns go forward: a DELETE is never sent for an object older than the
\* one the last was sent for, and the finalizer goes only after one.  Needed
\* for ImplementsLifecycle alone.
TornInOrder ==
    /\ \A v \in Held : torn <= v.inc
    /\ pc # "idle" => torn <= local.inc
    /\ pc \in {"deleteGet", "removeFinalizer"} \/ (pc = "deleteStatus" /\ res = "gone") =>
          torn = local.inc

\* The inductive invariant: what every copy says, and whose resource it is
\* (async_controller.go:48-99, reading from the cache throughout).
IInv ==
    /\ TypeOK
    /\ CopiesAreVersions
    /\ VersionsInOrder
    /\ GuardHolds
    /\ TornMeansDeleting
    /\ PathsApart
    /\ OwnerGuarded
=============================================================================
