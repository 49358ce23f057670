------------------------- MODULE Controller_proofs -------------------------
(***************************************************************************)
(* What holds of Controller's part of both reconcilers, for every set of   *)
(* contents and every value of the bounds: each step they share keeps the  *)
(* types and the inductive invariant, and so do a GET, a PUT and a DELETE  *)
(* made where the two paths make them.                                     *)
(***************************************************************************)
EXTENDS Controller, TLAPS

USE DEF Contents

\* The parts of the inductive invariant that speak of copies only.
Copies == CopiesAreVersions /\ VersionsInOrder /\ GuardHolds /\ TornMeansDeleting

\* The inductive invariant without whose the resource is: what holds whatever
\* the client makes of the answers of Azure.
CopyInv == TypeOK /\ Copies /\ PathsApart

\* The parts of OwnerGuarded that do not speak of the worker.
Owned ==
    /\ Absent => remote.owner = 0
    /\ remote.owner # 0 => api.live /\ api.fin /\ api.inc = remote.owner
    /\ \A v \in Held : remote.owner <= v.inc

\* What may be stored: a new object when there is none, or a version of the
\* stored one that takes no deletion back, and takes the finalizer off only
\* when every copy says "deleting" ...
Legal(new) ==
    /\ new \in Version
    /\ new.live
    /\ \/ new.inc = api.inc + 1 /\ ~api.live /\ ~new.fin /\ ~new.deleting
       \/ /\ new.inc = api.inc
          /\ api.live
          /\ api.deleting => new.deleting
          /\ api.fin /\ ~new.fin => \A v \in Known : v.fin => v.deleting

\* ... and, if it is to guard the resource, when nothing is left in Azure.
Freed(new) == api.fin /\ ~new.fin => remote.owner = 0

\* A version that takes its place in the store (Cluster!Store) is a version.
LEMMA StoreType ==
    ASSUME TypeOK, NEW new \in Version, Store(new)
    PROVE  api' \in Version /\ watch' \in SUBSET Version
  <1>1. api.rv \in Nat /\ watch \in SUBSET Version
    BY DEF TypeOK, ClusterTypeOK, Version
  <1>2. /\ api' = [new EXCEPT !.rv = api.rv + 1,
                              !.live = new.live /\ ~(new.deleting /\ ~new.fin)]
        /\ watch' = watch \cup {api'}
    BY DEF Store
  <1>3. api.rv + 1 \in Nat /\ (new.live /\ ~(new.deleting /\ ~new.fin)) \in BOOLEAN
    BY <1>1 DEF Version
  <1>4. api' \in Version
    BY <1>2, <1>3 DEF Version
  <1>. QED BY <1>1, <1>2, <1>4

\* What Store does, field by field.
LEMMA StoreFields ==
    ASSUME TypeOK, NEW new \in Version, Store(new)
    PROVE  /\ api'.rv = api.rv + 1
           /\ api'.inc = new.inc
           /\ api'.fin = new.fin
           /\ api'.deleting = new.deleting
           /\ api'.items = new.items
           /\ api'.status = new.status
           /\ api'.live = (new.live /\ ~(new.deleting /\ ~new.fin))
           /\ watch' = watch \cup {api'}
  BY DEF TypeOK, ClusterTypeOK, Store, Version

\* The copies of the object are versions.
LEMMA KnownType ==
    ASSUME TypeOK
    PROVE  Known \subseteq Version /\ Held \subseteq Known
  <1>1. NoObject \in Version
    BY DEF NoObject, Version, ProvisioningState
  <1>. QED BY <1>1 DEF TypeOK, ClusterTypeOK, Known, Held

\* A legal write keeps what the copies say true.
LEMMA StoreKeepsCopies ==
    ASSUME TypeOK, Copies, NEW new, Legal(new), Store(new),
           cached' = cached, torn' = torn,
           \/ local' \in {local, NoObject}
           \/ local' = api' /\ new.inc = local.inc
    PROVE  Copies'
  <1>. DEFINE F == /\ api'.rv = api.rv + 1
                   /\ api'.inc = new.inc
                   /\ api'.fin = new.fin
                   /\ api'.deleting = new.deleting
                   /\ api'.live = ~(new.deleting /\ ~new.fin)
  <1>1. F /\ watch' = watch \cup {api'}
    BY StoreFields DEF Legal
  <1>2. Known \subseteq Version /\ Held \subseteq Known /\ api \in Held
    BY KnownType DEF Copies, CopiesAreVersions
  <1>3. Held' = Held \cup {api'} /\ Known' \subseteq Known \cup {api'}
    BY <1>1 DEF Held, Known
  <1>4. \A v \in Known : v.rv \in Nat /\ v.inc \in Nat /\ v.deleting \in BOOLEAN
                         /\ v.fin \in BOOLEAN /\ v.live \in BOOLEAN
    BY <1>2 DEF Version
  <1>5. /\ api.rv \in Nat /\ api.inc \in Nat /\ api \in Known
        /\ new.inc \in Nat /\ torn \in Nat
        /\ api.inc <= new.inc
        /\ new.fin \in BOOLEAN /\ new.deleting \in BOOLEAN /\ api.deleting \in BOOLEAN
    BY <1>2 DEF Legal, Version, TypeOK, ArmTypeOK
  <1>6. CopiesAreVersions'
    <2>1. api' \in Held'
      BY <1>3
    <2>2. ASSUME NEW v \in Known'
          PROVE  v.rv <= api'.rv /\ v.inc <= api'.inc /\ (v.rv = api'.rv => Same(v, api'))
      <3>1. CASE v = api'
        BY <3>1, <1>1, <1>5 DEF Same
      <3>2. CASE v \in Known
        BY <3>2, <1>1, <1>4, <1>5 DEF Copies, CopiesAreVersions
      <3>. QED BY <3>1, <3>2, <1>3
    <2>. QED BY <2>1, <2>2 DEF CopiesAreVersions, Same
  <1>7. VersionsInOrder'
    <2>1. \A v \in watch' : cached'.rv < v.rv
      BY <1>1, <1>2, <1>4, <1>5 DEF Copies, VersionsInOrder, CopiesAreVersions, Held
    <2>4. \A v, w \in Held' : v.rv = w.rv => v = w
      BY <1>1, <1>2, <1>3, <1>4, <1>5 DEF Copies, VersionsInOrder, CopiesAreVersions
    <2>2. ASSUME NEW v \in Held', NEW w \in Held', v.rv <= w.rv
          PROVE  v.inc <= w.inc /\ (v.inc = w.inc /\ v.deleting => w.deleting)
      <3>1. CASE v \in Held /\ w \in Held
        BY <3>1, <2>2 DEF Copies, VersionsInOrder
      <3>2. CASE v \in Held /\ w = api'
        <4>1. v.rv <= api.rv /\ v.inc <= api.inc
          BY <3>2, <1>2 DEF Copies, CopiesAreVersions
        <4>2. v.inc <= new.inc
          BY <4>1, <1>4, <1>5, <1>2, <3>2
        <4>3. ASSUME v.inc = new.inc, v.deleting PROVE new.deleting
          <5>1. new.inc = api.inc /\ (api.deleting => new.deleting)
            BY <4>1, <4>3, <1>4, <1>5, <1>2, <3>2 DEF Legal
          <5>2. api.deleting
            BY <5>1, <4>1, <4>3, <1>2, <3>2 DEF Copies, VersionsInOrder
          <5>. QED BY <5>1, <5>2
        <4>. QED BY <4>2, <4>3, <3>2, <1>1
      <3>3. CASE v = api' /\ w \in Held /\ w # api'
        BY <3>3, <2>2, <1>1, <1>2, <1>4, <1>5 DEF Copies, CopiesAreVersions
      <3>4. CASE v = api' /\ w = api'
        BY <3>4, <1>1, <1>5
      <3>. QED BY <3>1, <3>2, <3>3, <3>4, <1>3
    <2>3. ASSUME NEW v \in Held' PROVE local'.inc <= v.inc
      <3>1. local.inc <= api.inc /\ local.inc \in Nat
        BY <1>4 DEF Known, Copies, CopiesAreVersions
      <3>2. v.inc \in Nat /\ local.inc <= v.inc
        BY <3>1, <1>1, <1>2, <1>3, <1>4, <1>5 DEF Copies, VersionsInOrder
      <3>3. CASE local' = local
        BY <3>2, <3>3
      <3>4. CASE local' = NoObject
        BY <3>2, <3>4 DEF NoObject
      <3>5. CASE local' = api' /\ new.inc = local.inc
        BY <3>2, <3>5, <1>1
      <3>. QED BY <3>3, <3>4, <3>5
    <2>. QED BY <2>1, <2>2, <2>3, <2>4 DEF VersionsInOrder
  <1>8. GuardHolds'
    <2>1. ASSUME NEW v \in Known'
          PROVE  /\ v.fin => v.live
                 /\ v.live /\ v.deleting => v.fin
                 /\ v.fin /\ ~v.deleting => api'.live /\ api'.fin /\ api'.inc = v.inc
      <3>1. CASE v = api'
        BY <3>1, <1>1, <1>5
      <3>2. CASE v \in Known
        <4>1. /\ v.fin => v.live
              /\ v.live /\ v.deleting => v.fin
              /\ v.fin /\ ~v.deleting => api.live /\ api.fin /\ api.inc = v.inc
          BY <3>2 DEF Copies, GuardHolds
        <4>2. ASSUME v.fin, ~v.deleting
              PROVE  api'.live /\ api'.fin /\ api'.inc = v.inc
          BY <4>1, <4>2, <3>2, <1>1, <1>5 DEF Legal
        <4>. QED BY <4>1, <4>2
      <3>. QED BY <3>1, <3>2, <1>3
    <2>. QED BY <2>1 DEF GuardHolds
  <1>9. TornMeansDeleting'
    <2>1. torn <= new.inc
      BY <1>5 DEF Copies, TornMeansDeleting
    <2>2. ASSUME NEW v \in Known', v.live, ~v.deleting PROVE torn < v.inc
      <3>1. CASE v = api'
        BY <3>1, <2>2, <1>1, <1>5 DEF Legal, Copies, TornMeansDeleting
      <3>2. CASE v \in Known
        BY <3>2, <2>2 DEF Copies, TornMeansDeleting
      <3>. QED BY <3>1, <3>2, <1>3
    <2>. QED BY <2>1, <2>2, <1>1 DEF TornMeansDeleting
  <1>. QED BY <1>6, <1>7, <1>8, <1>9 DEF Copies

-----------------------------------------------------------------------------
(* Types.                                                                  *)

\* Reconcile drops its copy: the worker's variables are back where they began.
LEMMA IdleType ==
    ASSUME Idle
    PROVE  /\ pc' = "idle"
           /\ local' \in Version
           /\ draft' \in Contents
           /\ res' \in Results
           /\ seen' \in ProvisioningState \cup {"Unknown"}
  BY DEF Idle, NoObject, Version, ProvisioningState, Results

\* PUT and DELETE leave a resource.
LEMMA CallType ==
    ASSUME TypeOK, NEW answer,
           \/ ArmDelete(local.inc, answer)
           \/ ArmPut(draft, local.inc, answer)
    PROVE  ArmTypeOK'
  <1>1. /\ local.inc \in Nat /\ draft \in Contents
        /\ remote \in Resource /\ faults \in Nat /\ torn \in Nat
    BY DEF TypeOK, Version, ArmTypeOK
  <1>2. NoResource \in Resource /\ [remote EXCEPT !.st = "Deleting"] \in Resource
    BY <1>1 DEF NoResource, Resource
  <1>3. CASE ArmDelete(local.inc, answer)
    <2>1. remote' = remote \/ remote' \in {NoResource, [remote EXCEPT !.st = "Deleting"]}
      BY <1>3 DEF ArmDelete, Discard
    <2>2. faults' \in Nat /\ torn' \in Nat
      BY <1>1, <1>3 DEF ArmDelete, Fault
    <2>. QED BY <1>1, <1>2, <2>1, <2>2 DEF ArmTypeOK
  <1>4. CASE ArmPut(draft, local.inc, answer)
    <2>1. remote' = remote \/ Accept(draft, local.inc)
      BY <1>4 DEF ArmPut
    <2>2. remote' \in Resource
      BY <1>1, <2>1 DEF Accept, Resource
    <2>3. faults' \in Nat /\ torn' \in Nat
      BY <1>1, <1>4 DEF ArmPut, Fault
    <2>. QED BY <2>2, <2>3 DEF ArmTypeOK
  <1>. QED BY <1>3, <1>4

\* A write to the API server leaves versions.
LEMMA WriteType ==
    ASSUME TypeOK, NEW new \in Version, NEW ok, Write(new, ok)
    PROVE  /\ api' \in Version /\ watch' \in SUBSET Version
           /\ cached' \in Version /\ edits' \in Nat
           /\ ArmTypeOK'
  <1>1. UNCHANGED <<api, watch>> \/ Store(new)
    BY DEF Write
  <1>2. api' \in Version /\ watch' \in SUBSET Version
    BY <1>1, StoreType DEF TypeOK, ClusterTypeOK
  <1>3. cached' \in Version /\ edits' \in Nat
    BY DEF Write, TypeOK, ClusterTypeOK
  <1>4. ArmTypeOK'
    BY DEF Write, Fault, TypeOK, ArmTypeOK
  <1>. QED BY <1>2, <1>3, <1>4

\* The versions the worker asks the API server to store are versions.
LEMMA NewVersions ==
    ASSUME TypeOK
    PROVE  /\ [[local EXCEPT !.fin = TRUE] EXCEPT !.status = api.status] \in Version
           /\ [[local EXCEPT !.fin = FALSE] EXCEPT !.status = api.status] \in Version
           /\ [api EXCEPT !.status = local.status] \in Version
  BY DEF TypeOK, ClusterTypeOK, Version

\* The user creates a new object or changes the stored one, and never takes a
\* deletion back nor a finalizer off.
LEMMA UserStores ==
    ASSUME TypeOK, User
    PROVE  \E new \in Version :
              /\ Store(new)
              /\ new.live
              /\ \/ new.inc = api.inc + 1 /\ ~api.live /\ ~new.fin /\ ~new.deleting
                 \/ /\ new.inc = api.inc
                    /\ api.live
                    /\ api.deleting => new.deleting
                    /\ new.fin = api.fin
  <1>1. api \in Version /\ api.inc + 1 \in Nat
    BY DEF TypeOK, ClusterTypeOK, Version
  <1>2. NoObject \in Version
    BY DEF Version, NoObject, ProvisioningState
  <1>3. CASE UserCreate
    <2>1. PICK i \in Contents :
            Store([NoObject EXCEPT !.inc = api.inc + 1, !.live = TRUE, !.items = i])
      BY <1>3 DEF UserCreate
    <2>. DEFINE new == [NoObject EXCEPT !.inc = api.inc + 1, !.live = TRUE, !.items = i]
    <2>2. /\ new \in Version /\ new.inc = api.inc + 1 /\ new.live
          /\ ~new.fin /\ ~new.deleting
      BY <1>1, <1>2 DEF NoObject, Version
    <2>3. ~api.live
      BY <1>3 DEF UserCreate
    <2>. QED BY <2>1, <2>2, <2>3
  <1>4. CASE UserEdit
    <2>1. PICK i \in Contents : Store([api EXCEPT !.items = i])
      BY <1>4 DEF UserEdit
    <2>. DEFINE new == [api EXCEPT !.items = i]
    <2>2. /\ new \in Version /\ new.inc = api.inc /\ new.live = api.live
          /\ new.fin = api.fin /\ new.deleting = api.deleting
      BY <1>1 DEF Version
    <2>3. api.live
      BY <1>4 DEF UserEdit
    <2>. QED BY <2>1, <2>2, <2>3
  <1>5. CASE UserDelete
    <2>. DEFINE new == [api EXCEPT !.deleting = TRUE]
    <2>1. Store(new)
      BY <1>5 DEF UserDelete
    <2>2. /\ new \in Version /\ new.inc = api.inc /\ new.live = api.live
          /\ new.fin = api.fin /\ new.deleting
      BY <1>1 DEF Version
    <2>3. api.live
      BY <1>5 DEF UserDelete
    <2>. QED BY <2>1, <2>2, <2>3
  <1>. QED BY <1>3, <1>4, <1>5 DEF User

\* Taking the key copies the cached version.
LEMMA TakeType ==
    ASSUME TypeOK, NEW next \in DeletePath \cup EnsurePath \cup {"addFinalizer"}, Take(next)
    PROVE  TypeOK'
  BY DEF Take, TypeOK, ClusterTypeOK, ArmTypeOK, armVars, Version

\* Every step the reconcilers share keeps the types.
LEMMA CommonType ==
    ASSUME TypeOK, Common
    PROVE  TypeOK'
  <1>. DEFINE Pcs == {"idle", "addFinalizer"} \cup DeletePath \cup EnsurePath
  <1>. DEFINE WorkerOK == /\ pc' \in Pcs
                          /\ local' \in Version
                          /\ draft' \in Contents
                          /\ res' \in Results
                          /\ seen' \in ProvisioningState \cup {"Unknown"}
  <1>. USE DEF ClusterTypeOK
  <1>1. CASE FetchUnguarded \/ FetchDeleting
    BY <1>1, TakeType DEF FetchUnguarded, FetchDeleting, DeletePath
  <1>2. CASE FetchNothing
    BY <1>2 DEF FetchNothing, TypeOK, ArmTypeOK, armVars, workerVars
  <1>3. CASE AddFinalizer
    <2>1. PICK ok \in BOOLEAN : /\ Update([local EXCEPT !.fin = TRUE], ok)
                                /\ Return(~ok)
      BY <1>3 DEF AddFinalizer
    <2>2. /\ api' \in Version /\ watch' \in SUBSET Version
          /\ cached' \in Version /\ edits' \in Nat /\ ArmTypeOK'
      BY <2>1, WriteType, NewVersions DEF Update
    <2>3. WorkerOK /\ queued' \in BOOLEAN
      BY <2>1, IdleType DEF Return, TypeOK
    <2>. QED BY <2>2, <2>3 DEF TypeOK
  <1>4. CASE DeleteStatus
    <2>1. PICK ok \in BOOLEAN : /\ StatusUpdate(ok)
                                /\ \/ /\ pc' = "removeFinalizer" /\ local' = api'
                                      /\ UNCHANGED <<queued, draft, res, seen>>
                                   \/ Return(TRUE)
      BY <1>4 DEF DeleteStatus
    <2>2. /\ api' \in Version /\ watch' \in SUBSET Version
          /\ cached' \in Version /\ edits' \in Nat /\ ArmTypeOK'
      BY <2>1, WriteType, NewVersions DEF StatusUpdate
    <2>3. WorkerOK /\ queued' \in BOOLEAN
      BY <2>1, <2>2, IdleType DEF Return, TypeOK, DeletePath
    <2>. QED BY <2>2, <2>3 DEF TypeOK
  <1>5. CASE RemoveFinalizer
    <2>1. PICK ok \in BOOLEAN : /\ Update([local EXCEPT !.fin = FALSE], ok)
                                /\ Return(~ok)
      BY <1>5 DEF RemoveFinalizer
    <2>2. /\ api' \in Version /\ watch' \in SUBSET Version
          /\ cached' \in Version /\ edits' \in Nat /\ ArmTypeOK'
      BY <2>1, WriteType, NewVersions DEF Update
    <2>3. WorkerOK /\ queued' \in BOOLEAN
      BY <2>1, IdleType DEF Return, TypeOK
    <2>. QED BY <2>2, <2>3 DEF TypeOK
  <1>6. CASE EnsureStatus
    <2>1. PICK ok \in BOOLEAN : StatusUpdate(ok) /\ Return(~ok \/ res # "done")
      BY <1>6 DEF EnsureStatus
    <2>2. /\ api' \in Version /\ watch' \in SUBSET Version
          /\ cached' \in Version /\ edits' \in Nat /\ ArmTypeOK'
      BY <2>1, WriteType, NewVersions DEF StatusUpdate
    <2>3. WorkerOK /\ queued' \in BOOLEAN
      BY <2>1, IdleType DEF Return, TypeOK
    <2>. QED BY <2>2, <2>3 DEF TypeOK
  <1>. QED BY <1>2, <1>1, <1>3, <1>4, <1>5, <1>6 DEF Common

\* So does every step of the user, the informer, Azure and of a restart.
LEMMA EnvironmentType ==
    ASSUME TypeOK, Environment
    PROVE  TypeOK'
  <1>. DEFINE Pcs == {"idle", "addFinalizer"} \cup DeletePath \cup EnsurePath
  <1>. DEFINE WorkerOK == /\ pc' \in Pcs
                          /\ local' \in Version
                          /\ draft' \in Contents
                          /\ res' \in Results
                          /\ seen' \in ProvisioningState \cup {"Unknown"}
  <1>. USE DEF ClusterTypeOK
  <1>1. CASE User
    <2>2. PICK new \in Version : Store(new)
      BY <1>1, UserStores
    <2>3. api' \in Version /\ watch' \in SUBSET Version
      BY <2>2, StoreType
    <2>4. cached' = cached /\ queued' = queued /\ edits' \in {edits, edits + 1}
      BY <1>1 DEF User, UserCreate, UserEdit, UserDelete
    <2>5. UNCHANGED <<armVars, workerVars>>
      BY <1>1 DEF User
    <2>. QED BY <2>3, <2>4, <2>5 DEF TypeOK, ArmTypeOK, armVars, workerVars
  <1>2. CASE Informer
    BY <1>2 DEF Informer, Deliver, Resync, TypeOK, ArmTypeOK, armVars, workerVars
  <1>3. CASE Azure \/ Outside
    <2>1. remote \in Resource /\ torn \in Nat /\ faults \in Nat
      BY DEF TypeOK, ArmTypeOK
    <2>2. /\ NoResource \in Resource
          /\ \A h \in Contents : Foreign(h) \in Resource
          /\ \A h \in Contents : [remote EXCEPT !.has = h] \in Resource
          /\ [remote EXCEPT !.st = "Succeeded"] \in Resource
          /\ [remote EXCEPT !.st = "Failed"] \in Resource
      BY <2>1 DEF NoResource, Foreign, Resource
    <2>3. remote' \in Resource
      BY <1>3, <2>2 DEF Azure, Outside, ArmFinish, ArmFail, ArmDrift
    <2>4. torn' = torn /\ faults' \in Nat /\ UNCHANGED <<clusterVars, workerVars>>
      BY <1>3, <2>1 DEF Azure, Outside, ArmFinish, ArmFail, ArmDrift, Fault
    <2>. QED BY <2>1, <2>3, <2>4 DEF TypeOK, ArmTypeOK, clusterVars, workerVars
  <1>4. CASE Crash
    <2>1. faults' \in Nat
      BY <1>4 DEF Crash, Fault, TypeOK, ArmTypeOK
    <2>2. WorkerOK
      BY <1>4, IdleType DEF Crash
    <2>. QED BY <1>4, <2>1, <2>2 DEF Crash, TypeOK, ArmTypeOK, Version
  <1>. QED BY <1>1, <1>2, <1>3, <1>4 DEF Environment

\* And standing still.
LEMMA StutterType ==
    ASSUME TypeOK, UNCHANGED vars
    PROVE  TypeOK'
  BY DEF vars, clusterVars, armVars, workerVars, TypeOK, ClusterTypeOK, ArmTypeOK

\* The first versions and resources are versions and resources.
LEMMA TypeInit == Init => TypeOK
  <1>. SUFFICES ASSUME Init PROVE TypeOK
    OBVIOUS
  <1>1. NoObject \in Version
    BY DEF NoObject, Version, ProvisioningState
  <1>2. NoResource \in Resource /\ \A h \in Contents : Foreign(h) \in Resource
    BY DEF NoResource, Foreign, Resource
  <1>3. ClusterTypeOK
    BY <1>1 DEF Init, ClusterInit, ClusterTypeOK
  <1>4. ArmTypeOK
    BY <1>2 DEF Init, ArmInit, ArmTypeOK
  <1>. QED BY <1>1, <1>3, <1>4 DEF Init, TypeOK, Results

-----------------------------------------------------------------------------
(* The inductive invariant.                                                *)

\* The worker replaces its copy: by nothing, by the cached version, by itself
\* with another status, or by the stored version it has just written.
LEMMA LocalKeepsCopies ==
    ASSUME TypeOK, Copies, UNCHANGED <<api, cached, watch, torn>>,
           \/ local' \in {NoObject, cached}
           \/ Same(local', local) /\ local'.rv = local.rv
           \/ local' = api /\ local.inc = api.inc
    PROVE  Copies'
  <1>1. Known \subseteq Version /\ Held \subseteq Known /\ api \in Held
    BY KnownType DEF Copies, CopiesAreVersions
  <1>2. Held' = Held /\ Known' = Held \cup {local', NoObject}
    BY DEF Held, Known
  <1>3. \A v \in Known : v.rv \in Nat /\ v.inc \in Nat
    BY <1>1 DEF Version
  <1>4. /\ cached \in Held /\ local \in Known /\ NoObject \in Known
        /\ \A v \in Held : cached.rv <= v.rv
    BY <1>1, <1>3 DEF Held, Known, Copies, VersionsInOrder
  <1>5. local' \in Known \/ (Same(local', local) /\ local'.rv = local.rv)
    BY <1>1, <1>4
  <1>6. \A v \in Known' : \E w \in Known : Same(v, w) /\ v.rv = w.rv
    <2>1. \A v \in Known : Same(v, v)
      BY DEF Same
    <2>. QED BY <1>1, <1>2, <1>4, <1>5, <2>1
  <1>7. CopiesAreVersions'
    <2>1. ASSUME NEW v \in Known'
          PROVE  v.rv <= api.rv /\ v.inc <= api.inc /\ (v.rv = api.rv => Same(v, api))
      <3>1. PICK w \in Known : Same(v, w) /\ v.rv = w.rv
        BY <1>6
      <3>. QED BY <3>1 DEF Same, Copies, CopiesAreVersions
    <2>. QED BY <1>1, <1>2, <2>1 DEF CopiesAreVersions, Same
  <1>8. VersionsInOrder'
    <2>1. \A v \in Held : local'.inc <= v.inc
      <3>1. CASE local' = NoObject
        BY <3>1, <1>1, <1>3 DEF NoObject
      <3>2. CASE local' = cached
        BY <3>2, <1>4 DEF Copies, VersionsInOrder
      <3>3. CASE Same(local', local) \/ (local' = api /\ local.inc = api.inc)
        BY <3>3 DEF Same, Copies, VersionsInOrder
      <3>. QED BY <3>1, <3>2, <3>3
    <2>. QED BY <1>2, <2>1 DEF Copies, VersionsInOrder
  <1>9. GuardHolds'
    <2>1. ASSUME NEW v \in Known'
          PROVE  /\ v.fin => v.live
                 /\ v.live /\ v.deleting => v.fin
                 /\ v.fin /\ ~v.deleting => api.live /\ api.fin /\ api.inc = v.inc
      <3>1. PICK w \in Known : Same(v, w)
        BY <1>6
      <3>. QED BY <3>1 DEF Same, Copies, GuardHolds
    <2>. QED BY <2>1 DEF GuardHolds
  <1>10. TornMeansDeleting'
    <2>1. ASSUME NEW v \in Known', v.live, ~v.deleting PROVE torn < v.inc
      <3>1. PICK w \in Known : Same(v, w)
        BY <1>6
      <3>. QED BY <2>1, <3>1 DEF Same, Copies, TornMeansDeleting
    <2>. QED BY <2>1 DEF TornMeansDeleting, Copies
  <1>. QED BY <1>7, <1>8, <1>9, <1>10 DEF Copies

\* A legal write leaves the resource with an object that guards it.
LEMMA StoreKeepsOwned ==
    ASSUME TypeOK, Copies, Owned, NEW new, Legal(new), Freed(new), Store(new),
           cached' = cached, remote' = remote
    PROVE  Owned'
  <1>1. /\ api'.inc = new.inc /\ api'.fin = new.fin
        /\ api'.live = ~(new.deleting /\ ~new.fin)
        /\ watch' = watch \cup {api'}
    BY StoreFields DEF Legal
  <1>2. /\ api \in Held /\ Held' = Held \cup {api'}
        /\ remote.owner \in Nat /\ api.inc \in Nat /\ new.inc \in Nat
    BY <1>1 DEF Copies, CopiesAreVersions, Held, TypeOK, ArmTypeOK, ClusterTypeOK,
                Resource, Version, Legal
  <1>3. remote.owner # 0 => api'.live /\ api'.fin /\ api'.inc = remote.owner
    BY <1>1 DEF Owned, Legal, Freed
  <1>4. \A v \in Held' : remote.owner <= v.inc
    BY <1>1, <1>2 DEF Owned, Legal
  <1>. QED BY <1>3, <1>4 DEF Owned, Absent

\* A write by the worker, accepted or not, keeps what the copies say and whose
\* the resource is, provided what is written over a fresh copy is legal.
LEMMA WriteKeeps ==
    ASSUME TypeOK, Copies, NEW new, NEW ok, Write(new, ok),
           Fresh(local) => Legal(new) /\ new.inc = local.inc,
           \/ local' = NoObject
           \/ local' = api' /\ Fresh(local)
    PROVE  /\ Copies'
           /\ Owned /\ (Fresh(local) => Freed(new)) => Owned'
  <1>1. cached' = cached /\ remote' = remote /\ torn' = torn
    BY DEF Write
  <1>2. CASE UNCHANGED <<api, watch>>
    <2>1. local' = NoObject \/ (local' = api /\ local.inc = api.inc)
      BY <1>2 DEF Fresh
    <2>2. Copies'
      BY <1>1, <1>2, <2>1, LocalKeepsCopies
    <2>3. Owned => Owned'
      BY <1>1, <1>2 DEF Owned, Absent, Held
    <2>. QED BY <2>2, <2>3
  <1>3. CASE Fresh(local) /\ Store(new)
    <2>1. Legal(new) /\ new.inc = local.inc
      BY <1>3
    <2>2. Copies'
      BY <1>1, <1>3, <2>1, StoreKeepsCopies
    <2>3. Owned /\ Freed(new) => Owned'
      BY <1>1, <1>3, <2>1, StoreKeepsOwned
    <2>. QED BY <1>3, <2>2, <2>3
  <1>. QED BY <1>2, <1>3 DEF Write

\* A fresh copy is the stored object, its status aside.
LEMMA FreshIsStored ==
    ASSUME CopiesAreVersions, Fresh(local)
    PROVE  Same(local, api) /\ api.live
  BY DEF CopiesAreVersions, Fresh, Known

\* The status write is legal: it changes nothing else.
LEMMA StatusLegal ==
    ASSUME TypeOK, CopiesAreVersions, Fresh(local)
    PROVE  LET new == [api EXCEPT !.status = local.status]
           IN  Legal(new) /\ Freed(new) /\ new.inc = local.inc
  <1>. DEFINE new == [api EXCEPT !.status = local.status]
  <1>1. new \in Version
    BY NewVersions
  <1>2. /\ new.inc = api.inc /\ new.live = api.live /\ new.fin = api.fin
        /\ new.deleting = api.deleting
    BY DEF TypeOK, ClusterTypeOK, Version
  <1>3. api.live /\ api.inc = local.inc
    BY DEF Fresh
  <1>. QED BY <1>1, <1>2, <1>3 DEF Legal, Freed

\* The invariant as the lemmas above cut it up.
LEMMA IInvParts == IInv <=> CopyInv /\ OwnerGuarded
  BY DEF IInv, CopyInv, Copies

LEMMA CopyParts ==
    ASSUME CopyInv
    PROVE  /\ TypeOK /\ Copies /\ CopiesAreVersions /\ PathsApart
           /\ OwnerGuarded => Owned
  BY DEF CopyInv, Copies, OwnerGuarded, Owned

\* A worker between two reconciles has nothing to keep.
LEMMA IdleInv ==
    ASSUME TypeOK', Copies', pc' = "idle"
    PROVE  CopyInv' /\ (Owned' => OwnerGuarded')
  BY DEF CopyInv, Owned, OwnerGuarded, PathsApart, EnsurePath, DeletePath

\* Taking the key, on either path.
LEMMA TakeStep ==
    ASSUME CopyInv, TypeOK', NEW next, Take(next),
           \/ next = "addFinalizer" /\ cached.live /\ ~cached.deleting /\ ~cached.fin
           \/ next = "azDelete" /\ cached.fin /\ cached.deleting
           \/ next \in EnsurePath /\ cached.fin /\ ~cached.deleting
    PROVE  CopyInv' /\ (OwnerGuarded => OwnerGuarded')
  <1>. USE CopyParts
  <1>1. UNCHANGED <<api, cached, watch, armVars>>
    BY DEF Take
  <1>2. Owned => Owned'
    BY <1>1 DEF Owned, Absent, Held, armVars
  <1>3. /\ local' = cached /\ pc' = next
        /\ \/ pc' = "addFinalizer" /\ cached.live /\ ~cached.deleting /\ ~cached.fin
           \/ pc' = "azDelete" /\ cached.fin /\ cached.deleting
           \/ pc' \in EnsurePath /\ cached.fin /\ ~cached.deleting
    BY DEF Take
  <1>4. Copies'
    BY <1>1, <1>3, LocalKeepsCopies DEF armVars
  <1>5. ASSUME cached.deleting, NEW v \in Held, v.inc = cached.inc
        PROVE  v.deleting
    <2>1. cached \in Held /\ cached.rv <= cached.rv
      BY DEF Held, TypeOK, ClusterTypeOK, Version
    <2>2. cached.rv <= v.rv
      BY <1>5, <2>1 DEF Held, Copies, VersionsInOrder, TypeOK, ClusterTypeOK, Version
    <2>. QED BY <1>5, <2>1, <2>2 DEF Copies, VersionsInOrder
  <1>6. PathsApart'
    BY <1>1, <1>3, <1>5 DEF PathsApart, EnsurePath, DeletePath, Held
  <1>7. Owned => remote'.owner <= local'.inc
    BY <1>1, <1>3 DEF Owned, Held, armVars
  <1>8. OwnerGuarded => OwnerGuarded'
    BY <1>2, <1>3, <1>7 DEF OwnerGuarded, Owned, EnsurePath
  <1>. QED BY <1>4, <1>6, <1>8 DEF CopyInv

\* An object there is nothing to do for is forgotten.
LEMMA FetchNothingStep ==
    ASSUME CopyInv, FetchNothing
    PROVE  CopyInv' /\ (OwnerGuarded => OwnerGuarded')
  BY DEF FetchNothing, CopyInv, Copies, TypeOK, ClusterTypeOK, ArmTypeOK, CopiesAreVersions,
         VersionsInOrder, GuardHolds, TornMeansDeleting, PathsApart, OwnerGuarded,
         Held, Known, Absent, armVars, workerVars

\* Adding the finalizer: written over a fresh copy it only adds.
LEMMA AddFinalizerStep ==
    ASSUME CopyInv, TypeOK', AddFinalizer
    PROVE  CopyInv' /\ (OwnerGuarded => OwnerGuarded')
  <1>. USE CopyParts
  <1>. DEFINE new == [[local EXCEPT !.fin = TRUE] EXCEPT !.status = api.status]
  <1>1. PICK ok \in BOOLEAN : Write(new, ok) /\ Return(~ok)
    BY DEF AddFinalizer, Update
  <1>2. local.live /\ ~local.deleting
    BY DEF AddFinalizer, PathsApart
  <1>3. /\ new \in Version /\ new.inc = local.inc /\ new.live = local.live
        /\ new.fin /\ new.deleting = local.deleting
    BY NewVersions DEF TypeOK, Version
  <1>4. ASSUME Fresh(local) PROVE Legal(new) /\ Freed(new)
    <2>1. Same(local, api) /\ api.live
      BY <1>4, FreshIsStored
    <2>. QED BY <1>2, <1>3, <2>1 DEF Legal, Freed, Same
  <1>5. pc' = "idle" /\ local' = NoObject
    BY <1>1 DEF Return, Idle
  <1>. QED BY <1>1, <1>3, <1>4, <1>5, WriteKeeps, IdleInv

\* Sending the DELETE: no copy of the object can lead to a PUT any more.
LEMMA DeleteCallStep ==
    ASSUME CopyInv, TypeOK', NEW answer, ArmDelete(local.inc, answer),
           pc = "azDelete", pc' \in {"deleteGet", "deleteStatus"},
           UNCHANGED <<clusterVars, local>>
    PROVE  /\ CopyInv'
           /\ OwnerGuarded /\ (pc' = "deleteStatus" /\ res' = "gone" => remote'.owner = 0) =>
                 OwnerGuarded'
  <1>. USE CopyParts
  <1>1. ArmDelete(local.inc, answer)
    OBVIOUS
  <1>2. /\ UNCHANGED <<api, cached, watch, local>>
        /\ torn' = local.inc
        /\ pc' \in {"deleteGet", "deleteStatus"}
    BY <1>1 DEF ArmDelete, clusterVars
  <1>3. Held' = Held /\ Known' = Known
    BY <1>2 DEF Held, Known
  <1>4. local.fin /\ local.deleting /\ \A v \in Held : v.inc = local.inc => v.deleting
    BY DEF PathsApart, DeletePath
  <1>5. /\ \A v \in Known : v.inc \in Nat
        /\ local.inc \in Nat
        /\ Held \subseteq Known /\ local \in Known
    BY KnownType DEF TypeOK, Version, Known
  <1>6. CopiesAreVersions' /\ VersionsInOrder' /\ GuardHolds'
    BY <1>2, <1>3 DEF Copies, CopiesAreVersions, VersionsInOrder, GuardHolds, Same
  <1>7. TornMeansDeleting'
    <2>1. local.inc <= api.inc
      BY <1>5 DEF CopiesAreVersions
    <2>2. ASSUME NEW v \in Known, v.live, ~v.deleting PROVE local.inc < v.inc
      <3>1. CASE v \in Held
        BY <2>2, <3>1, <1>4, <1>5 DEF Copies, VersionsInOrder
      <3>2. CASE v \in {local, NoObject}
        BY <2>2, <3>2, <1>4 DEF NoObject
      <3>. QED BY <3>1, <3>2 DEF Known
    <2>. QED BY <1>2, <1>3, <2>1, <2>2 DEF TornMeansDeleting
  <1>8. PathsApart'
    BY <1>2, <1>3, <1>4 DEF PathsApart, DeletePath, EnsurePath
  <1>9. remote' \in {remote, NoResource, [remote EXCEPT !.st = "Deleting"]}
    BY <1>1 DEF ArmDelete, Discard
  <1>10. OwnerGuarded => /\ remote'.owner \in {remote.owner, 0}
                         /\ remote'.st = "Absent" => remote'.owner = 0
    BY <1>9 DEF Owned, Absent, NoResource, TypeOK, ArmTypeOK, Resource
  <1>11. ASSUME OwnerGuarded, pc' = "deleteStatus" /\ res' = "gone" => remote'.owner = 0
         PROVE  OwnerGuarded'
    <2>1. remote.owner <= local.inc
      BY <1>11 DEF OwnerGuarded
    <2>. QED BY <1>2, <1>3, <1>5, <1>10, <1>11, <2>1 DEF Owned, OwnerGuarded, Absent
  <1>. QED BY <1>6, <1>7, <1>8, <1>11 DEF CopyInv, Copies

\* Looking after a DELETE: the answer 404 is the only way on to "gone".
LEMMA DeleteLookStep ==
    ASSUME CopyInv, TypeOK', NEW answer, ArmGet(answer),
           pc = "deleteGet", pc' = "deleteStatus",
           res' = "gone" => answer = "notFound",
           Same(local', local), local'.rv = local.rv, UNCHANGED clusterVars
    PROVE  CopyInv' /\ (OwnerGuarded => OwnerGuarded')
  <1>. USE CopyParts
  <1>2. UNCHANGED <<api, cached, watch, torn, remote>>
    BY DEF ArmGet, clusterVars
  <1>3. Same(local', local) /\ local'.rv = local.rv
    OBVIOUS
  <1>4. Copies'
    BY <1>2, <1>3, LocalKeepsCopies
  <1>5. local.fin /\ local.deleting /\ \A v \in Held : v.inc = local.inc => v.deleting
    BY DEF PathsApart, DeletePath
  <1>6. PathsApart'
    BY <1>2, <1>3, <1>5 DEF PathsApart, DeletePath, EnsurePath, Held, Same
  <1>7. OwnerGuarded /\ res' = "gone" => remote.owner = 0
    BY DEF ArmGet, Owned
  <1>8. OwnerGuarded => remote.owner <= local'.inc
    BY <1>3 DEF OwnerGuarded, Same
  <1>9. OwnerGuarded => OwnerGuarded'
    BY <1>2, <1>7, <1>8 DEF Owned, OwnerGuarded, Absent, Held
  <1>. QED BY <1>4, <1>6, <1>9 DEF CopyInv

\* The status of an object being deleted.
LEMMA DeleteStatusStep ==
    ASSUME CopyInv, TypeOK', DeleteStatus
    PROVE  CopyInv' /\ (OwnerGuarded => OwnerGuarded')
  <1>. USE CopyParts
  <1>. DEFINE new == [api EXCEPT !.status = local.status]
  <1>1. PICK ok \in BOOLEAN :
            /\ Write(new, ok)
            /\ IF ok /\ res = "gone"
               THEN pc' = "removeFinalizer" /\ local' = api'
               ELSE Return(TRUE)
    BY DEF DeleteStatus, StatusUpdate
  <1>2. Fresh(local) => Legal(new) /\ Freed(new) /\ new.inc = local.inc
    BY StatusLegal
  <1>3. CASE pc' = "idle" /\ local' = NoObject
    <2>1. Copies' /\ (Owned => Owned')
      BY <1>1, <1>2, <1>3, WriteKeeps
    <2>. QED BY <2>1, <1>3, IdleInv
  <1>4. CASE ok /\ res = "gone" /\ pc' = "removeFinalizer" /\ local' = api'
    <2>1. Fresh(local) /\ remote' = remote /\ cached' = cached
      BY <1>1, <1>4 DEF Write
    <2>2. Copies' /\ (Owned => Owned')
      BY <1>1, <1>2, <1>4, <2>1, WriteKeeps
    <2>3. local.fin /\ local.deleting /\ \A v \in Held : v.inc = local.inc => v.deleting
      BY DEF DeleteStatus, PathsApart, DeletePath
    <2>4. Same(local, api) /\ new \in Version
      BY <2>1, FreshIsStored, NewVersions
    <2>5. /\ api'.fin /\ api'.deleting /\ api'.inc = local.inc
          /\ watch' \subseteq watch \cup {api'}
      <3>1. CASE UNCHANGED <<api, watch>>
        BY <3>1, <2>3, <2>4 DEF Same
      <3>2. CASE Store(new)
        <4>1. new.fin = api.fin /\ new.deleting = api.deleting /\ new.inc = api.inc
          BY DEF TypeOK, ClusterTypeOK, Version
        <4>. QED BY <4>1, <3>2, <2>3, <2>4, StoreFields DEF Same
      <3>. QED BY <1>1, <1>4, <3>1, <3>2 DEF Write
    <2>6. PathsApart'
      BY <1>4, <2>1, <2>3, <2>5 DEF PathsApart, DeletePath, EnsurePath, Held
    <2>7. OwnerGuarded => remote.owner = 0
      BY <1>4 DEF OwnerGuarded, DeleteStatus
    <2>8. local'.inc \in Nat
      BY DEF TypeOK, Version
    <2>9. OwnerGuarded => OwnerGuarded'
      BY <2>1, <2>2, <2>7, <2>8 DEF Owned, OwnerGuarded
    <2>. QED BY <2>2, <2>6, <2>9 DEF CopyInv
  <1>. QED BY <1>1, <1>3, <1>4 DEF Return, Idle

\* Taking the finalizer off: every copy of the object says "deleting", and
\* nothing of it is left in Azure.
LEMMA RemoveFinalizerStep ==
    ASSUME CopyInv, TypeOK', RemoveFinalizer
    PROVE  CopyInv' /\ (OwnerGuarded => OwnerGuarded')
  <1>. USE CopyParts
  <1>. DEFINE new == [[local EXCEPT !.fin = FALSE] EXCEPT !.status = api.status]
  <1>1. PICK ok \in BOOLEAN : Write(new, ok) /\ Return(~ok)
    BY DEF RemoveFinalizer, Update
  <1>2. /\ local.fin /\ local.deleting
        /\ \A v \in Held : v.inc = local.inc => v.deleting
        /\ OwnerGuarded => Freed(new)
    BY DEF RemoveFinalizer, PathsApart, DeletePath, OwnerGuarded, Freed
  <1>3. /\ new \in Version /\ new.inc = local.inc /\ new.live = local.live
        /\ ~new.fin /\ new.deleting = local.deleting
    BY NewVersions DEF TypeOK, Version
  <1>4. ASSUME Fresh(local) PROVE Legal(new)
    <2>1. Same(local, api) /\ api.live
      BY <1>4, FreshIsStored
    <2>2. ASSUME NEW v \in Known, v.fin PROVE v.deleting
      <3>1. CASE v \in Held
        <4>1. ~v.deleting => v.inc = api.inc
          BY <2>2 DEF Copies, GuardHolds
        <4>. QED BY <4>1, <3>1, <1>2, <2>1 DEF Same
      <3>2. CASE v \in {local, NoObject}
        BY <3>2, <2>2, <1>2 DEF NoObject
      <3>. QED BY <3>1, <3>2 DEF Known
    <2>. QED BY <1>2, <1>3, <2>1, <2>2 DEF Legal, Same
  <1>5. pc' = "idle" /\ local' = NoObject
    BY <1>1 DEF Return, Idle
  <1>6. Copies' /\ (OwnerGuarded => Owned')
    BY <1>1, <1>2, <1>3, <1>4, <1>5, WriteKeeps
  <1>. QED BY <1>5, <1>6, IdleInv

\* Looking, before or after a PUT.
LEMMA EnsureLookStep ==
    ASSUME CopyInv, TypeOK', NEW answer, ArmGet(answer),
           pc \in EnsurePath, pc' \in {"ensurePut", "ensureStatus"},
           Same(local', local), local'.rv = local.rv, UNCHANGED clusterVars
    PROVE  CopyInv' /\ (OwnerGuarded => OwnerGuarded')
  <1>. USE CopyParts
  <1>2. UNCHANGED <<api, cached, watch, torn, remote>> /\ pc' \in {"ensurePut", "ensureStatus"}
    BY DEF ArmGet, clusterVars
  <1>3. Same(local', local) /\ local'.rv = local.rv
    OBVIOUS
  <1>4. Copies'
    BY <1>2, <1>3, LocalKeepsCopies
  <1>5. local.fin /\ ~local.deleting
    BY DEF PathsApart, EnsurePath
  <1>6. PathsApart'
    BY <1>2, <1>3, <1>5 DEF PathsApart, DeletePath, EnsurePath, Same
  <1>7. OwnerGuarded => remote.owner <= local'.inc
    BY <1>3 DEF OwnerGuarded, EnsurePath, Same
  <1>8. OwnerGuarded => OwnerGuarded'
    BY <1>2, <1>7 DEF Owned, OwnerGuarded, Absent, Held
  <1>. QED BY <1>4, <1>6, <1>8 DEF CopyInv

\* Sending the PUT: the copy has the finalizer and is not being deleted, so the
\* object is still there and guards what the PUT makes.
LEMMA EnsurePutStep ==
    ASSUME CopyInv, TypeOK', NEW answer, ArmPut(draft, local.inc, answer),
           pc = "ensurePut", pc' \in {"ensureRead", "ensureStatus"},
           UNCHANGED <<clusterVars, local>>
    PROVE  CopyInv' /\ (OwnerGuarded => OwnerGuarded')
  <1>. USE CopyParts
  <1>1. ArmPut(draft, local.inc, answer)
    OBVIOUS
  <1>2. /\ UNCHANGED <<api, cached, watch, torn, local>>
        /\ pc' \in {"ensureRead", "ensureStatus"}
    BY <1>1 DEF ArmPut, clusterVars
  <1>3. Same(local', local) /\ local'.rv = local.rv
    BY <1>2 DEF Same
  <1>4. Copies'
    BY <1>2, <1>3, LocalKeepsCopies
  <1>5. local.fin /\ ~local.deleting
    BY DEF PathsApart, EnsurePath
  <1>6. PathsApart'
    BY <1>2, <1>5 DEF PathsApart, DeletePath, EnsurePath
  <1>7. api.live /\ api.fin /\ api.inc = local.inc
    BY <1>5 DEF Copies, GuardHolds, Known
  <1>8. /\ remote' = remote \/ (remote'.owner = local.inc /\ remote'.st # "Absent")
        /\ local.inc \in Nat
    BY <1>1 DEF ArmPut, Accept, TypeOK, Version
  <1>9. /\ OwnerGuarded => remote.owner <= local.inc
        /\ \A v \in Held : local.inc <= v.inc
    BY DEF OwnerGuarded, Copies, VersionsInOrder
  <1>10. OwnerGuarded => OwnerGuarded'
    BY <1>2, <1>7, <1>8, <1>9 DEF Owned, OwnerGuarded, Absent, Held
  <1>. QED BY <1>4, <1>6, <1>10 DEF CopyInv

\* The status of an object that is not being deleted.
LEMMA EnsureStatusStep ==
    ASSUME CopyInv, TypeOK', EnsureStatus
    PROVE  CopyInv' /\ (OwnerGuarded => OwnerGuarded')
  <1>. USE CopyParts
  <1>1. PICK ok \in BOOLEAN : /\ Write([api EXCEPT !.status = local.status], ok)
                              /\ pc' = "idle" /\ local' = NoObject
    BY DEF EnsureStatus, StatusUpdate, Return, Idle
  <1>. QED BY <1>1, StatusLegal, WriteKeeps, IdleInv

\* The user never takes back a deletion, nor the finalizer off.
LEMMA UserStep ==
    ASSUME CopyInv, TypeOK', User
    PROVE  CopyInv' /\ (OwnerGuarded => OwnerGuarded')
  <1>. USE CopyParts
  <1>1. PICK new \in Version :
          /\ Store(new)
          /\ new.live
          /\ \/ new.inc = api.inc + 1 /\ ~api.live /\ ~new.fin /\ ~new.deleting
             \/ /\ new.inc = api.inc
                /\ api.live
                /\ api.deleting => new.deleting
                /\ new.fin = api.fin
    BY UserStores
  <1>2. Legal(new) /\ (Owned => Freed(new))
    <2>1. Legal(new)
      BY <1>1 DEF Legal
    <2>2. ~api.live => ~api.fin
      BY DEF Copies, GuardHolds, CopiesAreVersions, Known
    <2>. QED BY <1>1, <2>1, <2>2 DEF Freed
  <1>3. UNCHANGED <<cached, remote, torn, local, pc, res>>
    BY DEF User, UserCreate, UserEdit, UserDelete, armVars, workerVars
  <1>4. Copies' /\ (Owned => Owned')
    BY <1>1, <1>2, <1>3, StoreKeepsCopies, StoreKeepsOwned
  <1>5. /\ Held' = Held \cup {api'} /\ api \in Held
        /\ api'.inc = new.inc /\ api'.deleting = new.deleting
    BY <1>1, <1>3, StoreFields DEF Held, CopiesAreVersions
  <1>6. PathsApart'
    <2>1. ASSUME pc \in DeletePath, NEW v \in Held', v.inc = local.inc
          PROVE  v.deleting
      <3>1. CASE v \in Held
        BY <3>1, <2>1 DEF PathsApart
      <3>2. CASE v = api'
        <4>1. local.inc <= api.inc /\ api.inc \in Nat
          BY DEF CopiesAreVersions, Known, TypeOK, ClusterTypeOK, Version
        <4>2. new.inc = api.inc /\ (api.deleting => new.deleting)
          BY <4>1, <3>2, <2>1, <1>1, <1>5
        <4>. QED BY <4>2, <3>2, <2>1, <1>5 DEF PathsApart
      <3>. QED BY <3>1, <3>2, <1>5
    <2>. QED BY <1>3, <2>1 DEF PathsApart
  <1>7. OwnerGuarded => OwnerGuarded'
    BY <1>3, <1>4 DEF Owned, OwnerGuarded
  <1>. QED BY <1>4, <1>6, <1>7 DEF CopyInv

\* The watch delivers, and the resync enqueues.
LEMMA InformerStep ==
    ASSUME CopyInv, TypeOK', Informer
    PROVE  CopyInv' /\ (OwnerGuarded => OwnerGuarded')
  <1>. USE CopyParts
  <1>1. UNCHANGED <<api, armVars, workerVars>>
    BY DEF Informer, Deliver, Resync
  <1>2. /\ Held' \subseteq Held /\ api \in Held'
        /\ \A w \in watch' : cached'.rv < w.rv
    <2>1. CASE Resync
      BY <2>1 DEF Resync, Held, CopiesAreVersions, Copies, VersionsInOrder
    <2>2. CASE Deliver
      <3>1. PICK v \in watch : /\ \A w \in watch : v.rv <= w.rv
                               /\ cached' = v
                               /\ watch' = watch \ {v}
        BY <2>2 DEF Deliver
      <3>2. v.rv <= api.rv /\ cached.rv < v.rv
        BY DEF Held, Known, CopiesAreVersions, Copies, VersionsInOrder
      <3>3. v.rv \in Nat /\ api.rv \in Nat /\ \A w \in Held : w.rv \in Nat
        BY DEF Held, TypeOK, ClusterTypeOK, Version
      <3>4. api # cached
        BY <3>2, <3>3
      <3>5. Held' \subseteq Held /\ api \in Held'
        BY <3>1, <3>4 DEF Held, CopiesAreVersions
      <3>6. ASSUME NEW w \in watch' PROVE v.rv < w.rv
        <4>1. w \in Held /\ v \in Held /\ w # v /\ v.rv <= w.rv
          BY <3>1 DEF Held
        <4>2. v.rv # w.rv
          BY <4>1 DEF Copies, VersionsInOrder
        <4>. QED BY <3>3, <4>1, <4>2
      <3>. QED BY <3>1, <3>5, <3>6
    <2>. QED BY <2>1, <2>2 DEF Informer
  <1>3. /\ Known' \subseteq Known
        /\ UNCHANGED <<local, pc, res, remote, torn>>
    BY <1>1, <1>2 DEF Known, armVars, workerVars
  <1>4. CopiesAreVersions' /\ VersionsInOrder'
    BY <1>1, <1>2, <1>3 DEF Copies, CopiesAreVersions, VersionsInOrder, Same
  <1>5. GuardHolds' /\ TornMeansDeleting'
    BY <1>1, <1>3 DEF Copies, GuardHolds, TornMeansDeleting
  <1>6. PathsApart' /\ (OwnerGuarded => OwnerGuarded')
    BY <1>1, <1>2, <1>3 DEF PathsApart, OwnerGuarded, Absent
  <1>. QED BY <1>4, <1>5, <1>6 DEF CopyInv, Copies

\* Azure, or someone else, changes the resource but never makes one that is
\* the controller's.
LEMMA ResourceStep ==
    ASSUME CopyInv, TypeOK', Azure \/ Outside
    PROVE  CopyInv' /\ (OwnerGuarded => OwnerGuarded')
  <1>. USE CopyParts
  <1>1. UNCHANGED <<clusterVars, workerVars, torn>>
    BY DEF Azure, Outside, ArmFinish, ArmFail, ArmDrift
  <1>2. Owned => /\ remote'.owner \in {remote.owner, 0}
                 /\ remote'.st = "Absent" => remote'.owner = 0
    BY DEF Owned, Absent, Azure, Outside, ArmFinish, ArmFail, ArmDrift, NoResource, Foreign,
           TypeOK, ArmTypeOK, Resource
  <1>3. Held' = Held /\ Known' = Known /\ UNCHANGED <<api, cached, watch, local, pc, res>>
    BY <1>1 DEF Held, Known, clusterVars, workerVars
  <1>4. CopiesAreVersions' /\ VersionsInOrder' /\ GuardHolds' /\ TornMeansDeleting' /\ PathsApart'
    BY <1>1, <1>3 DEF Copies, CopiesAreVersions, VersionsInOrder, GuardHolds,
                      TornMeansDeleting, PathsApart, Same
  <1>5. local.inc \in Nat /\ \A v \in Held : v.inc \in Nat
    BY DEF Held, TypeOK, ClusterTypeOK, Version
  <1>6. OwnerGuarded => OwnerGuarded'
    BY <1>2, <1>3, <1>5 DEF OwnerGuarded, Absent
  <1>. QED BY <1>4, <1>6 DEF CopyInv, Copies

\* The manager restarts from the stored version.
LEMMA CrashStep ==
    ASSUME CopyInv, TypeOK', Crash
    PROVE  CopyInv' /\ (OwnerGuarded => OwnerGuarded')
  <1>. USE CopyParts
  <1>1. /\ UNCHANGED <<api, remote, torn>>
        /\ cached' = api /\ watch' = {} /\ local' = NoObject /\ pc' = "idle"
    BY DEF Crash, Idle
  <1>2. Held' = {api} /\ Known' \subseteq Known /\ Held' \subseteq Held
    BY <1>1 DEF Held, Known, CopiesAreVersions
  <1>3. CopiesAreVersions'
    BY <1>1, <1>2 DEF CopiesAreVersions, Same
  <1>4. VersionsInOrder'
    BY <1>1, <1>2 DEF Copies, VersionsInOrder, NoObject, TypeOK, ClusterTypeOK, Version
  <1>5. GuardHolds' /\ TornMeansDeleting'
    BY <1>1, <1>2 DEF Copies, GuardHolds, TornMeansDeleting
  <1>6. Owned => Owned'
    BY <1>1, <1>2 DEF Owned, Absent
  <1>. QED BY <1>1, <1>3, <1>4, <1>5, <1>6, IdleInv DEF Copies

\* Nothing has been cached, sent or made yet.
LEMMA IInvInit == Init => IInv
  <1>. SUFFICES ASSUME Init PROVE IInv
    OBVIOUS
  <1>1. TypeOK
    BY TypeInit
  <1>2. /\ api = NoObject /\ cached = NoObject /\ watch = {} /\ local = NoObject
        /\ pc = "idle" /\ torn = 0 /\ remote.owner = 0
    BY DEF Init, ClusterInit, ArmInit, NoResource, Foreign
  <1>3. Held = {NoObject} /\ Known = {NoObject}
    BY <1>2 DEF Held, Known
  <1>. QED BY <1>1, <1>2, <1>3 DEF IInv, CopiesAreVersions, VersionsInOrder, GuardHolds,
         TornMeansDeleting, PathsApart, OwnerGuarded, Same, NoObject, DeletePath, EnsurePath

\* Every step the reconcilers share keeps the invariant.
LEMMA CommonStep ==
    ASSUME CopyInv, Common
    PROVE  CopyInv' /\ (OwnerGuarded => OwnerGuarded')
  <1>1. TypeOK'
    BY CommonType DEF CopyInv
  <1>2. CASE FetchUnguarded
    BY <1>1, <1>2, TakeStep DEF FetchUnguarded
  <1>3. CASE FetchDeleting
    BY <1>1, <1>3, TakeStep DEF FetchDeleting
  <1>. QED BY <1>1, <1>2, <1>3, FetchNothingStep, AddFinalizerStep, DeleteStatusStep,
         RemoveFinalizerStep, EnsureStatusStep DEF Common

\* So does every step of the user, the informer, Azure and of a restart.
LEMMA EnvironmentStep ==
    ASSUME CopyInv, Environment
    PROVE  CopyInv' /\ (OwnerGuarded => OwnerGuarded')
  <1>1. TypeOK'
    BY EnvironmentType DEF CopyInv
  <1>. QED BY <1>1, UserStep, InformerStep, ResourceStep, CrashStep DEF Environment

\* And standing still.
LEMMA StutterStep ==
    ASSUME CopyInv, UNCHANGED vars
    PROVE  CopyInv' /\ (OwnerGuarded => OwnerGuarded')
  BY DEF vars, clusterVars, armVars, workerVars, CopyInv, Copies, TypeOK, ClusterTypeOK,
      ArmTypeOK, CopiesAreVersions, VersionsInOrder, GuardHolds, TornMeansDeleting,
      PathsApart, OwnerGuarded, Held, Known, Absent

-----------------------------------------------------------------------------
(* What the invariant says of the properties.                              *)

\* No resource outlives its object (async_controller.go:62-81).
LEMMA InvNoOrphan == IInv => NoOrphan
  BY DEF IInv, OwnerGuarded, NoOrphan

\* No PUT follows a DELETE sent for the same object (async_controller.go:68-87).
LEMMA InvNoPutAfterDelete == CopyInv => NoPutAfterDelete
  BY DEF CopyInv, Copies, PathsApart, TornMeansDeleting, GuardHolds, Known, NoPutAfterDelete, EnsurePath

\* A DELETE never hits the resource of another object (async_controller.go:70).
LEMMA InvDeletesOwn == IInv => DeletesOwn
  <1>. SUFFICES ASSUME IInv PROVE DeletesOwn
    OBVIOUS
  <1>1. /\ local.inc \in Nat /\ api.inc \in Nat /\ remote.owner \in Nat
    BY DEF IInv, TypeOK, ClusterTypeOK, ArmTypeOK, Version, Resource
  <1>2. local.inc <= api.inc
    BY DEF IInv, CopiesAreVersions, Known
  <1>. QED BY <1>1, <1>2 DEF IInv, OwnerGuarded, DeletesOwn

\* What the worker's writes keep of the stored object.
Kept == /\ api'.items = api.items
        /\ api'.inc = api.inc
        /\ api'.deleting = api.deleting

\* The shared steps undo nothing the user asked for (Update is refused when
\* the version is stale, helpers.go:67-88).
LEMMA CommonKeeps ==
    ASSUME CopyInv, Common
    PROVE  Kept
  <1>1. ASSUME NEW new \in Version, NEW ok, Write(new, ok),
               Fresh(local) => Same([new EXCEPT !.fin = api.fin], api)
        PROVE  Kept
    <2>1. CASE UNCHANGED <<api, watch>>
      BY <2>1 DEF Kept
    <2>2. CASE Fresh(local) /\ Store(new)
      <3>1. api'.inc = new.inc /\ api'.deleting = new.deleting /\ api'.items = new.items
        BY <2>2, StoreFields DEF CopyInv, Copies
      <3>. QED BY <1>1, <2>2, <3>1 DEF Same, Version, Kept
    <2>. QED BY <1>1, <2>1, <2>2 DEF Write
  <1>2. Fresh(local) => Same(local, api)
    BY FreshIsStored DEF CopyInv, Copies
  <1>3. local \in Version /\ api \in Version
    BY DEF CopyInv, Copies, TypeOK, ClusterTypeOK
  <1>4. CASE AddFinalizer \/ RemoveFinalizer
    <2>1. PICK f \in BOOLEAN, ok \in BOOLEAN : Update([local EXCEPT !.fin = f], ok)
      BY <1>4 DEF AddFinalizer, RemoveFinalizer
    <2>. DEFINE new == [[local EXCEPT !.fin = f] EXCEPT !.status = api.status]
    <2>2. new \in Version /\ (Fresh(local) => Same([new EXCEPT !.fin = api.fin], api))
      BY <1>2, <1>3 DEF Same, Version
    <2>. QED BY <1>1, <2>1, <2>2 DEF Update
  <1>5. CASE DeleteStatus \/ EnsureStatus
    <2>1. PICK ok \in BOOLEAN : StatusUpdate(ok)
      BY <1>5 DEF DeleteStatus, EnsureStatus
    <2>. DEFINE new == [api EXCEPT !.status = local.status]
    <2>2. new \in Version /\ Same([new EXCEPT !.fin = api.fin], api)
      BY <1>3 DEF Same, Version
    <2>. QED BY <1>1, <2>1, <2>2 DEF StatusUpdate
  <1>6. CASE FetchNothing \/ FetchUnguarded \/ FetchDeleting
    BY <1>6 DEF FetchNothing, FetchUnguarded, FetchDeleting, Take, Kept
  <1>. QED BY <1>4, <1>5, <1>6 DEF Common

\* The environment does not move the worker, except that a restart stops it.
LEMMA EnvironmentKeeps ==
    ASSUME Environment, pc' # pc
    PROVE  Kept
  BY DEF Environment, User, Informer, Azure, Outside, Crash, workerVars, Kept

-----------------------------------------------------------------------------
(* What the steps do to the stored object.                                 *)

\* The object is as far in its life as it was.
Unmoved ==
    /\ api'.live = api.live /\ api'.fin = api.fin
    /\ api'.deleting = api.deleting /\ api'.inc = api.inc

\* A status write changes nothing else of the object.
LEMMA StatusOnly ==
    ASSUME IInv, NEW ok, StatusUpdate(ok)
    PROVE  Same(api', api) /\ UNCHANGED <<remote, torn>>
  <1>. DEFINE new == [api EXCEPT !.status = local.status]
  <1>1. api \in Version /\ api \in Known
    BY DEF IInv, TypeOK, ClusterTypeOK, CopiesAreVersions, Known
  <1>2. /\ new \in Version /\ new.inc = api.inc /\ new.live = api.live
        /\ new.fin = api.fin /\ new.deleting = api.deleting /\ new.items = api.items
    BY <1>1, NewVersions DEF Version, IInv
  <1>3. CASE UNCHANGED api
    BY <1>3 DEF Same, StatusUpdate, Write
  <1>4. CASE Store(new)
    <2>1. api.live /\ api.deleting => api.fin
      BY <1>1 DEF IInv, GuardHolds
    <2>2. /\ api'.inc = new.inc /\ api'.fin = new.fin /\ api'.deleting = new.deleting
          /\ api'.items = new.items
          /\ api'.live = (new.live /\ ~(new.deleting /\ ~new.fin))
      BY <1>2, <1>4, StoreFields DEF IInv
    <2>. QED BY <1>1, <1>2, <2>1, <2>2 DEF Same, StatusUpdate, Write, Version
  <1>. QED BY <1>3, <1>4 DEF StatusUpdate, Write

\* The finalizer goes on an object that is not being deleted, if it is stored.
LEMMA FinalizerOn ==
    ASSUME IInv, AddFinalizer
    PROVE  /\ UNCHANGED <<remote, torn>>
           /\ \/ UNCHANGED api
              \/ /\ api.live /\ ~api.fin /\ ~api.deleting
                 /\ api'.live /\ api'.fin /\ ~api'.deleting /\ api'.inc = api.inc
  <1>. DEFINE new == [[local EXCEPT !.fin = TRUE] EXCEPT !.status = api.status]
  <1>1. PICK ok \in BOOLEAN : Write(new, ok)
    BY DEF AddFinalizer, Update
  <1>2. /\ new \in Version /\ new.inc = local.inc /\ new.live = local.live
        /\ new.fin /\ new.deleting = local.deleting
    BY NewVersions DEF TypeOK, Version, IInv
  <1>3. local.live /\ ~local.deleting /\ ~local.fin
    BY DEF AddFinalizer, IInv, PathsApart
  <1>4. CASE Fresh(local) /\ Store(new)
    <2>1. Same(local, api)
      BY <1>4, FreshIsStored DEF IInv
    <2>2. /\ api'.inc = new.inc /\ api'.fin = new.fin /\ api'.deleting = new.deleting
          /\ api'.live = (new.live /\ ~(new.deleting /\ ~new.fin))
      BY <1>2, <1>4, StoreFields DEF IInv
    <2>. QED BY <1>1, <1>2, <1>3, <2>1, <2>2 DEF Same, Write
  <1>. QED BY <1>1, <1>4 DEF Write

\* The finalizer comes off the object the worker holds, which is being deleted
\* and of which nothing is left in Azure; the object goes with it.
LEMMA FinalizerOff ==
    ASSUME IInv, RemoveFinalizer
    PROVE  /\ UNCHANGED <<remote, torn>>
           /\ \/ UNCHANGED api
              \/ /\ api.live /\ api.fin /\ api.deleting /\ api.inc = local.inc
                 /\ ~api'.live /\ api'.inc = api.inc
                 /\ remote.owner = 0
  <1>. DEFINE new == [[local EXCEPT !.fin = FALSE] EXCEPT !.status = api.status]
  <1>1. PICK ok \in BOOLEAN : Write(new, ok)
    BY DEF RemoveFinalizer, Update
  <1>2. /\ new \in Version /\ new.inc = local.inc /\ ~new.fin /\ new.deleting = local.deleting
    BY NewVersions DEF TypeOK, Version, IInv
  <1>3. local.fin /\ local.deleting /\ remote.owner = 0
    BY DEF RemoveFinalizer, IInv, PathsApart, OwnerGuarded, DeletePath
  <1>4. CASE Fresh(local) /\ Store(new)
    <2>1. Same(local, api) /\ api.live
      BY <1>4, FreshIsStored DEF IInv
    <2>2. /\ api'.inc = new.inc
          /\ api'.live = (new.live /\ ~(new.deleting /\ ~new.fin))
      BY <1>2, <1>4, StoreFields DEF IInv
    <2>. QED BY <1>1, <1>2, <1>3, <2>1, <2>2 DEF Same, Write
  <1>. QED BY <1>1, <1>4 DEF Write

\* What the user does to the object.
LEMMA UserOutcome ==
    ASSUME IInv, User
    PROVE  /\ UNCHANGED <<remote, torn>>
           /\ \/ ~api.live /\ api'.live /\ ~api'.fin /\ api'.inc = api.inc + 1
              \/ Unmoved
              \/ /\ api.live /\ api'.inc = api.inc /\ ~api.deleting /\ api'.deleting
                 /\ api'.fin = api.fin /\ api'.live = api.fin
  <1>. USE DEF IInv
  <1>0. /\ api \in Version /\ api.inc + 1 \in Nat /\ UNCHANGED <<remote, torn>>
        /\ api \in Known /\ NoObject \in Version
    BY DEF TypeOK, ClusterTypeOK, Version, User, armVars, CopiesAreVersions, Known,
           NoObject, ProvisioningState
  <1>1. CASE UserCreate
    <2>1. PICK i \in Contents :
            Store([NoObject EXCEPT !.inc = api.inc + 1, !.live = TRUE, !.items = i])
      BY <1>1 DEF UserCreate
    <2>. DEFINE new == [NoObject EXCEPT !.inc = api.inc + 1, !.live = TRUE, !.items = i]
    <2>2. new \in Version /\ new.inc = api.inc + 1 /\ new.live /\ ~new.fin /\ ~new.deleting
      BY <1>0 DEF NoObject, Version
    <2>. QED BY <1>0, <1>1, <2>1, <2>2, StoreFields DEF UserCreate
  <1>2. CASE UserEdit
    <2>1. PICK i \in Contents : Store([api EXCEPT !.items = i])
      BY <1>2 DEF UserEdit
    <2>. DEFINE new == [api EXCEPT !.items = i]
    <2>2. /\ new \in Version /\ new.inc = api.inc /\ new.live = api.live
          /\ new.fin = api.fin /\ new.deleting = api.deleting
      BY <1>0 DEF Version
    <2>3. api.live /\ (api.deleting => api.fin)
      BY <1>0, <1>2 DEF GuardHolds, UserEdit
    <2>4. /\ api'.inc = new.inc /\ api'.fin = new.fin /\ api'.deleting = new.deleting
          /\ api'.live = (new.live /\ ~(new.deleting /\ ~new.fin))
      BY <2>1, <2>2, StoreFields
    <2>5. api.live \in BOOLEAN /\ api.live = TRUE
      BY <1>0, <2>3 DEF Version
    <2>. QED BY <1>0, <2>2, <2>3, <2>4, <2>5 DEF Unmoved
  <1>3. CASE UserDelete
    <2>. DEFINE new == [api EXCEPT !.deleting = TRUE]
    <2>1. /\ new \in Version /\ new.inc = api.inc /\ new.live = api.live
          /\ new.fin = api.fin /\ new.deleting
      BY <1>0 DEF Version
    <2>2. Store(new) /\ api.live /\ ~api.deleting
      BY <1>3 DEF UserDelete
    <2>3. /\ api'.inc = new.inc /\ api'.fin = new.fin /\ api'.deleting
          /\ api'.live = (new.live /\ ~(new.deleting /\ ~new.fin))
      BY <2>1, <2>2, StoreFields
    <2>. QED BY <1>0, <2>1, <2>2, <2>3 DEF Version
  <1>. QED BY <1>1, <1>2, <1>3 DEF User

\* The watch, Azure and a restart leave the stored object alone.
LEMMA OthersLeaveObject ==
    ASSUME Informer \/ Azure \/ Outside \/ Crash
    PROVE  UNCHANGED <<api, torn>>
  BY DEF Informer, Deliver, Resync, Azure, Outside, ArmFinish, ArmFail, ArmDrift, Crash,
         clusterVars, armVars

\* Of the steps the reconcilers share, only RemoveFinalizer lets an object go.
LEMMA ReleasedOnlyThere ==
    ASSUME IInv, Common \/ Environment, api.live, api.fin, ~(api'.live /\ api'.fin)
    PROVE  pc = "removeFinalizer"
  <1>1. CASE FetchNothing \/ FetchUnguarded \/ FetchDeleting
    BY <1>1 DEF FetchNothing, FetchUnguarded, FetchDeleting, Take
  <1>2. CASE DeleteStatus \/ EnsureStatus
    BY <1>2, StatusOnly DEF DeleteStatus, EnsureStatus, Same
  <1>3. CASE AddFinalizer
    BY <1>3, FinalizerOn
  <1>4. CASE User
    BY <1>4, UserOutcome DEF Unmoved
  <1>. QED BY <1>1, <1>2, <1>3, <1>4, OthersLeaveObject DEF Common, Environment, RemoveFinalizer

-----------------------------------------------------------------------------
(* The lifecycle.                                                          *)

\* A step of the object's lifecycle, or none.
InLifecycle == [L!LifecycleNext]_(L!lifecycleVars)

\* The phase, as the state of the object gives it.
LEMMA PhaseIs ==
    ASSUME TypeOK
    PROVE  /\ Phase = "none" <=> ~api.live
           /\ Phase = "new" <=> api.live /\ ~api.fin
           /\ Phase = "held" <=> api.live /\ api.fin /\ ~api.deleting
           /\ Phase = "tearing" <=> api.live /\ api.fin /\ api.deleting /\ torn = api.inc
           /\ Phase = "dying" <=> api.live /\ api.fin /\ api.deleting /\ torn # api.inc
           /\ Phase \in L!Phases
  <1>. USE DEF L!Phases
  <1>1. api.live \in BOOLEAN /\ api.fin \in BOOLEAN /\ api.deleting \in BOOLEAN
    BY DEF TypeOK, ClusterTypeOK, Version
  <1>2. CASE ~api.live
    BY <1>1, <1>2 DEF Phase
  <1>3. CASE api.live /\ ~api.fin
    BY <1>1, <1>3 DEF Phase
  <1>4. CASE api.live /\ api.fin /\ ~api.deleting
    BY <1>1, <1>4 DEF Phase
  <1>5. CASE api.live /\ api.fin /\ api.deleting /\ torn = api.inc
    BY <1>1, <1>5 DEF Phase
  <1>6. CASE api.live /\ api.fin /\ api.deleting /\ torn # api.inc
    BY <1>1, <1>6 DEF Phase
  <1>. QED BY <1>1, <1>2, <1>3, <1>4, <1>5, <1>6

\* Before anything has happened there is no object.
LEMMA LifecycleInit == Init => L!LifecycleInit
  <1>. SUFFICES ASSUME Init PROVE L!LifecycleInit
    OBVIOUS
  <1>1. /\ ~api.live /\ api.inc = 0 /\ remote.owner = 0
    BY DEF Init, ClusterInit, ArmInit, NoObject, NoResource, Foreign
  <1>2. Phase = "none"
    BY <1>1, TypeInit, PhaseIs
  <1>. QED BY <1>1, <1>2 DEF L!LifecycleInit

\* What a resource of the controller's means in the lifecycle.
Promised == remote.owner # 0 => Phase \in {"held", "dying", "tearing"} /\ remote.owner = api.inc

\* The lifecycle is what rules orphans out: whatever implements it, these
\* reconcilers or others, leaves none (async_controller.go:62-81).
THEOREM LifecycleSuffices ==
    []TypeOK /\ ImplementsLifecycle => []NoOrphan
  <1>1. L!LifecycleInit => Promised
    BY DEF L!LifecycleInit, Promised
  <1>2. Promised /\ InLifecycle => Promised'
    BY DEF Promised, InLifecycle, L!LifecycleNext, L!lifecycleVars, L!Create, L!Hold, L!Drop,
           L!Make, L!Die, L!Tear, L!Vanish, L!Release
  <1>3. TypeOK /\ Promised => NoOrphan
    BY PhaseIs DEF Promised, NoOrphan
  <1>. QED BY <1>1, <1>2, <1>3, PTL DEF ImplementsLifecycle, L!LifecycleSpec, InLifecycle

\* What moves neither the object's deletion nor the resource's owner is no
\* step of the lifecycle; losing the resource is one.
LEMMA UnmovedInLifecycle ==
    ASSUME Unmoved, torn' = torn, remote'.owner \in {remote.owner, 0}
    PROVE  InLifecycle
  <1>1. Phase' = Phase
    BY DEF Unmoved, Phase
  <1>. QED BY <1>1 DEF Unmoved, InLifecycle, L!LifecycleNext, L!Vanish, L!lifecycleVars

\* A PUT takes effect on behalf of an object that holds the finalizer and that
\* no DELETE was sent for.
LEMMA PutInLifecycle ==
    ASSUME IInv, TypeOK', NEW answer, ArmPut(draft, local.inc, answer),
           pc = "ensurePut", UNCHANGED clusterVars
    PROVE  InLifecycle
  <1>1. UNCHANGED <<api, torn>>
    BY DEF clusterVars, ArmPut
  <1>2. local.fin /\ ~local.deleting /\ local.live
    BY DEF IInv, PathsApart, EnsurePath, GuardHolds, Known
  <1>3. api.live /\ api.fin /\ api.inc = local.inc /\ torn < local.inc
    BY <1>2 DEF IInv, GuardHolds, TornMeansDeleting, Known
  <1>4. torn # api.inc
    BY <1>3 DEF IInv, TypeOK, ClusterTypeOK, ArmTypeOK, Version
  <1>5. Phase \in {"held", "dying"} /\ Phase' = Phase
    BY <1>1, <1>3, <1>4, PhaseIs DEF IInv, Phase
  <1>6. remote' = remote \/ remote'.owner = local.inc
    BY DEF ArmPut, Accept
  <1>. QED BY <1>1, <1>3, <1>5, <1>6
           DEF InLifecycle, L!LifecycleNext, L!Make, L!lifecycleVars

\* A DELETE begins or goes on with the teardown of the object it is sent for,
\* or, sent on behalf of one that has gone, hits nothing of the one that
\* followed.
LEMMA DeleteInLifecycle ==
    ASSUME IInv, TornInOrder, TypeOK', NEW answer, ArmDelete(local.inc, answer),
           pc = "azDelete", UNCHANGED clusterVars
    PROVE  InLifecycle
  <1>1. UNCHANGED api /\ torn' = local.inc
    BY DEF clusterVars, ArmDelete
  <1>2. remote' \in {remote, NoResource, [remote EXCEPT !.st = "Deleting"]}
    BY DEF ArmDelete, Discard
  <1>3. remote'.owner \in {remote.owner, 0}
    BY <1>2 DEF NoResource, IInv, TypeOK, ArmTypeOK, Resource
  <1>4. /\ local.inc \in Nat /\ api.inc \in Nat /\ torn \in Nat /\ remote.owner \in Nat
    BY DEF IInv, TypeOK, ClusterTypeOK, ArmTypeOK, Version, Resource
  <1>5. /\ torn <= local.inc /\ local.inc <= api.inc /\ remote.owner <= local.inc
        /\ remote.owner # 0 => api.live /\ api.inc = remote.owner
    BY DEF TornInOrder, IInv, CopiesAreVersions, OwnerGuarded, Known
  <1>6. CASE api.live /\ api.inc = local.inc
    <2>1. api.deleting /\ api.fin
      <3>1. api \in Held /\ api \in Known
        BY DEF IInv, CopiesAreVersions, Known
      <3>. QED BY <1>6, <3>1 DEF IInv, PathsApart, DeletePath, GuardHolds
    <2>2. Phase \in {"dying", "tearing"}
      BY <1>6, <2>1, PhaseIs DEF IInv
    <2>3. Phase' = "tearing"
      BY <1>1, <1>6, <2>1 DEF Phase
    <2>. QED BY <1>1, <1>3, <2>2, <2>3 DEF InLifecycle, L!LifecycleNext, L!Tear
  <1>7. CASE ~(api.live /\ api.inc = local.inc)
    <2>1. remote.owner = 0 /\ remote'.owner = 0
      BY <1>3, <1>4, <1>5, <1>7
    <2>2. Phase' = Phase
      <3>1. CASE ~api.live
        BY <1>1, <3>1 DEF Phase
      <3>2. CASE api.inc # local.inc
        <4>1. torn # api.inc /\ torn' # api'.inc
          BY <1>1, <1>4, <1>5, <3>2
        <4>. QED BY <1>1, <4>1 DEF Phase
      <3>. QED BY <1>7, <3>1, <3>2
    <2>. QED BY <1>1, <2>1, <2>2 DEF InLifecycle, L!lifecycleVars
  <1>. QED BY <1>6, <1>7

\* The steps the reconcilers share.
LEMMA CommonInLifecycle ==
    ASSUME IInv, TornInOrder, TypeOK', Common
    PROVE  InLifecycle
  <1>. USE DEF IInv
  <1>1. CASE FetchNothing \/ FetchUnguarded \/ FetchDeleting
    <2>1. UNCHANGED <<api, remote, torn>>
      BY <1>1 DEF FetchNothing, FetchUnguarded, FetchDeleting, Take, armVars
    <2>. QED BY <2>1, UnmovedInLifecycle DEF Unmoved
  <1>2. CASE DeleteStatus \/ EnsureStatus
    <2>1. Same(api', api) /\ UNCHANGED <<remote, torn>>
      BY <1>2, StatusOnly DEF DeleteStatus, EnsureStatus
    <2>. QED BY <2>1, UnmovedInLifecycle DEF Same, Unmoved
  <1>3. CASE AddFinalizer
    <2>1. CASE UNCHANGED api
      BY <1>3, <2>1, FinalizerOn, UnmovedInLifecycle DEF Unmoved
    <2>2. CASE /\ api.live /\ ~api.fin /\ ~api.deleting
               /\ api'.live /\ api'.fin /\ ~api'.deleting /\ api'.inc = api.inc
      <3>1. Phase = "new" /\ Phase' = "held"
        BY <2>2 DEF Phase
      <3>. QED BY <1>3, <2>2, <3>1, FinalizerOn DEF InLifecycle, L!LifecycleNext, L!Hold
    <2>. QED BY <1>3, <2>1, <2>2, FinalizerOn
  <1>4. CASE RemoveFinalizer
    <2>1. CASE UNCHANGED api
      BY <1>4, <2>1, FinalizerOff, UnmovedInLifecycle DEF Unmoved
    <2>2. CASE /\ api.live /\ api.fin /\ api.deleting /\ api.inc = local.inc
               /\ ~api'.live /\ api'.inc = api.inc
               /\ remote.owner = 0
      <3>1. torn = api.inc
        BY <1>4, <2>2 DEF TornInOrder, RemoveFinalizer
      <3>2. Phase = "tearing" /\ Phase' = "none"
        BY <2>2, <3>1 DEF Phase
      <3>. QED BY <1>4, <2>2, <3>2, FinalizerOff DEF InLifecycle, L!LifecycleNext, L!Release
    <2>. QED BY <1>4, <2>1, <2>2, FinalizerOff
  <1>. QED BY <1>1, <1>2, <1>3, <1>4 DEF Common

\* The user, the watch, Azure and a restart.
LEMMA EnvironmentInLifecycle ==
    ASSUME IInv, TypeOK', Environment
    PROVE  InLifecycle
  <1>. USE DEF IInv
  <1>1. CASE User
    <2>1. CASE Unmoved
      BY <1>1, <2>1, UserOutcome, UnmovedInLifecycle
    <2>2. CASE ~api.live /\ api'.live /\ ~api'.fin /\ api'.inc = api.inc + 1
      <3>1. Phase = "none" /\ Phase' = "new"
        BY <2>2 DEF Phase
      <3>. QED BY <1>1, <2>2, <3>1, UserOutcome DEF InLifecycle, L!LifecycleNext, L!Create
    <2>3. CASE /\ api.live /\ api'.inc = api.inc /\ ~api.deleting /\ api'.deleting
               /\ api'.fin = api.fin /\ api'.live = api.fin
      <3>1. CASE ~api.fin
        <4>1. Phase = "new" /\ Phase' = "none"
          BY <2>3, <3>1 DEF Phase
        <4>. QED BY <1>1, <2>3, <4>1, UserOutcome DEF InLifecycle, L!LifecycleNext, L!Drop
      <3>2. CASE api.fin
        <4>1. torn < api.inc /\ torn \in Nat /\ api.inc \in Nat
          BY <2>3 DEF TornMeansDeleting, CopiesAreVersions, Known, TypeOK, ClusterTypeOK,
                      ArmTypeOK, Version
        <4>2. torn' # api'.inc
          BY <1>1, <2>3, <4>1, UserOutcome
        <4>3. Phase = "held" /\ Phase' = "dying"
          BY <2>3, <3>2, <4>2 DEF Phase
        <4>. QED BY <1>1, <2>3, <4>3, UserOutcome DEF InLifecycle, L!LifecycleNext, L!Die
      <3>. QED BY <3>1, <3>2
    <2>. QED BY <1>1, <2>1, <2>2, <2>3, UserOutcome
  <1>2. CASE Informer \/ Azure \/ Outside \/ Crash
    <2>1. UNCHANGED <<api, torn>>
      BY <1>2, OthersLeaveObject
    <2>2. Absent => remote.owner = 0
      BY DEF OwnerGuarded
    <2>3. remote'.owner \in {remote.owner, 0}
      BY <1>2, <2>2 DEF Informer, Azure, Outside, Crash, ArmFinish, ArmFail, ArmDrift, armVars,
                        NoResource, Foreign, TypeOK, ArmTypeOK, Resource
    <2>. QED BY <2>1, <2>3, UnmovedInLifecycle DEF Unmoved
  <1>. QED BY <1>1, <1>2 DEF Environment

-----------------------------------------------------------------------------
(* Teardowns go forward.                                                   *)

LEMMA TornInit == Init => TornInOrder
  <1>. SUFFICES ASSUME Init PROVE TornInOrder
    OBVIOUS
  <1>1. torn = 0 /\ pc = "idle" /\ Held = {NoObject}
    BY DEF Init, ClusterInit, ArmInit, Held
  <1>. QED BY <1>1 DEF TornInOrder, NoObject

\* A step that sends no DELETE leaves its claims alone, if the worker goes on
\* with the object it holds.
LEMMA TornStays ==
    ASSUME IInv, TornInOrder, TypeOK', torn' = torn,
           \A v \in Held' : v \in Held \/ (v = api' /\ api.inc <= api'.inc),
           pc' = "idle" \/ (pc # "idle" /\ local'.inc = local.inc) \/ local' \in Held,
           pc' \in {"deleteGet", "removeFinalizer"} \/ (pc' = "deleteStatus" /\ res' = "gone") =>
               torn = local'.inc
    PROVE  TornInOrder'
  <1>1. api \in Held /\ torn <= api.inc /\ \A v \in Held : torn <= v.inc
    BY DEF IInv, CopiesAreVersions, TornInOrder
  <1>2. torn \in Nat /\ api.inc \in Nat /\ api'.inc \in Nat
    BY DEF IInv, TypeOK, ClusterTypeOK, ArmTypeOK, Version
  <1>3. \A v \in Held' : torn <= v.inc
    BY <1>1, <1>2
  <1>4. pc' # "idle" => torn <= local'.inc
    BY <1>1 DEF TornInOrder
  <1>. QED BY <1>3, <1>4 DEF TornInOrder

\* A write adds one version at most.
LEMMA WriteAdds ==
    ASSUME NEW new, NEW ok, Write(new, ok)
    PROVE  torn' = torn /\ \A v \in Held' : v \in Held \/ v = api'
  BY DEF Write, Store, Held

\* Sending a DELETE: no copy is older than the one it is sent for.
LEMMA TornByDelete ==
    ASSUME IInv, TypeOK', NEW answer, ArmDelete(local.inc, answer),
           UNCHANGED <<clusterVars, local>>
    PROVE  TornInOrder'
  <1>1. torn' = local.inc /\ Held' = Held
    BY DEF ArmDelete, clusterVars, Held
  <1>2. local.inc \in Nat /\ \A v \in Held : local.inc <= v.inc
    BY DEF IInv, VersionsInOrder, TypeOK, Version
  <1>. QED BY <1>1, <1>2 DEF TornInOrder

\* The steps the reconcilers share.
LEMMA TornCommon ==
    ASSUME IInv, TornInOrder, TypeOK', Common
    PROVE  TornInOrder'
  <1>0. api.inc \in Nat
    BY DEF IInv, TypeOK, ClusterTypeOK, Version
  <1>1. CASE FetchUnguarded \/ FetchDeleting
    <2>1. /\ UNCHANGED <<api, cached, watch, torn>> /\ local' = cached
          /\ pc' \in {"addFinalizer", "azDelete"}
      BY <1>1 DEF FetchUnguarded, FetchDeleting, Take, armVars
    <2>. QED BY <2>1, TornStays DEF Held
  <1>2. CASE FetchNothing
    <2>1. UNCHANGED <<api, cached, watch, torn>> /\ pc' = "idle"
      BY <1>2 DEF FetchNothing, armVars, workerVars
    <2>. QED BY <2>1, TornStays DEF Held
  <1>3. CASE AddFinalizer \/ RemoveFinalizer
    <2>1. /\ pc' = "idle" /\ torn' = torn
          /\ \A v \in Held' : v \in Held \/ v = api'
      BY <1>3, WriteAdds DEF AddFinalizer, RemoveFinalizer, Update, Return, Idle
    <2>2. api'.inc = api.inc
      BY <1>3, FinalizerOn, FinalizerOff
    <2>. QED BY <1>0, <2>1, <2>2, TornStays
  <1>4. CASE EnsureStatus \/ DeleteStatus
    <2>1. PICK ok \in BOOLEAN :
              /\ StatusUpdate(ok)
              /\ \/ pc' = "idle"
                 \/ ok /\ pc = "deleteStatus" /\ res = "gone" /\ local' = api'
      BY <1>4 DEF EnsureStatus, DeleteStatus, Return, Idle
    <2>2. torn' = torn /\ \A v \in Held' : v \in Held \/ v = api'
      BY <2>1, WriteAdds DEF StatusUpdate
    <2>3. api'.inc = api.inc
      BY <2>1, StatusOnly DEF Same
    <2>4. pc' # "idle" => /\ pc # "idle" /\ local'.inc = local.inc
                          /\ torn = local'.inc
      BY <2>1, <2>3 DEF StatusUpdate, Write, Fresh, TornInOrder
    <2>. QED BY <1>0, <2>2, <2>3, <2>4, TornStays
  <1>. QED BY <1>1, <1>2, <1>3, <1>4 DEF Common

\* The user, the watch, Azure and a restart.
LEMMA TornEnvironment ==
    ASSUME IInv, TornInOrder, TypeOK', Environment
    PROVE  TornInOrder'
  <1>0. api.inc \in Nat /\ api \in Held
    BY DEF IInv, TypeOK, ClusterTypeOK, Version, CopiesAreVersions
  <1>1. CASE User
    <2>1. UNCHANGED <<cached, torn, pc, res, local>> /\ watch' = watch \cup {api'}
      BY <1>1 DEF User, UserCreate, UserEdit, UserDelete, Store, armVars, workerVars
    <2>2. api.inc <= api'.inc
      BY <1>0, <1>1, UserOutcome DEF Unmoved
    <2>. QED BY <2>1, <2>2, TornStays DEF Held, TornInOrder
  <1>2. CASE Informer \/ Azure \/ Outside
    <2>1. /\ UNCHANGED <<api, torn, pc, res, local>>
          /\ Held' \subseteq Held
      BY <1>2, OthersLeaveObject
         DEF Informer, Deliver, Resync, Azure, Outside, Held, workerVars, clusterVars
    <2>. QED BY <2>1, TornStays DEF TornInOrder
  <1>3. CASE Crash
    <2>1. pc' = "idle" /\ UNCHANGED <<api, torn>> /\ Held' = {api}
      BY <1>3 DEF Crash, Idle, Held
    <2>. QED BY <1>0, <2>1, TornStays
  <1>. QED BY <1>1, <1>2, <1>3 DEF Environment

\* A step of the worker that only talks to Azure, with no DELETE.
LEMMA TornCall ==
    ASSUME IInv, TornInOrder, TypeOK', UNCHANGED <<clusterVars, torn>>,
           pc # "idle", local'.inc = local.inc,
           \/ pc' \in EnsurePath
           \/ pc = "deleteGet" /\ pc' = "deleteStatus"
    PROVE  TornInOrder'
  <1>1. UNCHANGED api /\ Held' = Held
    BY DEF clusterVars, Held
  <1>2. pc = "deleteGet" => torn = local.inc
    BY DEF TornInOrder
  <1>. QED BY <1>1, <1>2, TornStays DEF EnsurePath
-----------------------------------------------------------------------------
(* The controller rests only when it is done.                              *)

\* With no event on its way the cache holds the stored version.
LEMMA CacheIsCurrent ==
    ASSUME CopyInv, watch = {}
    PROVE  cached = api
  BY DEF CopyInv, Copies, CopiesAreVersions, Held

\* A write of something else than what is stored is followed by an event.
LEMMA WriteWakes ==
    ASSUME NEW new, NEW ok, ok = TRUE, Write(new, ok), watch' = {}
    PROVE  new = api /\ UNCHANGED api /\ Fresh(local)
  BY DEF Write, Store

\* The worker comes to rest over an object that has gone, or by an Ensure that
\* is done and has written nothing new (async_controller.go:55-99).
LEMMA RestReached ==
    ASSUME CopyInv, Common, AtRest'
    PROVE  \/ ~api'.live
           \/ /\ pc = "ensureStatus" /\ res = "done" /\ UNCHANGED <<api, remote>>
              /\ Same(local, api) /\ local.status = api.status
              /\ local.fin /\ ~local.deleting
  <1>. DEFINE Goal == \/ ~api'.live
                      \/ /\ pc = "ensureStatus" /\ res = "done" /\ UNCHANGED <<api, remote>>
                         /\ Same(local, api) /\ local.status = api.status
                         /\ local.fin /\ ~local.deleting
  <1>1. ~queued' /\ pc' = "idle" /\ watch' = {}
    BY DEF AtRest
  <1>2. /\ api \in Version /\ local \in Version /\ queued \in BOOLEAN
        /\ Fresh(local) => Same(local, api)
    BY DEF CopyInv, Copies, TypeOK, ClusterTypeOK, CopiesAreVersions, Known, Fresh
  <1>3. CASE FetchNothing
    <2>1. cached = api /\ UNCHANGED api /\ ~(cached.live /\ (cached.fin \/ ~cached.deleting))
      BY <1>1, <1>3, CacheIsCurrent DEF FetchNothing
    <2>2. api.live /\ api.deleting => api.fin
      BY <2>1 DEF CopyInv, Copies, GuardHolds, Known, Held
    <2>. QED BY <2>1, <2>2
  <1>4. CASE FetchUnguarded \/ FetchDeleting
    BY <1>1, <1>4 DEF FetchUnguarded, FetchDeleting, Take
  <1>5. CASE AddFinalizer
    <2>1. PICK ok \in BOOLEAN : Update([local EXCEPT !.fin = TRUE], ok) /\ Return(~ok)
      BY <1>5 DEF AddFinalizer
    <2>2. ok = TRUE
      BY <1>1, <2>1 DEF Return
    <2>. DEFINE new == [[local EXCEPT !.fin = TRUE] EXCEPT !.status = api.status]
    <2>3. new = api /\ Fresh(local)
      BY <1>1, <2>1, <2>2, WriteWakes DEF Update
    <2>4. new.fin = TRUE
      BY <1>2 DEF Version
    <2>5. ~api.fin
      BY <1>2, <1>5, <2>3 DEF CopyInv, Copies, PathsApart, AddFinalizer, Same
    <2>. QED BY <2>3, <2>4, <2>5
  <1>6. CASE DeleteStatus
    BY <1>1, <1>6 DEF DeleteStatus, Return
  <1>7. CASE RemoveFinalizer
    <2>1. PICK ok \in BOOLEAN : Update([local EXCEPT !.fin = FALSE], ok) /\ Return(~ok)
      BY <1>7 DEF RemoveFinalizer
    <2>2. ok = TRUE
      BY <1>1, <2>1 DEF Return
    <2>. DEFINE new == [[local EXCEPT !.fin = FALSE] EXCEPT !.status = api.status]
    <2>3. new = api /\ Fresh(local)
      BY <1>1, <2>1, <2>2, WriteWakes DEF Update
    <2>4. new.fin = FALSE
      BY <1>2 DEF Version
    <2>5. api.fin
      BY <1>2, <1>7, <2>3 DEF CopyInv, Copies, PathsApart, RemoveFinalizer, DeletePath, Same
    <2>. QED BY <2>3, <2>4, <2>5
  <1>8. CASE EnsureStatus
    <2>1. PICK ok \in BOOLEAN : StatusUpdate(ok) /\ Return(~ok \/ res # "done")
      BY <1>8 DEF EnsureStatus
    <2>2. ok = TRUE /\ res = "done"
      BY <1>1, <2>1 DEF Return
    <2>. DEFINE new == [api EXCEPT !.status = local.status]
    <2>3. new = api /\ UNCHANGED api /\ Fresh(local)
      BY <1>1, <2>1, <2>2, WriteWakes DEF StatusUpdate
    <2>4. new.status = local.status
      BY <1>2 DEF Version
    <2>5. local.fin /\ ~local.deleting /\ pc = "ensureStatus"
      BY <1>8 DEF CopyInv, Copies, PathsApart, EnsurePath, EnsureStatus
    <2>6. UNCHANGED remote
      BY <2>1 DEF StatusUpdate, Write
    <2>. QED BY <1>2, <2>2, <2>3, <2>4, <2>5, <2>6
  <1>. QED BY <1>3, <1>4, <1>5, <1>6, <1>7, <1>8 DEF Common

\* A user's step is followed by an event, the informer's and a restart by a
\* reconcile: only Azure and those who change it leave the controller at rest.
LEMMA RestUndisturbed ==
    ASSUME Environment, AtRest'
    PROVE  ~api'.live \/ (AtRest /\ UNCHANGED api /\ (Azure \/ Outside))
  <1>1. ~User
    BY Zenon DEF User, UserCreate, UserEdit, UserDelete, Store, AtRest
  <1>2. ~Informer
    BY DEF Informer, Deliver, Resync, AtRest
  <1>3. Crash => ~api'.live
    BY DEF Crash, AtRest
  <1>4. Azure \/ Outside => AtRest /\ UNCHANGED api
    BY DEF Azure, Outside, clusterVars, workerVars, AtRest
  <1>. QED BY <1>1, <1>2, <1>3, <1>4 DEF Environment

\* Nothing to forget at first.
LEMMA RestInit == Init => ~api.live /\ pc = "idle"
  BY DEF Init, ClusterInit, NoObject, Idle

\* The shared steps, and the environment's, forget nothing
\* (async_controller.go:62-99).
LEMMA CommonForgetsNothing ==
    ASSUME CopyInv, Common
    PROVE  NothingForgotten'
  <1>. SUFFICES ASSUME AtRest', api'.live
                PROVE  api'.fin /\ ~api'.deleting
    BY DEF NothingForgotten
  <1>. QED BY RestReached DEF Same

LEMMA EnvironmentForgetsNothing ==
    ASSUME NothingForgotten, Environment
    PROVE  NothingForgotten'
  BY RestUndisturbed DEF NothingForgotten

\* What the worker found when Ensure returned done: that the resource has what
\* the spec asks for if the client compares or sends it, that it says so if the
\* client reads it back.
DoneIsDone(compares, reads) ==
    pc = "ensureStatus" /\ res = "done" =>
        /\ remote.st = "Succeeded"
        /\ compares => remote.has = local.items
        /\ reads => local.status = "Succeeded"

\* The like of Converged, wherever the controller rests.
Rested(compares, reads) ==
    Alone /\ AtRest /\ api.live /\ ~api.deleting =>
        /\ remote.st = "Succeeded"
        /\ compares => remote.has = api.items
        /\ reads => api.status = "Succeeded"

\* For a client that compares and reads that is all of Converged.
LEMMA RestedIsDone ==
    ASSUME NEW compares, NEW reads, compares, reads, Rested(compares, reads)
    PROVE  RestsWhenDone
  BY DEF Rested, RestsWhenDone, Converged

\* The worker comes to rest where Ensure has returned done ...
LEMMA CommonRested ==
    ASSUME NEW compares, NEW reads, CopyInv, DoneIsDone(compares, reads), Common
    PROVE  Rested(compares, reads)'
  <1>. SUFFICES ASSUME AtRest', api'.live
                PROVE  /\ remote'.st = "Succeeded"
                       /\ compares => remote'.has = api'.items
                       /\ reads => api'.status = "Succeeded"
    BY DEF Rested
  <1>. QED BY RestReached DEF DoneIsDone, Same

\* ... and what Azure does by itself changes nothing in that.
LEMMA EnvironmentRested ==
    ASSUME NEW compares, NEW reads, TypeOK, Rested(compares, reads), Environment
    PROVE  Rested(compares, reads)'
  <1>. SUFFICES ASSUME Alone, AtRest', api'.live, ~api'.deleting
                PROVE  /\ remote'.st = "Succeeded"
                       /\ compares => remote'.has = api'.items
                       /\ reads => api'.status = "Succeeded"
    BY DEF Rested, Alone
  <1>1. AtRest /\ UNCHANGED api /\ (Azure \/ Outside)
    BY RestUndisturbed
  <1>2. remote.st = "Succeeded" => UNCHANGED remote
    BY <1>1 DEF Azure, Outside, ArmFinish, ArmFail, ArmDrift, Alone, Fault, Absent
  <1>. QED BY <1>1, <1>2 DEF Rested
=============================================================================
