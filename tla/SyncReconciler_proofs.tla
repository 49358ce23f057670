------------------------ MODULE SyncReconciler_proofs ------------------------
(***************************************************************************)
(* Proofs about SyncReconciler, for every set of contents and every value  *)
(* of the bounds: of every client, or, where the resource's owner is at    *)
(* stake, of every client that does not forgive a failed DELETE.           *)
(***************************************************************************)
EXTENDS SyncReconciler, Controller_proofs

\* Delete returns no error only when the resource has gone, which is so of
\* every client but the one of SQL firewall rules.
Careful == Client.tolerated \subseteq {"ok", "notFound"}

\* Status.ID is set or not, and nothing else of the copy changes.
LEMMA ObserveType ==
    ASSUME TypeOK, NEW answer, ArmGet(answer),
           Observe(answer) \/ UNCHANGED <<local, seen>>
    PROVE  /\ local' \in Version
           /\ seen' \in ProvisioningState \cup {"Unknown"}
           /\ ArmTypeOK'
           /\ Same(local', local) /\ local'.rv = local.rv
  <1>1. /\ local \in Version /\ seen \in ProvisioningState \cup {"Unknown"}
        /\ remote \in Resource /\ faults \in Nat /\ torn \in Nat
    BY DEF TypeOK, ArmTypeOK
  <1>2. local' \in Version /\ Same(local', local) /\ local'.rv = local.rv
    BY <1>1 DEF Observe, Version, Same, ProvisioningState
  <1>3. seen' \in ProvisioningState \cup {"Unknown"}
    BY <1>1 DEF Observe, ProvisioningState
  <1>4. ArmTypeOK'
    BY <1>1 DEF ArmGet, Fault, ArmTypeOK
  <1>. QED BY <1>2, <1>3, <1>4

\* Every step keeps the types.
LEMMA TypeStep ==
    ASSUME TypeOK, [Next]_vars
    PROVE  TypeOK'
  <1>. USE DEF ClusterTypeOK
  <1>1. CASE FetchGuarded
    BY <1>1, TakeType DEF FetchGuarded, EnsurePath
  <1>2. CASE AzDelete
    <2>1. ArmTypeOK'
      BY <1>2, CallType DEF AzDelete, armVars, TypeOK, ArmTypeOK
    <2>. QED BY <1>2, <2>1 DEF AzDelete, Calling, clusterVars, TypeOK, Results, DeletePath
  <1>3. CASE EnsureGet
    <2>1. /\ local' \in Version /\ ArmTypeOK'
          /\ seen' \in ProvisioningState \cup {"Unknown"}
      BY <1>3, ObserveType DEF EnsureGet
    <2>. QED BY <1>3, <2>1 DEF EnsureGet, Calling, clusterVars, TypeOK, Results, EnsurePath
  <1>4. CASE EnsurePut
    <2>1. ArmTypeOK'
      BY <1>4, CallType DEF EnsurePut
    <2>. QED BY <1>4, <2>1 DEF EnsurePut, Calling, clusterVars, TypeOK, Results, EnsurePath
  <1>5. CASE EnsureRead
    <2>1. /\ local' \in Version /\ ArmTypeOK'
          /\ seen' \in ProvisioningState \cup {"Unknown"}
      BY <1>5, ObserveType DEF EnsureRead
    <2>. QED BY <1>5, <2>1 DEF EnsureRead, Calling, clusterVars, TypeOK, Results, EnsurePath
  <1>. QED BY <1>1, <1>2, <1>3, <1>4, <1>5, CommonType, EnvironmentType, StutterType
         DEF Next, Worker

\* The variables keep their types.
THEOREM TypeCorrect == Spec => []TypeOK
  BY TypeInit, TypeStep, PTL DEF Spec

-----------------------------------------------------------------------------
(* The inductive invariant.                                                *)

\* A DELETE that is not an error has removed the resource.
LEMMA DeletedMeansGone ==
    ASSUME TypeOK, Owned, Careful, NEW answer \in Client.tolerated,
           ArmDelete(local.inc, answer), AtOnce
    PROVE  remote'.owner = 0
  <1>1. answer \in {"ok", "notFound"}
    BY DEF Careful
  <1>2. Absent => remote.owner = 0
    BY DEF Owned
  <1>3. [remote EXCEPT !.st = "Deleting"].st = "Deleting"
    BY DEF TypeOK, ArmTypeOK, Resource
  <1>4. \/ Absent /\ remote' = remote
        \/ remote' \in {NoResource, [remote EXCEPT !.st = "Deleting"]}
    BY <1>1 DEF ArmDelete, Discard
  <1>5. remote' # [remote EXCEPT !.st = "Deleting"]
    BY <1>3 DEF AtOnce
  <1>. QED BY <1>2, <1>4, <1>5 DEF NoResource

\* Every step keeps the invariant: the part about the copies for any client,
\* the part about the resource for a careful one.
LEMMA InvStep ==
    ASSUME CopyInv, [Next]_vars
    PROVE  CopyInv' /\ (Careful /\ OwnerGuarded => OwnerGuarded')
  <1>1. TypeOK /\ TypeOK' /\ (OwnerGuarded => Owned)
    BY TypeStep, CopyParts
  <1>2. CASE FetchGuarded
    BY <1>1, <1>2, TakeStep DEF FetchGuarded, EnsurePath
  <1>3. CASE AzDelete
    <2>1. pc = "azDelete" /\ pc' = "deleteStatus" /\ UNCHANGED <<clusterVars, local>>
      BY <1>3 DEF AzDelete, Calling
    <2>2. PICK answer : /\ ArmDelete(local.inc, answer) /\ AtOnce
                        /\ res' = IF answer \in Client.tolerated THEN "gone" ELSE "err"
      BY <1>3 DEF AzDelete
    <2>3. Careful /\ OwnerGuarded /\ res' = "gone" => remote'.owner = 0
      BY <1>1, <2>2, DeletedMeansGone
    <2>. QED BY <1>1, <2>1, <2>2, <2>3, DeleteCallStep
  <1>4. CASE EnsureGet \/ EnsureRead
    <2>1. PICK answer : /\ ArmGet(answer)
                        /\ Observe(answer) \/ UNCHANGED <<local, seen>>
      BY <1>4 DEF EnsureGet, EnsureRead
    <2>2. /\ pc \in EnsurePath /\ pc' \in {"ensurePut", "ensureStatus"}
          /\ UNCHANGED clusterVars
      BY <1>4 DEF EnsureGet, EnsureRead, EnsurePath, Calling
    <2>3. Same(local', local) /\ local'.rv = local.rv
      BY <1>1, <2>1, ObserveType
    <2>. QED BY <1>1, <2>1, <2>2, <2>3, EnsureLookStep
  <1>5. CASE EnsurePut
    <2>1. PICK answer : ArmPut(draft, local.inc, answer)
      BY <1>5 DEF EnsurePut
    <2>2. /\ pc = "ensurePut" /\ pc' \in {"ensureRead", "ensureStatus"}
          /\ UNCHANGED <<clusterVars, local>>
      BY <1>5 DEF EnsurePut, Calling
    <2>. QED BY <1>1, <2>1, <2>2, EnsurePutStep
  <1>. QED BY <1>2, <1>3, <1>4, <1>5, CommonStep, EnvironmentStep, StutterStep
         DEF Next, Worker

\* What every copy of the object says about it, for every client.
LEMMA CopiesAlways == Spec => []CopyInv
  <1>1. Init => CopyInv
    BY IInvInit, IInvParts
  <1>2. CopyInv /\ [Next]_vars => CopyInv'
    BY InvStep
  <1>. QED BY <1>1, <1>2, PTL DEF Spec

\* ... and whose the resource is (sync_controller.go:50-94).
THEOREM Invariance ==
    ASSUME Careful
    PROVE  Spec => []IInv
  <1>1. IInv /\ [Next]_vars => IInv'
    BY InvStep, IInvParts DEF IInv, CopyInv, Copies
  <1>. QED BY <1>1, IInvInit, PTL DEF Spec

\* No resource outlives its object, though the finalizer goes without another
\* look at Azure (sync_controller.go:64-79).
THEOREM NoOrphans ==
    ASSUME Careful
    PROVE  Spec => []NoOrphan
  BY Invariance, InvNoOrphan, PTL

\* No PUT follows a DELETE sent for the same object, even of a client that
\* forgives a failed DELETE (sync_controller.go:64-88).
THEOREM NoRecreation == Spec => []NoPutAfterDelete
  BY CopiesAlways, InvNoPutAfterDelete, PTL

\* A DELETE never hits the resource of another object
\* (sync_controller.go:50 and 72).
THEOREM DeletesOnlyOwn ==
    ASSUME Careful
    PROVE  Spec => []DeletesOwn
  BY Invariance, InvDeletesOwn, PTL

\* The worker's writes undo nothing the user asked for, whatever the client
\* (sync_controller.go:68, 72, 79 and 88).
THEOREM UserIntent == Spec => UserIntentKept
  <1>1. ASSUME CopyInv, Next, pc' # pc
        PROVE  Kept
    <2>1. CASE FetchGuarded \/ AzDelete \/ EnsureGet \/ EnsurePut \/ EnsureRead
      BY <2>1 DEF FetchGuarded, Take, AzDelete, EnsureGet, EnsurePut, EnsureRead,
                  Calling, clusterVars, Kept
    <2>. QED BY <1>1, <2>1, CommonKeeps, EnvironmentKeeps DEF Next, Worker
  <1>2. CopyInv /\ [Next]_vars => [pc' # pc => Kept]_vars
    BY <1>1
  <1>. QED BY CopiesAlways, <1>2, PTL DEF Spec, UserIntentKept, Kept

-----------------------------------------------------------------------------
(* When the controller rests.                                              *)

\* A call to Azure is no rest.
LEMMA CallsAreNoRest ==
    ASSUME FetchGuarded \/ AzDelete \/ EnsureGet \/ EnsurePut \/ EnsureRead
    PROVE  ~AtRest'
  BY DEF FetchGuarded, Take, AzDelete, EnsureGet, EnsurePut, EnsureRead, AtRest

\* No wake-up is lost, whatever the client (sync_controller.go:62-94).
THEOREM ForgetsNothing == Spec => []NothingForgotten
  <1>1. Init => NothingForgotten
    BY RestInit DEF NothingForgotten
  <1>2. CopyInv /\ NothingForgotten /\ [Next]_vars => NothingForgotten'
    <2>. SUFFICES ASSUME CopyInv, NothingForgotten, [Next]_vars
                  PROVE  NothingForgotten'
      OBVIOUS
    <2>1. CASE FetchGuarded \/ AzDelete \/ EnsureGet \/ EnsurePut \/ EnsureRead
      BY <2>1, CallsAreNoRest DEF NothingForgotten
    <2>2. CASE UNCHANGED vars
      BY <2>2 DEF vars, clusterVars, workerVars, NothingForgotten, AtRest
    <2>. QED BY <2>1, <2>2, CommonForgetsNothing, EnvironmentForgetsNothing DEF Next, Worker
  <1>. QED BY <1>1, <1>2, CopiesAlways, PTL DEF Spec

\* The resource as the spec asks for it, and what the worker relies on between
\* the calls of Ensure.
Made == remote.st = "Succeeded" /\ remote.has = local.items

MadeKept ==
    /\ DoneIsDone(Client.updates, Client.reads)
    /\ remote.st \in {"Absent", "Succeeded"}
    /\ pc \in EnsurePath => draft = local.items
    /\ pc = "ensureRead" => Made

\* Done is said only of a resource that was found, or that was sent.
LEMMA MadeKeptStep ==
    ASSUME Alone, TypeOK, MadeKept, [Next]_vars
    PROVE  MadeKept'
  <1>. USE DEF DoneIsDone
  <1>1. CASE Idle /\ UNCHANGED remote
    BY <1>1 DEF Idle, MadeKept, EnsurePath
  <1>2. CASE pc' \notin EnsurePath /\ UNCHANGED remote
    BY <1>2 DEF MadeKept, EnsurePath
  <1>3. CASE FetchGuarded
    BY <1>3 DEF FetchGuarded, Take, armVars, MadeKept, EnsurePath
  <1>4. CASE FetchUnguarded \/ FetchDeleting
    BY <1>2, <1>4 DEF FetchUnguarded, FetchDeleting, Take, armVars, EnsurePath
  <1>5. CASE AddFinalizer \/ RemoveFinalizer \/ EnsureStatus \/ DeleteStatus
    BY <1>1, <1>2, <1>5
       DEF AddFinalizer, RemoveFinalizer, EnsureStatus, DeleteStatus, Return, EnsurePath,
           Update, StatusUpdate, Write
  <1>6. CASE AzDelete
    BY <1>6 DEF AzDelete, AtOnce, MadeKept, EnsurePath
  <1>7. CASE EnsureGet
    <2>1. PICK answer : ArmGet(answer) /\ Observe(answer)
      BY <1>7 DEF EnsureGet
    <2>2. /\ local'.items = local.items /\ UNCHANGED <<remote, draft>>
          /\ pc = "ensureGet" /\ pc' \in {"ensurePut", "ensureStatus"}
          /\ answer = "found" => local'.status = "Succeeded"
      BY <1>7, <2>1 DEF EnsureGet, Observe, ArmGet, Calling, TypeOK, Version
    <2>3. pc' = "ensureStatus" /\ res' = "done" =>
              answer = "found" /\ remote.st = "Succeeded" /\ ~Client.updates
      BY <1>7, <2>1 DEF EnsureGet, ArmGet, Absent, Observe, MadeKept
    <2>. QED BY <2>2, <2>3 DEF MadeKept, EnsurePath
  <1>8. CASE EnsurePut
    <2>1. PICK answer : /\ ArmPut(draft, local.inc, answer) /\ AtOnce
                        /\ res' = IF answer = "ok" THEN "done" ELSE "err"
                        /\ pc' = IF answer = "ok" /\ Client.reads
                                 THEN "ensureRead" ELSE "ensureStatus"
      BY <1>8 DEF EnsurePut
    <2>2. /\ UNCHANGED <<local, draft>> /\ draft = local.items
          /\ remote'.st \in {"Absent", "Succeeded"}
      BY <1>8, <2>1 DEF EnsurePut, Calling, MadeKept, EnsurePath, AtOnce
    <2>3. answer = "ok" => Made'
      BY <2>1, <2>2 DEF ArmPut, Accept, Made
    <2>. QED BY <2>1, <2>2, <2>3 DEF MadeKept, Made
  <1>9. CASE EnsureRead
    <2>1. PICK answer :
              /\ ArmGet(answer)
              /\ IF Client.monitored /\ answer = "error"
                 THEN UNCHANGED <<local, seen>> ELSE Observe(answer)
              /\ res' = "done" => answer # "error"
      BY <1>9 DEF EnsureRead
    <2>2. /\ local'.items = local.items /\ UNCHANGED <<remote, draft>>
          /\ pc' = "ensureStatus" /\ Made
      BY <1>9, <2>1 DEF EnsureRead, Observe, ArmGet, Calling, TypeOK, Version, MadeKept
    <2>3. answer # "error" => local'.status = "Succeeded"
      BY <2>1, <2>2 DEF ArmGet, Absent, Made, Observe, TypeOK, Version
    <2>4. draft' = local'.items
      BY <1>9, <2>2 DEF MadeKept, EnsureRead, EnsurePath
    <2>. QED BY <2>1, <2>2, <2>3, <2>4 DEF MadeKept, Made
  <1>10. CASE Azure \/ Outside
    <2>1. UNCHANGED <<remote, pc, res, draft, local>>
      BY <1>10 DEF Alone, Azure, Outside, workerVars, ArmFinish, ArmFail, ArmDrift, Fault,
                   Absent, MadeKept
    <2>. QED BY <2>1 DEF MadeKept, Made
  <1>11. CASE FetchNothing \/ User \/ Informer \/ UNCHANGED vars
    <2>1. UNCHANGED <<remote, pc, res, draft, local>>
      BY <1>11 DEF FetchNothing, User, Informer, armVars, workerVars, vars
    <2>. QED BY <2>1 DEF MadeKept, Made
  <1>. QED BY <1>1, <1>3, <1>4, <1>5, <1>6, <1>7, <1>8, <1>9, <1>10, <1>11
           DEF Next, Worker, Common, Environment, Crash

\* What the worker relies on holds as long as nobody else changes the resource.
LEMMA MadeKeptAlways ==
    ASSUME Alone
    PROVE  Spec => []MadeKept
  <1>1. Init => MadeKept
    BY DEF Init, ArmInit, NoResource, Foreign, MadeKept, DoneIsDone, EnsurePath
  <1>2. TypeOK /\ MadeKept /\ [Next]_vars => MadeKept'
    BY MadeKeptStep
  <1>. QED BY <1>1, <1>2, TypeCorrect, PTL DEF Spec

\* Reconciling ends only over a resource that is there, for every client; it is
\* as the spec asks if the client sends what is there again, and the object says
\* so if the client reads what it has sent
\* (keyvaults.go:76-82, identities.go:57-77, sqlfirewallrules.go:59-86).
THEOREM RestsThere == Spec => []Rested(Client.updates, Client.reads)
  <1>. DEFINE Rests == Rested(Client.updates, Client.reads)
  <1>1. Init => Rests
    BY RestInit DEF Rested
  <1>2. CopyInv /\ MadeKept /\ Rests /\ [Next]_vars => Rests'
    <2>. SUFFICES ASSUME CopyInv, MadeKept, Rests, [Next]_vars
                  PROVE  Rests'
      OBVIOUS
    <2>0. TypeOK /\ DoneIsDone(Client.updates, Client.reads)
      BY DEF CopyInv, MadeKept
    <2>1. CASE FetchGuarded \/ AzDelete \/ EnsureGet \/ EnsurePut \/ EnsureRead
      BY <2>1, CallsAreNoRest DEF Rested
    <2>2. CASE UNCHANGED vars
      BY <2>2 DEF vars, clusterVars, armVars, workerVars, Rested, AtRest, Alone
    <2>3. CASE Common
      BY <2>0, <2>3, CommonRested
    <2>4. CASE Environment
      BY <2>0, <2>4, EnvironmentRested
    <2>. QED BY <2>1, <2>2, <2>3, <2>4 DEF Next, Worker
  <1>3. CASE Alone
    <2>1. Spec => []MadeKept
      BY <1>3, MadeKeptAlways
    <2>. QED BY <1>1, <1>2, <2>1, CopiesAlways, PTL DEF Spec
  <1>4. CASE ~Alone
    <2>1. Rests
      BY <1>4 DEF Rested
    <2>. QED BY <2>1, PTL
  <1>. QED BY <1>3, <1>4

\* So reconciling ends only with the object converged, for every client that
\* sends and reads what it manages (identities.go:64 does neither).
THEOREM RestsDone ==
    ASSUME Client.updates, Client.reads
    PROVE  Spec => []RestsWhenDone
  <1>1. Rested(Client.updates, Client.reads) => RestsWhenDone
    BY RestedIsDone
  <1>. QED BY <1>1, RestsThere, PTL

-----------------------------------------------------------------------------
(* The reconciler implements the lifecycle.                                *)

\* Every step of it is a step of the lifecycle, or none, and teardowns go
\* forward.
LEMMA LifecycleStep ==
    ASSUME IInv, TornInOrder, [Next]_vars
    PROVE  InLifecycle /\ TornInOrder'
  <1>1. TypeOK /\ TypeOK'
    BY TypeStep DEF IInv
  <1>2. CASE FetchGuarded
    <2>1. /\ UNCHANGED <<api, cached, watch, torn, remote>> /\ local' = cached
          /\ pc' \in EnsurePath
      BY <1>2 DEF FetchGuarded, Take, armVars, EnsurePath
    <2>2. TornInOrder'
      BY <1>1, <2>1, TornStays DEF Held, EnsurePath
    <2>. QED BY <2>1, <2>2, UnmovedInLifecycle DEF Unmoved
  <1>3. CASE AzDelete
    <2>1. PICK answer : ArmDelete(local.inc, answer)
      BY <1>3 DEF AzDelete
    <2>2. pc = "azDelete" /\ UNCHANGED <<clusterVars, local>>
      BY <1>3 DEF AzDelete, Calling
    <2>. QED BY <1>1, <2>1, <2>2, DeleteInLifecycle, TornByDelete
  <1>4. CASE EnsureGet \/ EnsureRead
    <2>1. PICK answer : /\ ArmGet(answer)
                        /\ Observe(answer) \/ UNCHANGED <<local, seen>>
      BY <1>4 DEF EnsureGet, EnsureRead
    <2>2. /\ UNCHANGED <<clusterVars, torn, remote>>
          /\ local'.inc = local.inc /\ pc # "idle" /\ pc' \in EnsurePath
      BY <1>1, <1>4, <2>1, ObserveType
         DEF ArmGet, Same, EnsureGet, EnsureRead, EnsurePath, Calling
    <2>3. TornInOrder'
      BY <1>1, <2>2, TornCall
    <2>. QED BY <2>2, <2>3, UnmovedInLifecycle DEF Unmoved, clusterVars
  <1>5. CASE EnsurePut
    <2>1. PICK answer : ArmPut(draft, local.inc, answer)
      BY <1>5 DEF EnsurePut
    <2>2. /\ UNCHANGED <<clusterVars, torn>> /\ pc = "ensurePut"
          /\ local' = local /\ pc' \in EnsurePath
      BY <1>5, <2>1 DEF ArmPut, EnsurePut, EnsurePath, Calling
    <2>3. TornInOrder'
      BY <1>1, <2>2, TornCall
    <2>. QED BY <1>1, <2>1, <2>2, <2>3, PutInLifecycle
  <1>6. CASE UNCHANGED vars
    <2>1. InLifecycle
      BY <1>6, UnmovedInLifecycle DEF Unmoved, vars, clusterVars, armVars
    <2>2. TornInOrder'
      BY <1>6 DEF TornInOrder, Held, vars, clusterVars, armVars, workerVars
    <2>. QED BY <2>1, <2>2
  <1>. QED BY <1>1, <1>2, <1>3, <1>4, <1>5, <1>6, CommonInLifecycle, EnvironmentInLifecycle,
              TornCommon, TornEnvironment DEF Next, Worker

\* A reconciler whose client is careful keeps the promise of the finalizer, as
\* Lifecycle puts it, though it never looks again after a DELETE
\* (sync_controller.go:62-94).
THEOREM Implements ==
    ASSUME Careful
    PROVE  Spec => ImplementsLifecycle
  <1>1. Init => L!LifecycleInit /\ TornInOrder
    BY LifecycleInit, TornInit
  <1>2. IInv /\ TornInOrder /\ [Next]_vars => TornInOrder' /\ [L!LifecycleNext]_(L!lifecycleVars)
    BY LifecycleStep DEF InLifecycle
  <1>. QED BY <1>1, <1>2, Invariance, PTL DEF Spec, ImplementsLifecycle, L!LifecycleSpec
=============================================================================
