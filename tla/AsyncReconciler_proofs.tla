----------------------- MODULE AsyncReconciler_proofs -----------------------
(***************************************************************************)
(* Proofs about AsyncReconciler, for every kind of client, every set of    *)
(* contents and every value of the bounds.                                 *)
(***************************************************************************)
EXTENDS AsyncReconciler, Controller_proofs

\* SetStatus leaves a provisioning state: the one it had, none, or the one of
\* the resource GET found.
LEMMA ObserveType ==
    ASSUME TypeOK, NEW answer, ArmGet(answer), Observe(answer)
    PROVE  /\ local' \in Version
           /\ seen' \in ProvisioningState \cup {"Unknown"}
           /\ ArmTypeOK'
           /\ Same(local', local) /\ local'.rv = local.rv
  <1>1. /\ local \in Version /\ local.status \in ProvisioningState
        /\ remote \in Resource /\ faults \in Nat /\ torn \in Nat
    BY DEF TypeOK, Version, ArmTypeOK
  <1>2. answer = "found" => remote.st \in ProvisioningState
    BY <1>1 DEF ArmGet, Absent, Resource, ProvisioningState
  <1>3. SetStatus(local.status, answer, remote.st) \in ProvisioningState
    BY <1>1, <1>2 DEF SetStatus, ProvisioningState
  <1>4. local' \in Version /\ Same(local', local) /\ local'.rv = local.rv
    BY <1>1, <1>3 DEF Observe, Version, Same
  <1>5. seen' \in ProvisioningState \cup {"Unknown"}
    BY <1>2 DEF Observe, ProvisioningState
  <1>6. ArmTypeOK'
    BY <1>1 DEF ArmGet, Fault, ArmTypeOK
  <1>. QED BY <1>4, <1>5, <1>6

\* Every step keeps the types.
LEMMA TypeStep ==
    ASSUME TypeOK, [Next]_vars
    PROVE  TypeOK'
  <1>. USE DEF ClusterTypeOK
  <1>1. CASE FetchGuarded
    BY <1>1, TakeType DEF FetchGuarded, EnsurePath
  <1>2. CASE AzDelete
    <2>1. ArmTypeOK'
      BY <1>2, CallType DEF AzDelete
    <2>. QED BY <1>2, <2>1 DEF AzDelete, Calling, clusterVars, TypeOK, Results, DeletePath
  <1>3. CASE DeleteGet
    <2>1. /\ local' \in Version /\ ArmTypeOK'
          /\ seen' \in ProvisioningState \cup {"Unknown"}
      BY <1>3, ObserveType DEF DeleteGet
    <2>. QED BY <1>3, <2>1 DEF DeleteGet, Calling, clusterVars, TypeOK, Results, DeletePath
  <1>4. CASE EnsureGet
    <2>1. /\ local' \in Version /\ ArmTypeOK'
          /\ seen' \in ProvisioningState \cup {"Unknown"}
      BY <1>4, ObserveType DEF EnsureGet
    <2>2. Build(remote.has, local.items) \in Contents
      BY DEF Build, Contents, TypeOK, ArmTypeOK, Resource, Version
    <2>. QED BY <1>4, <2>1, <2>2 DEF EnsureGet, clusterVars, TypeOK, Results, EnsurePath
  <1>5. CASE EnsurePut
    <2>1. ArmTypeOK'
      BY <1>5, CallType DEF EnsurePut
    <2>. QED BY <1>5, <2>1 DEF EnsurePut, Calling, clusterVars, TypeOK, Results, EnsurePath
  <1>6. CASE EnsureRead
    <2>1. /\ local' \in Version /\ ArmTypeOK'
          /\ seen' \in ProvisioningState \cup {"Unknown"}
      BY <1>6, ObserveType DEF EnsureRead
    <2>. QED BY <1>6, <2>1 DEF EnsureRead, Calling, clusterVars, TypeOK, Results, EnsurePath
  <1>. QED BY <1>1, <1>2, <1>3, <1>4, <1>5, <1>6, CommonType, EnvironmentType, StutterType
         DEF Next, Worker

\* The variables keep their types.
THEOREM TypeCorrect == Spec => []TypeOK
  BY TypeInit, TypeStep, PTL DEF Spec

-----------------------------------------------------------------------------
(* The inductive invariant.                                                *)

\* Every step keeps the invariant.
LEMMA IInvStep ==
    ASSUME IInv, [Next]_vars
    PROVE  IInv'
  <1>1. TypeOK /\ TypeOK' /\ CopyInv /\ OwnerGuarded
    BY TypeStep, IInvParts DEF IInv
  <1>. SUFFICES CopyInv' /\ OwnerGuarded'
    BY DEF IInv, CopyInv, Copies
  <1>2. CASE FetchGuarded
    BY <1>1, <1>2, TakeStep DEF FetchGuarded, EnsurePath
  <1>3. CASE AzDelete
    <2>1. PICK answer : ArmDelete(local.inc, answer)
      BY <1>3 DEF AzDelete
    <2>2. /\ pc = "azDelete" /\ pc' \in {"deleteGet", "deleteStatus"}
          /\ pc' = "deleteStatus" => res' = "err"
          /\ UNCHANGED <<clusterVars, local>>
      BY <1>3 DEF AzDelete, Calling
    <2>. QED BY <1>1, <2>1, <2>2, DeleteCallStep
  <1>4. CASE DeleteGet
    <2>1. PICK answer : /\ ArmGet(answer) /\ Observe(answer)
                        /\ res' = "gone" => answer = "notFound"
      BY <1>4 DEF DeleteGet
    <2>2. pc = "deleteGet" /\ pc' = "deleteStatus" /\ UNCHANGED clusterVars
      BY <1>4 DEF DeleteGet, Calling
    <2>3. Same(local', local) /\ local'.rv = local.rv
      BY <1>1, <2>1, ObserveType
    <2>. QED BY <1>1, <2>1, <2>2, <2>3, DeleteLookStep
  <1>5. CASE EnsureGet \/ EnsureRead
    <2>1. PICK answer : ArmGet(answer) /\ Observe(answer)
      BY <1>5 DEF EnsureGet, EnsureRead
    <2>2. /\ pc \in EnsurePath /\ pc' \in {"ensurePut", "ensureStatus"}
          /\ UNCHANGED clusterVars
      BY <1>5 DEF EnsureGet, EnsureRead, EnsurePath, Calling
    <2>3. Same(local', local) /\ local'.rv = local.rv
      BY <1>1, <2>1, ObserveType
    <2>. QED BY <1>1, <2>1, <2>2, <2>3, EnsureLookStep
  <1>6. CASE EnsurePut
    <2>1. PICK answer : ArmPut(draft, local.inc, answer)
      BY <1>6 DEF EnsurePut
    <2>2. /\ pc = "ensurePut" /\ pc' \in {"ensureRead", "ensureStatus"}
          /\ UNCHANGED <<clusterVars, local>>
      BY <1>6 DEF EnsurePut, Calling
    <2>. QED BY <1>1, <2>1, <2>2, EnsurePutStep
  <1>. QED BY <1>1, <1>2, <1>3, <1>4, <1>5, <1>6, CommonStep, EnvironmentStep, StutterStep
         DEF Next, Worker

\* What every copy of the object says about it, and whose the resource is
\* (async_controller.go:48-99).
THEOREM Invariance == Spec => []IInv
  BY IInvInit, IInvStep, PTL DEF Spec

\* No resource outlives its object (async_controller.go:62-81).
THEOREM NoOrphans == Spec => []NoOrphan
  BY Invariance, InvNoOrphan, PTL

\* No PUT follows a DELETE sent for the same object
\* (async_controller.go:68-87).
THEOREM NoRecreation == Spec => []NoPutAfterDelete
  BY Invariance, IInvParts, InvNoPutAfterDelete, PTL

\* A DELETE never hits the resource of another object
\* (async_controller.go:48 and 70).
THEOREM DeletesOnlyOwn == Spec => []DeletesOwn
  BY Invariance, InvDeletesOwn, PTL

\* The worker's writes undo nothing the user asked for
\* (async_controller.go:64, 71, 78 and 92).
THEOREM UserIntent == Spec => UserIntentKept
  <1>1. ASSUME IInv, Next, pc' # pc
        PROVE  Kept
    <2>1. CASE FetchGuarded \/ AzDelete \/ DeleteGet \/ EnsureGet \/ EnsurePut \/ EnsureRead
      BY <2>1 DEF FetchGuarded, Take, AzDelete, DeleteGet, EnsureGet, EnsurePut,
                  EnsureRead, Calling, clusterVars, Kept
    <2>. QED BY <1>1, <2>1, IInvParts, CommonKeeps, EnvironmentKeeps DEF Next, Worker
  <1>2. IInv /\ [Next]_vars => [pc' # pc => Kept]_vars
    BY <1>1
  <1>. QED BY Invariance, <1>2, PTL DEF Spec, UserIntentKept, Kept

-----------------------------------------------------------------------------
(* The status, the clean-up and the result.                                *)

\* What the worker's copy says since the last GET.
StatusKept ==
    /\ pc = "idle" => seen = "Unknown"
    /\ pc # "removeFinalizer" /\ seen # "Unknown" => local.status = seen

\* Nothing but Ensure and Delete touches the status of the worker's copy.
LEMMA StatusStep ==
    ASSUME Client.clears = TRUE, TypeOK, StatusKept, [Next]_vars
    PROVE  StatusKept'
  <1>1. CASE Idle
    BY <1>1 DEF Idle, StatusKept
  <1>2. CASE pc' # "idle" /\ UNCHANGED seen /\ seen = "Unknown"
    BY <1>2 DEF StatusKept
  <1>3. CASE pc' = "removeFinalizer"
    BY <1>3 DEF StatusKept
  <1>4. CASE UNCHANGED <<seen, local>> /\ pc' # "idle" /\ pc \notin {"idle", "removeFinalizer"}
    BY <1>4 DEF StatusKept
  <1>5. CASE UNCHANGED <<seen, local, pc>>
    BY <1>5 DEF StatusKept
  <1>6. ASSUME NEW answer \in {"found", "notFound", "error"}, Observe(answer), pc' # "idle"
        PROVE  StatusKept'
    <2>1. local'.status = SetStatus(local.status, answer, remote.st)
      BY <1>6 DEF Observe, TypeOK, Version
    <2>2. answer # "error" => seen' = SetStatus(local.status, answer, remote.st)
      BY <1>6 DEF Observe, SetStatus
    <2>3. answer = "error" => seen' = "Unknown"
      BY <1>6 DEF Observe
    <2>. QED BY <1>6, <2>1, <2>2, <2>3 DEF StatusKept
  <1>7. CASE FetchGuarded \/ FetchUnguarded \/ FetchDeleting
    BY <1>2, <1>7 DEF FetchGuarded, FetchUnguarded, FetchDeleting, Take, StatusKept
  <1>8. CASE AddFinalizer \/ RemoveFinalizer \/ EnsureStatus \/ DeleteStatus
    BY <1>1, <1>3, <1>8 DEF AddFinalizer, RemoveFinalizer, EnsureStatus, DeleteStatus, Return
  <1>9. CASE AzDelete \/ EnsurePut
    BY <1>4, <1>9 DEF AzDelete, EnsurePut
  <1>10. CASE DeleteGet \/ EnsureGet \/ EnsureRead
    BY <1>6, <1>10 DEF DeleteGet, EnsureGet, EnsureRead
  <1>11. CASE FetchNothing \/ Environment \/ UNCHANGED vars
    BY <1>1, <1>5, <1>11 DEF FetchNothing, Environment, User, Informer, Azure, Outside, Crash,
                             workerVars, vars
  <1>. QED BY <1>7, <1>8, <1>9, <1>10, <1>11 DEF Next, Worker, Common

\* What is written as the status is what the last GET showed, for the clients
\* whose SetStatus forgets when there is no body to read (vms.go:147-153).
THEOREM StatusTrue ==
    ASSUME Client.clears = TRUE
    PROVE  Spec => []StatusReflectsAzure
  <1>1. Init => StatusKept
    BY DEF Init, StatusKept
  <1>2. TypeOK /\ StatusKept /\ [Next]_vars => StatusKept'
    BY StatusStep
  <1>3. StatusKept => StatusReflectsAzure
    BY DEF StatusKept, StatusReflectsAzure
  <1>. QED BY <1>1, <1>2, <1>3, TypeCorrect, PTL DEF Spec

\* The worker goes for the finalizer only once everything has been removed.
CleanedUp ==
    pc = "removeFinalizer" \/ (pc = "deleteStatus" /\ res = "gone") => Client.cleanup

\* No other step prepares for that.
LEMMA CleanedUpStep ==
    ASSUME CleanedUp, [Next]_vars
    PROVE  CleanedUp'
  <1>1. CASE Idle
    BY <1>1 DEF Idle, CleanedUp
  <1>2. CASE UNCHANGED <<pc, res>>
    BY <1>2 DEF CleanedUp
  <1>3. CASE DeleteGet
    <2>1. res' = "gone" => Client.cleanup
      BY <1>3 DEF DeleteGet
    <2>. QED BY <1>3, <2>1 DEF DeleteGet, CleanedUp
  <1>4. CASE FetchGuarded \/ FetchUnguarded \/ FetchDeleting
    BY <1>4 DEF FetchGuarded, FetchUnguarded, FetchDeleting, Take, CleanedUp
  <1>5. CASE AddFinalizer \/ RemoveFinalizer \/ EnsureStatus \/ DeleteStatus
    BY <1>1, <1>5 DEF AddFinalizer, RemoveFinalizer, EnsureStatus, DeleteStatus, Return, CleanedUp
  <1>6. CASE AzDelete \/ EnsureGet \/ EnsurePut \/ EnsureRead
    BY <1>6 DEF AzDelete, EnsureGet, EnsurePut, EnsureRead, CleanedUp
  <1>7. CASE FetchNothing \/ Environment \/ UNCHANGED vars
    BY <1>1, <1>2, <1>7 DEF FetchNothing, Environment, User, Informer, Azure, Outside, Crash,
                            workerVars, vars
  <1>. QED BY <1>3, <1>4, <1>5, <1>6, <1>7 DEF Next, Worker, Common

\* An object that was being deleted is let go by the worker alone, once
\* everything has been removed (vms.go:141).
THEOREM HoldsForCleanup == Spec => CleanupHolds
  <1>. DEFINE Released == api.live /\ api.fin /\ ~(api'.live /\ api'.fin)
  <1>1. Init => CleanedUp
    BY DEF Init, CleanedUp
  <1>2. CleanedUp /\ [Next]_vars => CleanedUp'
    BY CleanedUpStep
  <1>3. ASSUME IInv, CleanedUp, Next, Released
        PROVE  Client.cleanup
    <2>1. CASE FetchGuarded \/ AzDelete \/ DeleteGet \/ EnsureGet \/ EnsurePut \/ EnsureRead
      BY <1>3, <2>1 DEF FetchGuarded, Take, AzDelete, DeleteGet, EnsureGet, EnsurePut,
                        EnsureRead, Calling, clusterVars
    <2>. QED BY <1>3, <2>1, ReleasedOnlyThere DEF Next, Worker, CleanedUp
  <1>4. IInv /\ CleanedUp /\ [Next]_vars => [Released => Client.cleanup]_vars
    BY <1>3
  <1>. QED BY <1>1, <1>2, <1>4, Invariance, PTL DEF Spec, CleanupHolds

-----------------------------------------------------------------------------
(* What Ensure returns.                                                    *)

\* Does the client compare what it finds with what it is asked for, or send it
\* regardless?  An interface that is done it does not look at (nics.go:73).
Compares == Client.update # "never"

\* What the worker relies on between the calls of Ensure.
Sent == /\ remote.st \in {"Working", "Succeeded", "Failed"}
        /\ Compares => remote.has = local.items

EnsureKept ==
    /\ DoneIsDone(Compares, TRUE)
    /\ pc = "ensureRead" => Sent
    /\ pc = "ensurePut" /\ Client.first = "put" => draft = local.items
    /\ Client.first = "put" => pc # "ensureGet"

\* A resource that is found the way it was asked for is not sent again, and
\* only then, or after a PUT that was accepted, does Ensure return done.
LEMMA EnsureKeptStep ==
    ASSUME Alone, TypeOK, EnsureKept, [Next]_vars
    PROVE  EnsureKept'
  <1>0. /\ Client.update \in {"differs", "always", "never"} /\ Client.first \in {"get", "put"}
        /\ Client.first = "put" => Client.merges = FALSE
    BY KindAssumption
       DEF Client, Clients, ResourceGroup, VirtualNetwork, Subnet, NetworkInterface, PublicIP,
           SecurityGroup, ServiceBusNamespace, Redis, VM
  <1>. USE DEF DoneIsDone
  <1>1. CASE Idle
    BY <1>1 DEF Idle, EnsureKept
  <1>2. CASE pc' \notin EnsurePath
    BY <1>2 DEF EnsureKept, EnsurePath
  <1>3. CASE FetchGuarded
    <2>1. /\ pc' = IF Client.first = "get" THEN "ensureGet" ELSE "ensurePut"
          /\ draft' = local'.items
      BY <1>3 DEF FetchGuarded, Take
    <2>. QED BY <1>0, <2>1 DEF EnsureKept
  <1>4. CASE FetchUnguarded \/ FetchDeleting
    BY <1>2, <1>4 DEF FetchUnguarded, FetchDeleting, Take, EnsurePath
  <1>5. CASE AddFinalizer \/ RemoveFinalizer \/ EnsureStatus \/ DeleteStatus
    BY <1>1, <1>2, <1>5
       DEF AddFinalizer, RemoveFinalizer, EnsureStatus, DeleteStatus, Return, EnsurePath
  <1>6. CASE AzDelete \/ DeleteGet
    BY <1>2, <1>6 DEF AzDelete, DeleteGet, EnsurePath
  <1>7. CASE EnsureGet
    <2>. DEFINE Sends(answer) == \/ answer = "notFound"
                                 \/ /\ answer = "found"
                                    /\ Done(local'.status)
                                    /\ NeedsUpdate(remote.has, local.items)
    <2>1. PICK answer \in {"found", "notFound", "error"} :
              /\ ArmGet(answer) /\ Observe(answer)
              /\ pc' = IF Sends(answer) THEN "ensurePut" ELSE "ensureStatus"
              /\ res' = "done" => answer = "found" /\ Done(local'.status)
      BY <1>7 DEF EnsureGet
    <2>2. /\ local'.items = local.items /\ remote' = remote
          /\ local'.status = SetStatus(local.status, answer, remote.st)
      BY <2>1 DEF Observe, ArmGet, TypeOK, Version
    <2>3. ASSUME pc' = "ensureStatus", res' = "done"
          PROVE  /\ remote.st = "Succeeded" /\ local'.status = "Succeeded"
                 /\ Compares => remote.has = local.items
      <3>1. answer = "found" /\ Done(local'.status)
        BY <2>1, <2>3
      <3>2. remote.st = "Succeeded"
        BY <2>2, <3>1 DEF SetStatus, Done
      <3>3. ~NeedsUpdate(remote.has, local.items)
        BY <2>1, <2>3, <3>1
      <3>4. Compares => remote.has = local.items
        BY <1>0, <3>3, Zenon DEF NeedsUpdate, Compares
      <3>. QED BY <3>1, <3>2, <3>4 DEF Done
    <2>4. Client.first # "put"
      BY <1>7 DEF EnsureGet, EnsureKept
    <2>. QED BY <2>1, <2>2, <2>3, <2>4 DEF EnsureKept
  <1>8. CASE EnsurePut
    <2>1. PICK answer : /\ ArmPut(draft, local.inc, answer)
                        /\ res' # "done"
                        /\ pc' = IF Client.first = "put" /\ answer = "ok"
                                 THEN "ensureRead" ELSE "ensureStatus"
      BY <1>8 DEF EnsurePut
    <2>2. local' = local /\ pc = "ensurePut"
      BY <1>8 DEF EnsurePut
    <2>3. ASSUME Client.first = "put", answer = "ok" PROVE Sent'
      BY <2>1, <2>2, <2>3 DEF ArmPut, Accept, Sent, EnsureKept
    <2>. QED BY <2>1, <2>3 DEF EnsureKept
  <1>9. CASE EnsureRead
    <2>1. PICK answer \in {"found", "notFound", "error"} :
              /\ ArmGet(answer) /\ Observe(answer)
              /\ res' = "done" => answer # "error" /\ Done(local'.status)
      BY <1>9 DEF EnsureRead
    <2>2. /\ local'.items = local.items /\ remote' = remote /\ pc' = "ensureStatus"
          /\ local'.status = SetStatus(local.status, answer, remote.st)
      BY <1>9, <2>1 DEF Observe, ArmGet, TypeOK, Version, EnsureRead
    <2>3. Sent /\ answer # "notFound"
      BY <1>9, <2>1 DEF EnsureRead, EnsureKept, Sent, ArmGet, Absent
    <2>4. res' = "done" => remote.st = "Succeeded" /\ local'.status = "Succeeded"
      BY <2>1, <2>2, <2>3 DEF SetStatus, Done
    <2>. QED BY <2>2, <2>3, <2>4 DEF EnsureKept, Sent
  <1>10. CASE Azure \/ Outside
    <2>1. UNCHANGED <<pc, res, draft, local>>
      BY <1>10 DEF Azure, Outside, workerVars
    <2>2. remote.st \in {"Working", "Succeeded", "Failed"} =>
              /\ remote'.st \in {"Working", "Succeeded", "Failed"}
              /\ remote'.has = remote.has
              /\ remote.st = "Succeeded" => remote'.st = "Succeeded"
      BY <1>10 DEF Alone, Azure, Outside, ArmFinish, ArmFail, ArmDrift, Fault, Absent,
                   TypeOK, ArmTypeOK, Resource
    <2>. QED BY <2>1, <2>2 DEF EnsureKept, Sent
  <1>11. CASE FetchNothing \/ User \/ Informer \/ UNCHANGED vars
    <2>1. UNCHANGED <<pc, res, draft, local, remote>>
      BY <1>11 DEF FetchNothing, User, Informer, armVars, workerVars, vars
    <2>. QED BY <2>1 DEF EnsureKept, Sent
  <1>. QED BY <1>1, <1>3, <1>4, <1>5, <1>6, <1>7, <1>8, <1>9, <1>10, <1>11
           DEF Next, Worker, Common, Environment, Crash

\* What the worker relies on holds as long as nobody else changes the resource.
LEMMA EnsureKeptAlways ==
    ASSUME Alone
    PROVE  Spec => []EnsureKept
  <1>1. Init => EnsureKept
    BY DEF Init, EnsureKept, DoneIsDone
  <1>2. TypeOK /\ EnsureKept /\ [Next]_vars => EnsureKept'
    BY EnsureKeptStep
  <1>. QED BY <1>1, <1>2, TypeCorrect, PTL DEF Spec

\* A call to Azure is no rest.
LEMMA CallsAreNoRest ==
    ASSUME FetchGuarded \/ AzDelete \/ DeleteGet \/ EnsureGet \/ EnsurePut \/ EnsureRead
    PROVE  ~AtRest'
  BY DEF FetchGuarded, Take, AzDelete, DeleteGet, EnsureGet, EnsurePut, EnsureRead, AtRest

\* Ensure returns done only for a resource that is there and provisioned, and
\* that has what the spec asks for if the client compares, for every client and
\* whatever fails meanwhile, unless others change it
\* (subnets.go:61-86, nics.go:65-77, publicips.go:74-85).
THEOREM DoneIsThere ==
    Spec => [](Alone => DoneIsDone(Compares, TRUE))
  <1>1. Alone => (Spec => []EnsureKept)
    BY EnsureKeptAlways
  <1>2. EnsureKept => (Alone => DoneIsDone(Compares, TRUE))
    BY DEF EnsureKept
  <1>3. CASE Alone
    BY <1>1, <1>2, <1>3, PTL
  <1>4. CASE ~Alone
    <2>1. Alone => DoneIsDone(Compares, TRUE)
      BY <1>4
    <2>. QED BY <2>1, PTL
  <1>. QED BY <1>3, <1>4

\* So Ensure's promise is kept by every client that compares what it finds or
\* sends it always (not nics.go:73).
THEOREM DoneIsProvisioned ==
    ASSUME Client.update # "never"
    PROVE  Spec => []DoneMeansProvisioned
  <1>1. (Alone => DoneIsDone(Compares, TRUE)) => DoneMeansProvisioned
    BY DEF DoneIsDone, Compares, DoneMeansProvisioned
  <1>. QED BY <1>1, DoneIsThere, PTL

-----------------------------------------------------------------------------
(* When the controller rests.                                              *)

\* No wake-up is lost, for every kind of client, whatever fails and whoever else
\* changes the resource (async_controller.go:62-99).
THEOREM ForgetsNothing == Spec => []NothingForgotten
  <1>1. Init => NothingForgotten
    BY RestInit DEF NothingForgotten
  <1>2. IInv /\ NothingForgotten /\ [Next]_vars => NothingForgotten'
    <2>. SUFFICES ASSUME IInv, NothingForgotten, [Next]_vars
                  PROVE  NothingForgotten'
      OBVIOUS
    <2>1. CASE FetchGuarded \/ AzDelete \/ DeleteGet \/ EnsureGet \/ EnsurePut \/ EnsureRead
      BY <2>1, CallsAreNoRest DEF NothingForgotten
    <2>2. CASE UNCHANGED vars
      BY <2>2 DEF vars, clusterVars, workerVars, NothingForgotten, AtRest
    <2>. QED BY <2>1, <2>2, IInvParts, CommonForgetsNothing, EnvironmentForgetsNothing DEF Next, Worker
  <1>. QED BY <1>1, <1>2, Invariance, PTL DEF Spec

\* Reconciling ends only over a resource that is there and provisioned, of which
\* the object says so, for every client; and the resource is what the spec asks
\* for, if the client compares (async_controller.go:87-99).
THEOREM RestsThere == Spec => []Rested(Compares, TRUE)
  <1>1. Init => Rested(Compares, TRUE)
    BY RestInit DEF Rested
  <1>2. IInv /\ EnsureKept /\ Rested(Compares, TRUE) /\ [Next]_vars => Rested(Compares, TRUE)'
    <2>. SUFFICES ASSUME IInv, EnsureKept, Rested(Compares, TRUE), [Next]_vars
                  PROVE  Rested(Compares, TRUE)'
      OBVIOUS
    <2>0. CopyInv /\ TypeOK /\ DoneIsDone(Compares, TRUE)
      BY IInvParts DEF IInv, EnsureKept
    <2>1. CASE FetchGuarded \/ AzDelete \/ DeleteGet \/ EnsureGet \/ EnsurePut \/ EnsureRead
      BY <2>1, CallsAreNoRest DEF Rested
    <2>2. CASE UNCHANGED vars
      BY <2>2 DEF vars, clusterVars, armVars, workerVars, Rested, AtRest, Alone, Compares
    <2>3. CASE Common
      BY <2>0, <2>3, CommonRested
    <2>4. CASE Environment
      BY <2>0, <2>4, EnvironmentRested
    <2>. QED BY <2>1, <2>2, <2>3, <2>4 DEF Next, Worker
  <1>3. CASE Alone
    <2>1. Spec => []EnsureKept
      BY <1>3, EnsureKeptAlways
    <2>. QED BY <1>1, <1>2, <2>1, Invariance, PTL DEF Spec
  <1>4. CASE ~Alone
    <2>1. Rested(Compares, TRUE)
      BY <1>4 DEF Rested
    <2>. QED BY <2>1, PTL
  <1>. QED BY <1>3, <1>4

\* So reconciling ends only with the object converged, for every client that
\* sends what differs; the two that send it always never rest (redis.go:226,
\* servicebus.go:265), the one that never does is left out (nics.go:73).
THEOREM RestsDone ==
    ASSUME Client.update # "never"
    PROVE  Spec => []RestsWhenDone
  <1>1. Rested(Compares, TRUE) => RestsWhenDone
    BY RestedIsDone DEF Compares
  <1>. QED BY <1>1, RestsThere, PTL

-----------------------------------------------------------------------------
(* The reconciler implements the lifecycle.                                *)

\* Every step of it is a step of the lifecycle, or none, and teardowns go
\* forward.
LEMMA LifecycleStep ==
    ASSUME IInv, TornInOrder, [Next]_vars
    PROVE  InLifecycle /\ TornInOrder'
  <1>1. TypeOK /\ TypeOK'
    BY TypeStep DEF IInv
  <1>2. CASE FetchGuarded
    <2>1. /\ UNCHANGED <<api, cached, watch, torn, remote>> /\ local' = cached
          /\ pc' \in EnsurePath
      BY <1>2 DEF FetchGuarded, Take, armVars, EnsurePath
    <2>2. TornInOrder'
      BY <1>1, <2>1, TornStays DEF Held, EnsurePath
    <2>. QED BY <2>1, <2>2, UnmovedInLifecycle DEF Unmoved
  <1>3. CASE AzDelete
    <2>1. PICK answer : ArmDelete(local.inc, answer)
      BY <1>3 DEF AzDelete
    <2>2. pc = "azDelete" /\ UNCHANGED <<clusterVars, local>>
      BY <1>3 DEF AzDelete, Calling
    <2>. QED BY <1>1, <2>1, <2>2, DeleteInLifecycle, TornByDelete
  <1>4. CASE DeleteGet \/ EnsureGet \/ EnsureRead
    <2>1. PICK answer : ArmGet(answer) /\ Observe(answer)
      BY <1>4 DEF DeleteGet, EnsureGet, EnsureRead
    <2>2. /\ UNCHANGED <<clusterVars, torn, remote>>
          /\ local'.inc = local.inc /\ pc # "idle"
          /\ \/ pc' \in EnsurePath
             \/ pc = "deleteGet" /\ pc' = "deleteStatus"
      BY <1>1, <1>4, <2>1, ObserveType
         DEF ArmGet, Same, DeleteGet, EnsureGet, EnsureRead, EnsurePath, Calling
    <2>3. TornInOrder'
      BY <1>1, <2>2, TornCall
    <2>. QED BY <2>2, <2>3, UnmovedInLifecycle DEF Unmoved, clusterVars
  <1>5. CASE EnsurePut
    <2>1. PICK answer : ArmPut(draft, local.inc, answer)
      BY <1>5 DEF EnsurePut
    <2>2. /\ UNCHANGED <<clusterVars, torn>> /\ pc = "ensurePut"
          /\ local' = local /\ pc' \in EnsurePath
      BY <1>5, <2>1 DEF ArmPut, EnsurePut, EnsurePath, Calling
    <2>3. TornInOrder'
      BY <1>1, <2>2, TornCall
    <2>. QED BY <1>1, <2>1, <2>2, <2>3, PutInLifecycle
  <1>6. CASE UNCHANGED vars
    <2>1. InLifecycle
      BY <1>6, UnmovedInLifecycle DEF Unmoved, vars, clusterVars, armVars
    <2>2. TornInOrder'
      BY <1>6 DEF TornInOrder, Held, vars, clusterVars, armVars, workerVars
    <2>. QED BY <2>1, <2>2
  <1>. QED BY <1>1, <1>2, <1>3, <1>4, <1>5, <1>6, CommonInLifecycle, EnvironmentInLifecycle,
              TornCommon, TornEnvironment DEF Next, Worker

\* The reconciler keeps the promise of the finalizer, as Lifecycle puts it,
\* for every kind of client (async_controller.go:62-99).
THEOREM Implements == Spec => ImplementsLifecycle
  <1>1. Init => L!LifecycleInit /\ TornInOrder
    BY LifecycleInit, TornInit
  <1>2. IInv /\ TornInOrder /\ [Next]_vars => TornInOrder' /\ [L!LifecycleNext]_(L!lifecycleVars)
    BY LifecycleStep DEF InLifecycle
  <1>. QED BY <1>1, <1>2, Invariance, PTL DEF Spec, ImplementsLifecycle, L!LifecycleSpec
=============================================================================
