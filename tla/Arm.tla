-------------------------------- MODULE Arm --------------------------------
(***************************************************************************)
(* The one Azure resource a custom resource stands for, as Azure Resource  *)
(* Manager keeps it, and the calls GET, PUT and DELETE on it.  This is the *)
(* Azure service and its SDK, outside src/, modelled from what pkg/clients *)
(* makes of its answers: 404, 409, another error status, or no response    *)
(* at all, in which case the request may or may not have been applied.     *)
(***************************************************************************)
EXTENDS Resources

CONSTANTS
    Faults,     \* the kinds of fault that may happen
    MaxFaults   \* bound: how many faults happen in a behaviour

FaultKinds == {"arm", "kube", "crash", "failedOp", "drift", "gone"}

ASSUME ArmAssumption == Faults \subseteq FaultKinds /\ MaxFaults \in Nat

VARIABLES
    remote,     \* the resource
    torn,       \* history: the last incarnation a DELETE was sent for
    faults      \* how many faults have happened

armVars == <<remote, torn, faults>>

\* "owner" is a history field: the incarnation of the custom resource whose
\* reconciliation sent the last PUT, 0 for a resource made by someone else.
Resource == [st : {"Absent", "Working", "Succeeded", "Failed", "Deleting"},
             has : Contents, owner : Nat]

NoResource == [st |-> "Absent", has |-> {}, owner |-> 0]
Absent == remote.st = "Absent"
Foreign(has) == [st |-> "Succeeded", has |-> has, owner |-> 0]

ArmTypeOK == remote \in Resource /\ torn \in Nat /\ faults \in Nat

\* The group may hold such a resource before anyone creates the object.
ArmInit ==
    /\ remote \in {NoResource} \cup {Foreign(h) : h \in Contents}
    /\ torn = 0
    /\ faults = 0

Fault(kind) ==
    /\ kind \in Faults
    /\ faults < MaxFaults
    /\ faults' = faults + 1

\* GET answers "found", "notFound", or "error" (any other status, or none).
ArmGet(answer) ==
    /\ \/ answer = "found" /\ ~Absent /\ UNCHANGED faults
       \/ answer = "notFound" /\ Absent /\ UNCHANGED faults
       \/ answer = "error" /\ Fault("arm")
    /\ UNCHANGED <<remote, torn>>

Accept(has, owner) ==
    /\ remote.st # "Deleting"
    /\ \E st \in {"Working", "Succeeded"} :
          remote' = [st |-> st, has |-> has, owner |-> owner]

\* PUT answers "ok", "conflict" while another operation runs, "error" (a
\* status that refuses it) or "lost" (no response).
ArmPut(has, owner, answer) ==
    /\ \/ answer = "ok" /\ Accept(has, owner) /\ UNCHANGED faults
       \/ answer = "conflict" /\ remote.st \in {"Working", "Deleting"}
                              /\ UNCHANGED <<remote, faults>>
       \/ answer = "error" /\ Fault("arm") /\ UNCHANGED remote
       \/ answer = "lost" /\ Fault("arm") /\ (UNCHANGED remote \/ Accept(has, owner))
    /\ UNCHANGED torn

Discard ==
    /\ ~Absent
    /\ remote' \in {NoResource, [remote EXCEPT !.st = "Deleting"]}

\* DELETE answers likewise; deleting what is not there is "ok" or "notFound".
ArmDelete(owner, answer) ==
    /\ \/ answer = "ok" /\ (Discard \/ (Absent /\ UNCHANGED remote))
                        /\ UNCHANGED faults
       \/ answer = "notFound" /\ Absent /\ UNCHANGED <<remote, faults>>
       \/ answer = "conflict" /\ remote.st \in {"Working", "Deleting"}
                              /\ UNCHANGED <<remote, faults>>
       \/ answer = "error" /\ Fault("arm") /\ UNCHANGED remote
       \/ answer = "lost" /\ Fault("arm") /\ (UNCHANGED remote \/ Discard)
    /\ torn' = owner

\* Azure completes what it accepted ...
ArmFinish ==
    /\ \/ remote.st = "Working" /\ remote' = [remote EXCEPT !.st = "Succeeded"]
       \/ remote.st = "Deleting" /\ remote' = NoResource
    /\ UNCHANGED <<torn, faults>>

\* ... or fails to.
ArmFail ==
    /\ Fault("failedOp")
    /\ remote.st \in {"Working", "Deleting"}
    /\ remote' = [remote EXCEPT !.st = "Failed"]
    /\ UNCHANGED torn

\* Someone else changes the resource, removes it, or makes it anew.
ArmDrift ==
    /\ \/ /\ Fault("drift")
          /\ remote.st = "Succeeded"
          /\ \E h \in Contents \ {remote.has} : remote' = [remote EXCEPT !.has = h]
       \/ /\ Fault("gone")
          /\ ~Absent
          /\ remote' = NoResource
       \/ /\ Fault("drift")
          /\ Absent
          /\ \E h \in Contents : remote' = Foreign(h)
    /\ UNCHANGED torn
=============================================================================
