--------------------------- MODULE SyncReconciler ---------------------------
(***************************************************************************)
(* controllers.SyncReconciler.Reconcile with the Ensure or Delete of the   *)
(* client it drives, and TrafficManagerReconciler, its like: Azure has     *)
(* made or removed the resource when it answers a PUT or a DELETE, so the  *)
(* finalizer goes as soon as Delete has returned, and an object is not     *)
(* looked at again once Ensure has.  The status is whether Status.ID is    *)
(* set: "Succeeded" if it is, "None" if not.                               *)
(***************************************************************************)
EXTENDS Controller

CONSTANT Kind       \* the custom resource's kind

\* What tells one client from another: the first call of Ensure; is a
\* resource that is there sent again; the answers to DELETE that Delete
\* forgives; does Ensure read the resource it has sent; and does it have to be
\* online before Ensure is done?
Keyvault == [first |-> "put", updates |-> TRUE, tolerated |-> {"ok", "notFound"},
             reads |-> TRUE, monitored |-> FALSE]

Identity == [Keyvault EXCEPT !.first = "get", !.updates = FALSE, !.reads = FALSE]

\* The error of DELETE is dropped.
SQLFirewallRule == [Identity EXCEPT
    !.updates = TRUE, !.tolerated = {"ok", "notFound", "error", "lost"}]

TrafficManager == [Keyvault EXCEPT !.tolerated = {"ok"}, !.monitored = TRUE]

Clients ==
    [Keyvault |-> Keyvault, Identity |-> Identity, SQLFirewallRule |-> SQLFirewallRule,
     TrafficManager |-> TrafficManager]

ASSUME SyncAssumption == Kind \in DOMAIN Clients

Client == Clients[Kind]

\* Azure does what it is asked before it answers.
AtOnce == remote'.st \in {"Absent", "Succeeded"}

FetchGuarded ==
    /\ cached.live /\ ~cached.deleting /\ cached.fin
    /\ Take(IF Client.first = "get" THEN "ensureGet" ELSE "ensurePut")

-----------------------------------------------------------------------------
(* Az.Delete and Az.Ensure.                                                *)

\* (mutant: a conflict or an error passes for success)
AzDeleteUnchecked ==
    /\ pc = "azDelete"
    /\ \E answer \in {"ok", "notFound", "error", "lost"} :
          ArmDelete(local.inc, answer) /\ AtOnce
    /\ res' = "gone"
    /\ pc' = "deleteStatus"
    /\ Calling
    /\ UNCHANGED <<local, seen>>

AzDelete ==
    /\ pc = "azDelete"
    /\ \E answer \in {"ok", "notFound", "error", "lost"} :
          /\ ArmDelete(local.inc, answer)
          /\ AtOnce
          /\ res' = IF answer \in Client.tolerated THEN "gone" ELSE "err"
    /\ pc' = "deleteStatus"
    /\ Calling
    /\ UNCHANGED <<local, seen>>

\* Status.ID is that of the response, nil when there is none to read.
Observe(answer) ==
    /\ local' = [local EXCEPT !.status = IF answer = "found" THEN "Succeeded" ELSE "None"]
    /\ seen' = CASE answer = "found" -> "Succeeded"
                 [] answer = "notFound" -> "None"
                 [] OTHER -> "Unknown"

EnsureGet ==
    /\ pc = "ensureGet"
    /\ \E answer \in {"found", "notFound", "error"} :
          /\ ArmGet(answer)
          /\ Observe(answer)
          /\ pc' = IF answer = "notFound" \/ (answer = "found" /\ Client.updates)
                   THEN "ensurePut" ELSE "ensureStatus"
          /\ res' = IF answer = "error" THEN "err" ELSE "done"
    /\ Calling

\* (mutant: the error of PUT is dropped)
EnsurePutUnchecked ==
    /\ pc = "ensurePut"
    /\ \E answer \in {"ok", "error", "lost"} :
          ArmPut(draft, local.inc, answer) /\ AtOnce
    /\ res' = "done"
    /\ pc' = "ensureStatus"
    /\ Calling
    /\ UNCHANGED <<local, seen>>

EnsurePut ==
    /\ pc = "ensurePut"
    /\ \E answer \in {"ok", "error", "lost"} :
          /\ ArmPut(draft, local.inc, answer)
          /\ AtOnce
          /\ res' = IF answer = "ok" THEN "done" ELSE "err"
          /\ pc' = IF answer = "ok" /\ Client.reads THEN "ensureRead" ELSE "ensureStatus"
    /\ Calling
    /\ UNCHANGED <<local, seen>>

\* A vault that is not found is an error too; a traffic manager keeps its ID
\* when the answer is an error, and is done if its endpoints are online.
EnsureRead ==
    /\ pc = "ensureRead"
    /\ \E answer \in {"found", "notFound", "error"} :
          /\ ArmGet(answer)
          /\ IF Client.monitored /\ answer = "error"
             THEN UNCHANGED <<local, seen>>
             ELSE Observe(answer)
          /\ res' \in CASE answer = "found" /\ ~Client.monitored -> {"done"}
                        [] answer # "error" /\ Client.monitored -> {"done", "more"}
                        [] OTHER -> {"err"}
    /\ pc' = "ensureStatus"
    /\ Calling

-----------------------------------------------------------------------------
Worker ==
    \/ Common \/ FetchGuarded
    \/ AzDelete
    \/ EnsureGet \/ EnsurePut \/ EnsureRead

Next == Worker \/ Environment

Spec == Init /\ [][Next]_vars

\* The controller's goroutine runs whenever it has work, and the watch goes
\* on; users, faults, crashes and the resync owe nothing.
FairSpec ==
    /\ Spec
    /\ WF_vars(Worker)
    /\ WF_vars(Deliver /\ UNCHANGED <<armVars, workerVars>>)
=============================================================================
