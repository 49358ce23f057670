-------------------------- MODULE AsyncReconciler --------------------------
(***************************************************************************)
(* controllers.AsyncReconciler.Reconcile with the Ensure or Delete of the  *)
(* client it drives: Azure accepts a PUT or a DELETE and completes it      *)
(* later, so the worker comes back until GET shows that it has.            *)
(***************************************************************************)
EXTENDS Controller, ManagedClients

\* (mutant: the delete path falls through to Ensure)
FetchGuardedAnyway ==
    /\ cached.live /\ cached.fin
    /\ Take(IF Client.first = "get" THEN "ensureGet" ELSE "ensurePut")

FetchGuarded ==
    /\ cached.live /\ ~cached.deleting /\ cached.fin
    /\ Take(IF Client.first = "get" THEN "ensureGet" ELSE "ensurePut")

-----------------------------------------------------------------------------
(* An object being deleted: Az.Delete.                                     *)

Observe(answer) ==
    /\ local' = [local EXCEPT !.status = SetStatus(local.status, answer, remote.st)]
    /\ seen' = CASE answer = "found" -> remote.st
                 [] answer = "notFound" -> "None"
                 [] OTHER -> "Unknown"

AzDelete ==
    /\ pc = "azDelete"
    /\ \E answer \in {"ok", "notFound", "conflict", "error", "lost"} :
          /\ ArmDelete(local.inc, answer)
          /\ IF answer \in Client.tolerated
             THEN pc' = "deleteGet" /\ UNCHANGED res
             ELSE pc' = "deleteStatus" /\ res' = "err"
    /\ Calling
    /\ UNCHANGED <<local, seen>>

\* (mutants: an error of GET passes for a resource that is gone; the error of what
\* comes after it is dropped)
DeleteGetLenient ==
    /\ pc = "deleteGet"
    /\ \E answer \in {"found", "notFound", "error"} :
          /\ ArmGet(answer)
          /\ Observe(answer)
          /\ res' = IF answer = "found" THEN "found" ELSE "gone"
    /\ pc' = "deleteStatus"
    /\ Calling

DeleteGetUncleaned ==
    /\ pc = "deleteGet"
    /\ \E answer \in {"found", "notFound", "error"} :
          /\ ArmGet(answer)
          /\ Observe(answer)
          /\ res' = CASE answer = "found" -> "found"
                      [] answer = "notFound" -> "gone"
                      [] OTHER -> "err"
    /\ pc' = "deleteStatus"
    /\ Calling

DeleteGet ==
    /\ pc = "deleteGet"
    /\ \E answer \in {"found", "notFound", "error"} :
          /\ ArmGet(answer)
          /\ Observe(answer)
          /\ res' = CASE answer = "found" -> "found"
                      [] answer = "notFound" /\ Client.cleanup -> "gone"
                      [] OTHER -> "err"
    /\ pc' = "deleteStatus"
    /\ Calling

-----------------------------------------------------------------------------
(* An object with our finalizer: Az.Ensure.                                *)

EnsureGet ==
    /\ pc = "ensureGet"
    /\ \E answer \in {"found", "notFound", "error"} :
          /\ ArmGet(answer)
          /\ Observe(answer)
          /\ LET Sends == \/ answer = "notFound"
                          \/ /\ answer = "found"
                             /\ Done(local'.status)
                             /\ NeedsUpdate(remote.has, local.items)
             IN  /\ pc' = IF Sends THEN "ensurePut" ELSE "ensureStatus"
                 /\ draft' = IF Sends THEN Build(remote.has, local.items) ELSE draft
          /\ res' = CASE answer = "error" -> "err"
                      [] answer = "found" /\ Done(local'.status) -> "done"
                      [] OTHER -> "more"
    /\ UNCHANGED clusterVars

\* The clients that look first return (false, err).  The others forgive a
\* conflict and a missing response, and read the resource after a PUT.
EnsurePut ==
    /\ pc = "ensurePut"
    /\ \E answer \in {"ok", "conflict", "error", "lost"} :
          /\ ArmPut(draft, local.inc, answer)
          /\ IF Client.first = "get"
             THEN res' = (IF answer = "ok" THEN "more" ELSE "err")
             ELSE res' = (IF answer = "error" THEN "err" ELSE "more")
          /\ pc' = IF Client.first = "put" /\ answer = "ok"
                   THEN "ensureRead" ELSE "ensureStatus"
    /\ Calling
    /\ UNCHANGED <<local, seen>>

EnsureRead ==
    /\ pc = "ensureRead"
    /\ \E answer \in {"found", "notFound", "error"} :
          /\ ArmGet(answer)
          /\ Observe(answer)
          /\ res' = CASE answer = "error" -> "err"
                      [] answer # "error" /\ Done(local'.status) -> "done"
                      [] OTHER -> "more"
    /\ pc' = "ensureStatus"
    /\ Calling

-----------------------------------------------------------------------------
Worker ==
    \/ Common \/ FetchGuarded
    \/ AzDelete \/ DeleteGet
    \/ EnsureGet \/ EnsurePut \/ EnsureRead

Next == Worker \/ Environment

Spec == Init /\ [][Next]_vars

\* The controller's goroutine runs whenever it has work, the watch goes on,
\* and Azure completes every operation; users, faults and crashes owe nothing.
FairSpec ==
    /\ Spec
    /\ WF_vars(Worker)
    /\ WF_vars(Deliver /\ UNCHANGED <<armVars, workerVars>>)
    /\ WF_vars(Azure)

-----------------------------------------------------------------------------
(* Properties.                                                             *)

\* Ensure returns done only when the resource exists, is provisioned and
\* contains what the reconciled spec asks for (unless someone else changed it
\* behind the controller's back since it looked).
DoneMeansProvisioned ==
    pc = "ensureStatus" /\ res = "done" /\ Alone =>
        remote.st = "Succeeded" /\ remote.has = local.items

\* SetStatus: the status about to be written is what the last GET showed.
StatusReflectsAzure ==
    pc \in {"ensureStatus", "deleteStatus"} /\ seen # "Unknown" =>
        local.status = seen

\* While there is more to remove than the resource itself and it cannot be, the
\* object stays: no reconcile, crash or lost answer lets it go half cleaned up
\* (vms.go:141: the machine has gone, its disk is deleted last).
CleanupHolds ==
    [][api.live /\ api.fin /\ ~(api'.live /\ api'.fin) => Client.cleanup]_vars
=============================================================================
