------------------------------- MODULE Tinker -------------------------------
(***************************************************************************)
(* The command line tool, cmd/ensure/ensure.go: one task per manifest, a   *)
(* pool that runs a few tasks at once, each task calling its client again  *)
(* and again with exponential back-off until it is done or out of          *)
(* attempts, and an exit status that stands for all of them.  Tasks meet   *)
(* in Azure: a resource cannot be made before what it needs is there, nor  *)
(* removed while something that needs it is.                               *)
(***************************************************************************)
EXTENDS Naturals, FiniteSets

CONSTANTS
    Tasks,      \* the manifests there are
    KindOf,     \* the kind of each
    Needs,      \* the manifests each one's resource lies in or refers to
    Files,      \* the files of manifests each command may be given
    Limit,      \* how many tasks run at once
    Attempts,   \* how often a task calls its client (wait.Backoff.Steps)
    Faults,     \* the faults that may happen to each: "arm", "kube", "failedOp"
    MaxFaults   \* bound: how many faults happen in a behaviour

\* What the two switch statements and the client make of a kind: how it is
\* ensured and deleted, whether an error reaches the caller of the switch (it
\* does not where "client, err :=" declares another err), whether Ensure says
\* done when GET fails, whether any state counts as done, whether Delete
\* forgives a conflict, and whether Azure deletes what lies in the resource.
VirtualNetwork == [ensure |-> "async", delete |-> "async", reports |-> TRUE,
                   doneOnError |-> FALSE, doneEarly |-> FALSE,
                   tolerant |-> TRUE, cascades |-> FALSE]
ResourceGroup == [VirtualNetwork EXCEPT !.cascades = TRUE]
NetworkInterface == [VirtualNetwork EXCEPT !.tolerant = FALSE]
Subnet == [NetworkInterface EXCEPT !.doneOnError = TRUE]
LoadBalancer == [NetworkInterface EXCEPT !.doneEarly = TRUE]
Keyvault == [NetworkInterface EXCEPT !.ensure = "sync", !.delete = "sync"]
Secret == [Keyvault EXCEPT !.reports = FALSE]
TrafficManager == [NetworkInterface EXCEPT !.ensure = "monitored", !.delete = "none"]
PublicIP == [NetworkInterface EXCEPT !.ensure = "none", !.delete = "none"]

Kinds ==
    [VirtualNetwork |-> VirtualNetwork, ResourceGroup |-> ResourceGroup,
     NetworkInterface |-> NetworkInterface, Subnet |-> Subnet,
     LoadBalancer |-> LoadBalancer, Keyvault |-> Keyvault, Secret |-> Secret,
     TrafficManager |-> TrafficManager, PublicIP |-> PublicIP]

ASSUME TinkerAssumption ==
    /\ DOMAIN Files = {"ensure", "delete"} /\ DOMAIN Faults = DOMAIN Files
    /\ \A c \in DOMAIN Files : Files[c] \subseteq SUBSET Tasks
    /\ KindOf \in [Tasks -> DOMAIN Kinds]
    /\ Needs \in [Tasks -> SUBSET Tasks]
    /\ Limit \in Nat \ {0}
    /\ Attempts \in Nat \ {0}
    /\ MaxFaults \in Nat

VARIABLES
    command,    \* "ensure" or "delete"
    file,       \* the manifests it was given,
    clear,      \* and whether all of their kinds are known to the decoder
    remote,     \* the state of each task's resource
    step,       \* the call each task makes next
    tries,      \* how many attempts of it have failed
    err,        \* task.Err # nil
    refused,    \* history: the tasks whose DELETE failed and passed for done
    exit,       \* the tool's exit status
    faults      \* how many faults have happened

argVars == <<command, file, clear>>
taskVars == <<step, tries, err, refused>>
vars == <<argVars, remote, taskVars, exit, faults>>

Kind(t) == Kinds[KindOf[t]]
Handler(t) == IF command = "ensure" THEN Kind(t).ensure ELSE Kind(t).delete

States == {"Absent", "Working", "Succeeded", "Failed", "Deleting"}

\* The variables have their types, and no task exceeds its attempts
\* (ensure.go:578-586).
TinkerTypeOK ==
    /\ command \in DOMAIN Files /\ file \in Files[command] /\ clear \in BOOLEAN
    /\ remote \in [Tasks -> States]
    /\ step \in [Tasks -> {"waiting", "look", "send", "ended"}]
    /\ tries \in [Tasks -> 0..(Attempts - 1)]
    /\ err \in [Tasks -> BOOLEAN] /\ refused \subseteq Tasks
    /\ exit \in {"reading", "running", "success", "failure"}
    /\ faults \in 0..MaxFaults

\* Whatever is there already is as the manifests ask.
Init ==
    /\ command \in DOMAIN Files
    /\ file \in Files[command]
    /\ clear \in BOOLEAN
    /\ remote \in [Tasks -> {"Absent", "Succeeded"}]
    /\ step = [t \in Tasks |-> "waiting"]
    /\ tries = [t \in Tasks |-> 0]
    /\ err = [t \in Tasks |-> FALSE] /\ refused = {}
    /\ exit = "reading"
    /\ faults = 0

Fault(kind) ==
    /\ kind \in Faults[command]
    /\ faults < MaxFaults
    /\ faults' = faults + 1

-----------------------------------------------------------------------------
(* Reading the file, and a task's life.                                    *)

\* (mutant: a document nobody knows is skipped)
ReadSkipping ==
    /\ exit = "reading"
    /\ exit' = "running"
    /\ UNCHANGED <<argVars, remote, taskVars, faults>>

\* One document that cannot be decoded ends the tool before it has done a thing:
\* the test for unknown kinds, made to skip them, comes after the return.
Read ==
    /\ exit = "reading"
    /\ exit' = IF clear THEN "running" ELSE "failure"
    /\ UNCHANGED <<argVars, remote, taskVars, faults>>

First(t) ==
    IF command = "ensure" /\ Handler(t) = "async" THEN "look" ELSE "send"

End(t, failed) ==
    /\ step' = [step EXCEPT ![t] = "ended"]
    /\ err' = [err EXCEPT ![t] = failed /\ Kind(t).reports]
    /\ UNCHANGED <<tries, exit>>

GoOn(t, next) == step' = [step EXCEPT ![t] = next] /\ UNCHANGED <<tries, err, exit>>

\* (mutants: running out of attempts is no error; it comes one attempt late;
\* it does not happen)
AttemptedQuietly(t, done) ==
    IF done \/ tries[t] + 1 = Attempts
    THEN End(t, FALSE)
    ELSE /\ tries' = [tries EXCEPT ![t] = @ + 1]
         /\ step' = [step EXCEPT ![t] = First(t)]
         /\ UNCHANGED <<err, exit>>

AttemptedOnceMore(t, done) ==
    \/ done /\ End(t, FALSE)
    \/ ~done /\ tries[t] = Attempts /\ End(t, TRUE)
    \/ /\ ~done /\ tries[t] # Attempts
       /\ tries' = [tries EXCEPT ![t] = @ + 1]
       /\ step' = [step EXCEPT ![t] = First(t)]
       /\ UNCHANGED <<err, exit>>

AttemptedForEver(t, done) ==
    IF done THEN End(t, FALSE) ELSE GoOn(t, First(t))

\* The back-off's condition returned (done, nil): stop, or wait and call
\* again, or give up with ErrWaitTimeout.
Attempted(t, done) ==
    \/ done /\ End(t, FALSE)
    \/ ~done /\ tries[t] + 1 = Attempts /\ End(t, TRUE)
    \/ /\ ~done /\ tries[t] + 1 # Attempts
       /\ tries' = [tries EXCEPT ![t] = @ + 1]
       /\ step' = [step EXCEPT ![t] = First(t)]
       /\ UNCHANGED <<err, exit>>

Running == {t \in Tasks : step[t] \in {"look", "send"}}

\* The pool starts a task: it builds a Kubernetes client, whatever its kind.
Begin(t) ==
    /\ exit = "running" /\ t \in file
    /\ step[t] = "waiting"
    /\ Cardinality(Running) < Limit
    /\ \/ Handler(t) # "none" /\ GoOn(t, First(t)) /\ UNCHANGED faults
       \/ Handler(t) = "none" /\ End(t, FALSE) /\ UNCHANGED faults
       \/ Fault("kube")
          /\ step' = [step EXCEPT ![t] = "ended"]
          /\ err' = [err EXCEPT ![t] = TRUE]
          /\ UNCHANGED <<tries, exit>>
    /\ UNCHANGED remote

-----------------------------------------------------------------------------
(* Ensure.                                                                 *)

Ready(t) == \A u \in Needs[t] : remote[u] = "Succeeded"

DoneState(t) ==
    remote[t] = "Succeeded" \/ (Kind(t).doneEarly /\ remote[t] # "Absent")

EnsureLook(t) ==
    /\ step[t] = "look" /\ Handler(t) = "async"
    /\ \/ remote[t] # "Absent" /\ Attempted(t, DoneState(t)) /\ UNCHANGED faults
       \/ remote[t] = "Absent" /\ GoOn(t, "send") /\ UNCHANGED faults
       \/ Fault("arm") /\ Attempted(t, Kind(t).doneOnError)
    /\ UNCHANGED remote

Put(t) ==
    /\ Ready(t)
    /\ remote[t] # "Deleting"
    /\ \E s \in IF Handler(t) = "sync" THEN {"Succeeded"} ELSE {"Working", "Succeeded"} :
          remote' = [remote EXCEPT ![t] = s]

\* What a task does after its PUT: an asynchronous one ignores the error it
\* may have got, a monitored one returns it, a synchronous one tries again.
AfterPut(t, ok) ==
    \/ Handler(t) = "async" /\ Attempted(t, FALSE)
    \/ Handler(t) = "sync" /\ Attempted(t, ok)
    \/ Handler(t) = "monitored" /\ ok /\ GoOn(t, "look")
    \/ Handler(t) = "monitored" /\ ~ok /\ End(t, TRUE)

EnsureSend(t) ==
    /\ step[t] = "send"
    /\ \/ Put(t) /\ AfterPut(t, TRUE) /\ UNCHANGED faults
       \/ ~Ready(t) /\ AfterPut(t, FALSE) /\ UNCHANGED <<remote, faults>>
       \/ remote[t] = "Working" /\ AfterPut(t, FALSE) /\ UNCHANGED <<remote, faults>>
       \/ Fault("arm") /\ AfterPut(t, FALSE) /\ (UNCHANGED remote \/ Put(t))

\* A traffic manager is done when its monitor says so; an error ends the task.
EnsureMonitor(t) ==
    /\ step[t] = "look" /\ Handler(t) = "monitored"
    /\ \/ remote[t] # "Absent" /\ Attempted(t, remote[t] = "Succeeded")
                               /\ UNCHANGED faults
       \/ remote[t] = "Absent" /\ End(t, TRUE) /\ UNCHANGED faults
       \/ Fault("arm") /\ End(t, TRUE)
    /\ UNCHANGED remote

-----------------------------------------------------------------------------
(* Delete.                                                                 *)

Inside(t) == {u \in Tasks : t \in Needs[u]}
InUse(t) == ~Kind(t).cascades /\ \E u \in Inside(t) : remote[u] # "Absent"

Removed(t) ==
    [u \in Tasks |->
        IF u = t \/ (Kind(t).cascades /\ u \in Inside(t)) THEN "Absent" ELSE remote[u]]

Discard(t) ==
    /\ remote[t] # "Absent"
    /\ ~InUse(t)
    /\ remote' \in {Removed(t)} \cup
          (IF Handler(t) = "async" THEN {[remote EXCEPT ![t] = "Deleting"]} ELSE {})

\* (mutant: the client does not look whether the resource has gone)
AfterDeleteBlind(t, answer) == Attempted(t, TRUE) /\ UNCHANGED refused

\* An asynchronous Delete goes on to look, or returns (false, err), which is
\* "not found" to its caller; a synchronous one is done unless it failed.
AfterDelete(t, answer) ==
    LET Forgiven == answer \in {"ok", "notFound", "lost"}
                    \/ (answer = "conflict" /\ Kind(t).tolerant)
    IN  \/ /\ Handler(t) = "async" /\ Forgiven
           /\ GoOn(t, "look") /\ UNCHANGED refused
        \/ /\ Handler(t) = "async" /\ ~Forgiven
           /\ Attempted(t, TRUE) /\ refused' = refused \cup {t}
        \/ /\ Handler(t) = "sync"
           /\ Attempted(t, answer \in {"ok", "notFound"}) /\ UNCHANGED refused

DeleteSend(t) ==
    /\ step[t] = "send"
    /\ \/ Discard(t) /\ AfterDelete(t, "ok") /\ UNCHANGED faults
       \/ remote[t] = "Absent" /\ AfterDelete(t, "notFound") /\ UNCHANGED <<remote, faults>>
       \/ remote[t] \in {"Working", "Deleting"} /\ AfterDelete(t, "conflict")
                                                /\ UNCHANGED <<remote, faults>>
       \/ InUse(t) /\ AfterDelete(t, "refused") /\ UNCHANGED <<remote, faults>>
       \/ Fault("arm") /\ AfterDelete(t, "refused") /\ UNCHANGED remote
       \/ Fault("arm") /\ AfterDelete(t, "lost") /\ (UNCHANGED remote \/ Discard(t))

DeleteLook(t) ==
    /\ step[t] = "look"
    /\ \/ Attempted(t, remote[t] = "Absent") /\ UNCHANGED faults
       \/ Fault("arm") /\ Attempted(t, FALSE)
    /\ UNCHANGED remote

-----------------------------------------------------------------------------
(* The pool, Azure, and the tool as a whole.                               *)

\* do() looks at every task's error once the pool has run them all.
Exit ==
    /\ exit = "running"
    /\ \A t \in file : step[t] = "ended"
    /\ exit' = IF \E t \in file : err[t] THEN "failure" ELSE "success"
    /\ UNCHANGED <<argVars, remote, taskVars, faults>>

Finish(t) ==
    /\ \/ remote[t] = "Working" /\ remote' = [remote EXCEPT ![t] = "Succeeded"]
                                /\ UNCHANGED faults
       \/ remote[t] = "Deleting" /\ remote' = Removed(t) /\ UNCHANGED faults
       \/ /\ remote[t] \in {"Working", "Deleting"}
          /\ Fault("failedOp")
          /\ remote' = [remote EXCEPT ![t] = "Failed"]
    /\ UNCHANGED <<argVars, taskVars, exit>>

EnsureTask(t) ==
    /\ command = "ensure"
    /\ Begin(t) \/ EnsureLook(t) \/ EnsureSend(t) \/ EnsureMonitor(t)
    /\ UNCHANGED <<argVars, refused>>

DeleteTask(t) ==
    /\ command = "delete"
    /\ \/ (Begin(t) \/ DeleteLook(t)) /\ UNCHANGED refused
       \/ DeleteSend(t)
    /\ UNCHANGED argVars

Tool == Read \/ Exit \/ \E t \in Tasks : EnsureTask(t) \/ DeleteTask(t)

Next == Tool \/ \E t \in Tasks : Finish(t)

Spec == Init /\ [][Next]_vars

\* The tool's goroutines run; nothing is asked of Azure.
FairSpec == Spec /\ WF_vars(Tool)

-----------------------------------------------------------------------------
(* Properties.                                                             *)

Reached(t) == remote[t] = IF command = "ensure" THEN "Succeeded" ELSE "Absent"

\* The tasks that may end well though they have not reached their goal: the kind's
\* case of the switch hides its error (ensure.go:308 and others), or there is none
\* (350 and 422); its Ensure says done when GET fails, or of any state; its Delete
\* returned (false, err), which DeleteAsync reads as "not found" (ensure.go:524).
Misled(t) ==
    \/ ~Kind(t).reports
    \/ Handler(t) = "none"
    \/ command = "ensure" /\ (Kind(t).doneOnError \/ Kind(t).doneEarly)
    \/ t \in refused

\* The tool exits with success only when it understood the whole file and every
\* resource of it is as the command asks (ensure.go:84 and 104, do() at 250-265),
\* but for the tasks that were misled: no other failure, no task that has only been
\* started, and no document that was passed over counts as a success, and what a
\* task has reached, none of the others takes back.
SuccessMeansReached ==
    exit = "success" => clear /\ \A t \in file : Reached(t) \/ Misled(t)

\* The tool exits whatever Azure does: tasks that wait for what another task
\* makes, while the pool is full, run out of attempts in the end
\* (ensure.go:245-248 and 578-586).
Exits == <>(exit \in {"success", "failure"})
=============================================================================
