--------------------------- MODULE Tinker_proofs ---------------------------
(***************************************************************************)
(* Proofs about Tinker, for any files, kinds, limits and faults: its       *)
(* variables have their types; the tool exits with success only if every   *)
(* resource of the file is as it should be or its task was misled in one   *)
(* of the ways that Misled names; and the calls it makes run out.  The     *)
(* invariant behind the second: a task that has ended without an error has *)
(* reached its goal or was misled, and nothing later takes that back.      *)
(***************************************************************************)
EXTENDS Tinker, TLAPS

Steps == {"waiting", "look", "send", "ended"}

TaskTypes ==
    /\ step \in [Tasks -> Steps]
    /\ tries \in [Tasks -> 0..(Attempts - 1)]
    /\ err \in [Tasks -> BOOLEAN]

\* What each step of a task comes down to: the others' state is as it was, and
\* if this one ends without an error then ok holds.
Advance(t, ok) ==
    /\ TaskTypes'
    /\ exit' = exit
    /\ \A u \in Tasks \ {t} : step'[u] = step[u] /\ err'[u] = err[u]
    /\ step'[t] = "ended" /\ ~err'[t] => ok

\* End leaves the types, and its argument says whether the task failed: the error
\* is lost only where the kind's case of the switch hides it.
LEMMA EndAdvances ==
    ASSUME TaskTypes, NEW t \in Tasks, NEW failed \in BOOLEAN, End(t, failed)
    PROVE  Advance(t, ~(failed /\ Kind(t).reports))
BY DEF TaskTypes, Steps, End, Advance

LEMMA GoOnAdvances ==
    ASSUME TaskTypes, NEW t \in Tasks, NEW next \in Steps \ {"ended"}, GoOn(t, next)
    PROVE  Advance(t, FALSE)
BY DEF TaskTypes, Steps, GoOn, Advance

LEMMA FirstIsAStep == \A t : First(t) \in {"look", "send"}
BY DEF First

\* An attempt ends its task only when it is done or the task is out of attempts.
LEMMA AttemptedAdvances ==
    ASSUME TaskTypes, NEW t \in Tasks, NEW done, Attempted(t, done)
    PROVE  Advance(t, done \/ ~Kind(t).reports)
<1>1. CASE done
  <2>1. End(t, FALSE)
    BY <1>1 DEF Attempted
  <2>2. QED
    BY <2>1, <1>1, EndAdvances DEF Advance
<1>2. CASE ~done /\ tries[t] + 1 = Attempts
  <2>1. End(t, TRUE)
    BY <1>2 DEF Attempted
  <2>2. QED
    BY <2>1, EndAdvances DEF Advance
<1>3. CASE ~done /\ tries[t] + 1 # Attempts
  <2>1. /\ tries' = [tries EXCEPT ![t] = @ + 1]
        /\ step' = [step EXCEPT ![t] = First(t)]
        /\ UNCHANGED <<err, exit>>
    BY <1>3 DEF Attempted
  <2>2. tries[t] + 1 \in 0..(Attempts - 1)
    BY <1>3, TinkerAssumption DEF TaskTypes
  <2>3. QED
    BY <2>1, <2>2, FirstIsAStep DEF TaskTypes, Steps, Advance
<1>4. QED
  BY <1>1, <1>2, <1>3

LEMMA AfterPutAdvances ==
    ASSUME TaskTypes, NEW t \in Tasks, NEW ok \in BOOLEAN, AfterPut(t, ok)
    PROVE  Advance(t, (ok /\ Handler(t) = "sync") \/ ~Kind(t).reports)
<1>1. CASE Handler(t) = "async" /\ Attempted(t, FALSE)
  BY <1>1, AttemptedAdvances DEF Advance
<1>2. CASE Handler(t) = "sync" /\ Attempted(t, ok)
  BY <1>2, AttemptedAdvances DEF Advance
<1>3. CASE Handler(t) = "monitored" /\ ok /\ GoOn(t, "look")
  BY <1>3, GoOnAdvances DEF Advance, Steps
<1>4. CASE Handler(t) = "monitored" /\ ~ok /\ End(t, TRUE)
  BY <1>4, EndAdvances DEF Advance
<1>5. QED
  BY <1>1, <1>2, <1>3, <1>4 DEF AfterPut

-----------------------------------------------------------------------------
(* What a step of a task does to everything else.                          *)

\* What an end without an error may stand for.
Accounted(t) == Reached(t) \/ Misled(t)

\* A task that has not ended acts on its own resource; delete may take what lies
\* in it along.  If it ends without an error, the resource is where it should be,
\* or the task was misled.
Effect(t) ==
    /\ Advance(t, Accounted(t)')
    /\ step[t] # "ended"
    /\ refused \subseteq refused' /\ refused' \subseteq Tasks
    /\ remote' \in [Tasks -> States]
    /\ \A u \in Tasks \ {t} :
          remote'[u] = remote[u] \/ (command = "delete" /\ remote'[u] = "Absent")
    /\ command = "ensure" => remote'[t] \in {remote[t], "Working", "Succeeded"}
    /\ faults' \in 0..MaxFaults
    /\ UNCHANGED argVars

LEMMA FaultCounts ==
    ASSUME faults \in 0..MaxFaults, NEW kind, Fault(kind)
    PROVE  faults' \in 0..MaxFaults
BY TinkerAssumption DEF Fault

LEMMA TypeParts ==
    ASSUME TinkerTypeOK
    PROVE  TaskTypes /\ remote \in [Tasks -> States] /\ faults \in 0..MaxFaults
           /\ command \in {"ensure", "delete"} /\ refused \subseteq Tasks
BY TinkerAssumption DEF TinkerTypeOK, TaskTypes, Steps

\* A task that was misled stays so: kinds do not change, and who was refused once
\* remains among the refused.
LEMMA MisledStays ==
    ASSUME UNCHANGED argVars, refused \subseteq refused', NEW t, Misled(t)
    PROVE  Misled(t)'
BY DEF Misled, Handler, Kind, argVars

\* Starting a task ends it only where the switch has no case for its kind, or with
\* an error.
LEMMA BeginEffect ==
    ASSUME TinkerTypeOK, NEW t \in Tasks, Begin(t), UNCHANGED <<argVars, refused>>
    PROVE  Effect(t)
<1>0. TaskTypes /\ remote \in [Tasks -> States] /\ faults \in 0..MaxFaults
      /\ command \in {"ensure", "delete"} /\ refused \subseteq Tasks
  BY TypeParts
<1>1. step[t] = "waiting" /\ remote' = remote
  BY DEF Begin
<1>2. CASE Handler(t) # "none" /\ GoOn(t, First(t)) /\ UNCHANGED faults
  <2>1. Advance(t, FALSE)
    BY <1>0, <1>2, GoOnAdvances, FirstIsAStep DEF Steps
  <2>2. QED
    BY <2>1, <1>0, <1>1, <1>2 DEF Effect, Advance
<1>3. CASE Handler(t) = "none" /\ End(t, FALSE) /\ UNCHANGED faults
  <2>1. Advance(t, TRUE)
    BY <1>0, <1>3, EndAdvances DEF Advance
  <2>2. Accounted(t)'
    BY <1>3 DEF Accounted, Misled, Handler, Kind, argVars
  <2>3. QED
    BY <2>1, <2>2, <1>0, <1>1, <1>3 DEF Effect, Advance
<1>4. CASE /\ Fault("kube")
           /\ step' = [step EXCEPT ![t] = "ended"]
           /\ err' = [err EXCEPT ![t] = TRUE]
           /\ UNCHANGED <<tries, exit>>
  <2>1. Advance(t, FALSE)
    BY <1>0, <1>4 DEF Advance, TaskTypes, Steps
  <2>2. QED
    BY <2>1, <1>0, <1>1, <1>4, FaultCounts DEF Effect, Advance
<1>5. QED
  BY <1>2, <1>3, <1>4 DEF Begin

LEMMA EnsureLookEffect ==
    ASSUME TinkerTypeOK, NEW t \in Tasks, command = "ensure", EnsureLook(t),
           UNCHANGED <<argVars, refused>>
    PROVE  Effect(t)
<1>0. TaskTypes /\ remote \in [Tasks -> States] /\ faults \in 0..MaxFaults
      /\ refused \subseteq Tasks
  BY TypeParts
<1>1. step[t] = "look" /\ remote' = remote /\ command' = "ensure"
  BY DEF EnsureLook, argVars
<1>2. CASE remote[t] # "Absent" /\ Attempted(t, DoneState(t)) /\ UNCHANGED faults
  <2>1. DoneState(t) \in BOOLEAN
    BY DEF DoneState
  <2>2. Advance(t, DoneState(t) \/ ~Kind(t).reports)
    BY <2>1, <1>0, <1>2, AttemptedAdvances
  <2>3. DoneState(t) \/ ~Kind(t).reports => Accounted(t)'
    BY <1>1 DEF DoneState, Accounted, Reached, Misled, Kind, Handler
  <2>4. QED
    BY <2>2, <2>3, <1>0, <1>1, <1>2 DEF Effect, Advance
<1>3. CASE remote[t] = "Absent" /\ GoOn(t, "send") /\ UNCHANGED faults
  <2>1. Advance(t, FALSE)
    BY <1>0, <1>3, GoOnAdvances DEF Steps
  <2>2. QED
    BY <2>1, <1>0, <1>1, <1>3 DEF Effect, Advance
<1>4. CASE Fault("arm") /\ Attempted(t, Kind(t).doneOnError)
  <2>1. Advance(t, Kind(t).doneOnError \/ ~Kind(t).reports)
    BY <1>0, <1>4, AttemptedAdvances
  <2>2. Kind(t).doneOnError \/ ~Kind(t).reports => Accounted(t)'
    BY <1>1 DEF Accounted, Misled, Kind, Handler
  <2>3. QED
    BY <2>1, <2>2, <1>0, <1>1, <1>4, FaultCounts DEF Effect, Advance
<1>5. QED
  BY <1>2, <1>3, <1>4 DEF EnsureLook

\* A synchronous task that ends after its PUT has made the resource succeed.
LEMMA EnsureSendEffect ==
    ASSUME TinkerTypeOK, NEW t \in Tasks, command = "ensure", EnsureSend(t),
           UNCHANGED <<argVars, refused>>
    PROVE  Effect(t)
<1>0. TaskTypes /\ remote \in [Tasks -> States] /\ faults \in 0..MaxFaults
      /\ refused \subseteq Tasks
  BY TypeParts
<1>1. step[t] = "send" /\ command' = "ensure"
  BY DEF EnsureSend, argVars
<1>2. Put(t) =>
        /\ remote' \in [Tasks -> States]
        /\ \A u \in Tasks \ {t} : remote'[u] = remote[u]
        /\ remote'[t] \in {"Working", "Succeeded"}
        /\ Handler(t) = "sync" => remote'[t] = "Succeeded"
  BY <1>0 DEF Put, States
<1>3. CASE Put(t) /\ AfterPut(t, TRUE) /\ UNCHANGED faults
  <2>1. Advance(t, Handler(t) = "sync" \/ ~Kind(t).reports)
    BY <1>0, <1>3, AfterPutAdvances DEF Advance
  <2>2. Handler(t) = "sync" \/ ~Kind(t).reports => Accounted(t)'
    BY <1>1, <1>2, <1>3 DEF Accounted, Reached, Misled, Kind, Handler
  <2>3. QED
    BY <2>1, <2>2, <1>0, <1>1, <1>2, <1>3 DEF Effect, Advance
<1>4. CASE AfterPut(t, FALSE) /\ (Put(t) \/ UNCHANGED remote) /\ faults' \in 0..MaxFaults
  <2>1. Advance(t, ~Kind(t).reports)
    BY <1>0, <1>4, AfterPutAdvances DEF Advance
  <2>2. ~Kind(t).reports => Accounted(t)'
    BY <1>1 DEF Accounted, Misled, Kind, Handler
  <2>3. QED
    BY <2>1, <2>2, <1>0, <1>1, <1>2, <1>4 DEF Effect, Advance
<1>5. QED
  BY <1>0, <1>3, <1>4, FaultCounts DEF EnsureSend

LEMMA EnsureMonitorEffect ==
    ASSUME TinkerTypeOK, NEW t \in Tasks, command = "ensure", EnsureMonitor(t),
           UNCHANGED <<argVars, refused>>
    PROVE  Effect(t)
<1>0. TaskTypes /\ remote \in [Tasks -> States] /\ faults \in 0..MaxFaults
      /\ refused \subseteq Tasks
  BY TypeParts
<1>1. step[t] = "look" /\ remote' = remote /\ command' = "ensure"
  BY DEF EnsureMonitor, argVars
<1>2. CASE Attempted(t, remote[t] = "Succeeded") /\ UNCHANGED faults
  <2>1. Advance(t, remote[t] = "Succeeded" \/ ~Kind(t).reports)
    BY <1>0, <1>2, AttemptedAdvances
  <2>2. remote[t] = "Succeeded" \/ ~Kind(t).reports => Accounted(t)'
    BY <1>1 DEF Accounted, Reached, Misled, Kind, Handler
  <2>3. QED
    BY <2>1, <2>2, <1>0, <1>1, <1>2 DEF Effect, Advance
<1>3. CASE End(t, TRUE) /\ faults' \in 0..MaxFaults
  <2>1. Advance(t, ~Kind(t).reports)
    BY <1>0, <1>3, EndAdvances DEF Advance
  <2>2. ~Kind(t).reports => Accounted(t)'
    BY <1>1 DEF Accounted, Misled, Kind, Handler
  <2>3. QED
    BY <2>1, <2>2, <1>0, <1>1, <1>3 DEF Effect, Advance
<1>4. QED
  BY <1>0, <1>2, <1>3, FaultCounts DEF EnsureMonitor

\* A DELETE that Azure carries out puts away the resource, or at least begins to,
\* and touches nothing but what lies in it.
LEMMA DiscardEffect ==
    ASSUME remote \in [Tasks -> States], NEW t \in Tasks, Discard(t)
    PROVE  /\ remote' \in [Tasks -> States]
           /\ \A u \in Tasks \ {t} : remote'[u] = remote[u] \/ remote'[u] = "Absent"
           /\ Handler(t) # "async" => remote'[t] = "Absent"
<1>1. CASE remote' = Removed(t)
  BY <1>1 DEF Removed, States
<1>2. CASE Handler(t) = "async" /\ remote' = [remote EXCEPT ![t] = "Deleting"]
  BY <1>2 DEF States
<1>3. QED
  BY <1>1, <1>2 DEF Discard

\* A synchronous task is done when its DELETE was answered "ok" or "not found"; an
\* asynchronous one goes on to look, or was misled.
LEMMA AfterDeleteAdvances ==
    ASSUME TaskTypes, refused \subseteq Tasks, UNCHANGED argVars,
           NEW t \in Tasks, NEW answer, AfterDelete(t, answer)
    PROVE  /\ Advance(t, Misled(t)' \/ (Handler(t) = "sync" /\ answer \in {"ok", "notFound"}))
           /\ refused \subseteq refused' /\ refused' \subseteq Tasks
<1> DEFINE Forgiven == answer \in {"ok", "notFound", "lost"}
                       \/ (answer = "conflict" /\ Kind(t).tolerant)
<1>1. CASE Handler(t) = "async" /\ Forgiven /\ GoOn(t, "look") /\ UNCHANGED refused
  BY <1>1, GoOnAdvances DEF Advance, Steps
<1>2. CASE /\ Handler(t) = "async" /\ ~Forgiven
           /\ Attempted(t, TRUE) /\ refused' = refused \cup {t}
  <2>1. Misled(t)'
    BY <1>2 DEF Misled
  <2>2. Advance(t, TRUE)
    BY <1>2, AttemptedAdvances DEF Advance
  <2>3. QED
    BY <2>1, <2>2, <1>2 DEF Advance
<1>3. CASE /\ Handler(t) = "sync"
           /\ Attempted(t, answer \in {"ok", "notFound"}) /\ UNCHANGED refused
  <2>1. Advance(t, answer \in {"ok", "notFound"} \/ ~Kind(t).reports)
    BY <1>3, AttemptedAdvances
  <2>2. ~Kind(t).reports => Misled(t)'
    BY DEF Misled, Kind
  <2>3. QED
    BY <2>1, <2>2, <1>3 DEF Advance
<1>4. QED
  BY <1>1, <1>2, <1>3 DEF AfterDelete

LEMMA DeleteSendEffect ==
    ASSUME TinkerTypeOK, NEW t \in Tasks, command = "delete", DeleteSend(t),
           UNCHANGED argVars
    PROVE  Effect(t)
<1>0. TaskTypes /\ remote \in [Tasks -> States] /\ faults \in 0..MaxFaults
      /\ refused \subseteq Tasks
  BY TypeParts
<1>1. step[t] = "send" /\ command' = "delete" /\ Handler(t) = Kind(t).delete
  BY DEF DeleteSend, argVars, Handler
<1>2. CASE Discard(t) /\ AfterDelete(t, "ok") /\ UNCHANGED faults
  <2>1. /\ Advance(t, Misled(t)' \/ Handler(t) = "sync")
        /\ refused \subseteq refused' /\ refused' \subseteq Tasks
    BY <1>0, <1>2, AfterDeleteAdvances DEF Advance
  <2>2. Misled(t)' \/ Handler(t) = "sync" => Accounted(t)'
    BY <1>0, <1>1, <1>2, DiscardEffect DEF Accounted, Reached
  <2>3. QED
    BY <2>1, <2>2, <1>0, <1>1, <1>2, DiscardEffect DEF Effect, Advance
<1>3. CASE remote[t] = "Absent" /\ AfterDelete(t, "notFound") /\ UNCHANGED <<remote, faults>>
  <2>1. Accounted(t)'
    BY <1>1, <1>3 DEF Accounted, Reached
  <2>2. Advance(t, TRUE) /\ refused \subseteq refused' /\ refused' \subseteq Tasks
    BY <1>0, <1>3, AfterDeleteAdvances DEF Advance
  <2>3. QED
    BY <2>1, <2>2, <1>0, <1>1, <1>3 DEF Effect, Advance
<1>4. ASSUME NEW answer \in {"conflict", "refused", "lost"}, AfterDelete(t, answer),
             UNCHANGED remote \/ Discard(t), faults' \in 0..MaxFaults
      PROVE  Effect(t)
  <2>1. /\ Advance(t, Misled(t)')
        /\ refused \subseteq refused' /\ refused' \subseteq Tasks
    BY <1>0, <1>4, AfterDeleteAdvances DEF Advance
  <2>2. Misled(t)' => Accounted(t)'
    BY DEF Accounted
  <2>3. QED
    BY <2>1, <2>2, <1>0, <1>1, <1>4, DiscardEffect DEF Effect, Advance
<1>5. QED
  BY <1>0, <1>2, <1>3, <1>4, FaultCounts DEF DeleteSend

LEMMA DeleteLookEffect ==
    ASSUME TinkerTypeOK, NEW t \in Tasks, command = "delete", DeleteLook(t),
           UNCHANGED <<argVars, refused>>
    PROVE  Effect(t)
<1>0. TaskTypes /\ remote \in [Tasks -> States] /\ faults \in 0..MaxFaults
      /\ refused \subseteq Tasks
  BY TypeParts
<1>1. step[t] = "look" /\ remote' = remote /\ command' = "delete"
  BY DEF DeleteLook, argVars
<1>2. CASE Attempted(t, remote[t] = "Absent") /\ UNCHANGED faults
  <2>1. Advance(t, remote[t] = "Absent" \/ ~Kind(t).reports)
    BY <1>0, <1>2, AttemptedAdvances
  <2>2. remote[t] = "Absent" \/ ~Kind(t).reports => Accounted(t)'
    BY <1>1 DEF Accounted, Reached, Misled, Kind, Handler
  <2>3. QED
    BY <2>1, <2>2, <1>0, <1>1, <1>2 DEF Effect, Advance
<1>3. CASE Fault("arm") /\ Attempted(t, FALSE)
  <2>1. Advance(t, ~Kind(t).reports)
    BY <1>0, <1>3, AttemptedAdvances DEF Advance
  <2>2. ~Kind(t).reports => Accounted(t)'
    BY <1>1 DEF Accounted, Misled, Kind, Handler
  <2>3. QED
    BY <2>1, <2>2, <1>0, <1>1, <1>3, FaultCounts DEF Effect, Advance
<1>4. QED
  BY <1>2, <1>3 DEF DeleteLook

LEMMA TaskEffect ==
    ASSUME TinkerTypeOK, NEW t \in Tasks, EnsureTask(t) \/ DeleteTask(t)
    PROVE  Effect(t)
BY BeginEffect, EnsureLookEffect, EnsureSendEffect, EnsureMonitorEffect,
   DeleteSendEffect, DeleteLookEffect DEF EnsureTask, DeleteTask

\* An operation of Azure ends: a resource that had succeeded stays, unless what it
\* lies in has been deleted with all it holds.
LEMMA FinishEffect ==
    ASSUME TinkerTypeOK, NEW t \in Tasks, Finish(t)
    PROVE  /\ remote' \in [Tasks -> States]
           /\ faults' \in 0..MaxFaults
           /\ UNCHANGED <<argVars, taskVars, exit>>
           /\ (\A u \in Tasks : remote[u] # "Deleting") =>
                 \A u \in Tasks : /\ remote'[u] # "Deleting"
                                  /\ remote[u] = "Succeeded" => remote'[u] = "Succeeded"
           /\ \A u \in Tasks : remote[u] = "Absent" => remote'[u] = "Absent"
<1>0. remote \in [Tasks -> States] /\ faults \in 0..MaxFaults
  BY TypeParts
<1>1. CASE remote[t] = "Working" /\ remote' = [remote EXCEPT ![t] = "Succeeded"]
           /\ UNCHANGED faults
  BY <1>0, <1>1 DEF Finish, States
<1>2. CASE remote[t] = "Deleting" /\ remote' = Removed(t) /\ UNCHANGED faults
  BY <1>0, <1>2 DEF Finish, Removed, States
<1>3. CASE /\ remote[t] \in {"Working", "Deleting"}
           /\ Fault("failedOp")
           /\ remote' = [remote EXCEPT ![t] = "Failed"]
  BY <1>0, <1>3, FaultCounts DEF Finish, States
<1>4. QED
  BY <1>1, <1>2, <1>3 DEF Finish

-----------------------------------------------------------------------------
(* Types.                                                                  *)

LEMMA InitTyped == Init => TinkerTypeOK
BY TinkerAssumption DEF Init, TinkerTypeOK, States

LEMMA NextTyped ==
    ASSUME TinkerTypeOK, [Next]_vars
    PROVE  TinkerTypeOK'
<1>1. CASE Read
  BY <1>1 DEF Read, TinkerTypeOK, argVars, taskVars
<1>2. CASE Exit
  BY <1>2 DEF Exit, TinkerTypeOK, argVars, taskVars
<1>3. ASSUME NEW t \in Tasks, EnsureTask(t) \/ DeleteTask(t) PROVE TinkerTypeOK'
  BY <1>3, TaskEffect DEF Effect, Advance, TaskTypes, Steps, TinkerTypeOK, argVars
<1>4. ASSUME NEW t \in Tasks, Finish(t) PROVE TinkerTypeOK'
  BY <1>4, FinishEffect DEF TinkerTypeOK, argVars, taskVars
<1>5. CASE UNCHANGED vars
  BY <1>5 DEF vars, argVars, taskVars, TinkerTypeOK
<1>6. QED
  BY <1>1, <1>2, <1>3, <1>4, <1>5 DEF Next, Tool

\* The variables have their types, and no task calls its client more often than
\* the back-off allows (ensure.go:578-586).
THEOREM TypeCorrect == Spec => []TinkerTypeOK
<1>1. Init => TinkerTypeOK
  BY InitTyped
<1>2. TinkerTypeOK /\ [Next]_vars => TinkerTypeOK'
  BY NextTyped
<1>3. QED
  BY <1>1, <1>2, PTL DEF Spec

-----------------------------------------------------------------------------
(* Success.                                                                *)

\* Ensure never leaves anything being deleted.
NothingGoing == command = "ensure" => \A t \in Tasks : remote[t] # "Deleting"

\* A task that has ended without an error has reached its goal, or was misled.
EndedIsReached == \A t \in file : step[t] = "ended" /\ ~err[t] => Accounted(t)

\* The exit status knows what was read and what the tasks came to.
ExitKnows ==
    /\ exit \in {"running", "success"} => clear
    /\ exit = "success" => \A t \in file : step[t] = "ended" /\ ~err[t]

SuccessInv == TinkerTypeOK /\ NothingGoing /\ EndedIsReached /\ ExitKnows

LEMMA FilesAreTasks == TinkerTypeOK => file \subseteq Tasks
BY TinkerAssumption DEF TinkerTypeOK

LEMMA SuccessInit == Init => SuccessInv
<1> SUFFICES ASSUME Init PROVE SuccessInv
  OBVIOUS
<1>1. TinkerTypeOK
  BY InitTyped
<1>2. file \subseteq Tasks
  BY <1>1, FilesAreTasks
<1>3. QED
  BY <1>1, <1>2 DEF Init, SuccessInv, NothingGoing, EndedIsReached, ExitKnows

\* A task's step makes its own claim true and leaves the others' alone: what ensure
\* touches is its own, and what delete takes along is gone, as it should be.
LEMMA TaskKeepsSuccess ==
    ASSUME SuccessInv, NEW t \in Tasks, Effect(t)
    PROVE  NothingGoing' /\ EndedIsReached' /\ ExitKnows'
<1>0. TinkerTypeOK /\ file \subseteq Tasks /\ file' = file /\ command' = command
      /\ clear' = clear /\ command \in {"ensure", "delete"}
  BY FilesAreTasks, TypeParts DEF SuccessInv, Effect, argVars
<1>1. NothingGoing'
  BY <1>0 DEF SuccessInv, NothingGoing, Effect
<1>2. EndedIsReached'
  <2> SUFFICES ASSUME NEW u \in file, step'[u] = "ended", ~err'[u]
               PROVE  Accounted(u)'
    BY <1>0 DEF EndedIsReached
  <2>1. CASE u = t
    BY <2>1 DEF Effect, Advance
  <2>2. CASE u # t
    <3>1. step[u] = "ended" /\ ~err[u]
      BY <2>2, <1>0 DEF Effect, Advance
    <3>2. Accounted(u)
      BY <3>1 DEF SuccessInv, EndedIsReached
    <3>3. remote'[u] = remote[u] \/ (command = "delete" /\ remote'[u] = "Absent")
      BY <2>2, <1>0 DEF Effect
    <3>4. Reached(u) => Reached(u)'
      BY <3>3, <1>0 DEF Reached
    <3>5. Misled(u) => Misled(u)'
      BY MisledStays DEF Effect
    <3>6. QED
      BY <3>2, <3>4, <3>5 DEF Accounted
  <2>3. QED
    BY <2>1, <2>2
<1>3. ExitKnows'
  <2>1. exit' = exit
    BY DEF Effect, Advance
  <2>2. exit = "success" => t \notin file
    BY DEF SuccessInv, ExitKnows, Effect
  <2>3. \A u \in file : u # t => step'[u] = step[u] /\ err'[u] = err[u]
    BY <1>0 DEF Effect, Advance
  <2>4. QED
    BY <2>1, <2>2, <2>3, <1>0 DEF SuccessInv, ExitKnows
<1>4. QED
  BY <1>1, <1>2, <1>3

LEMMA FinishKeepsSuccess ==
    ASSUME SuccessInv, NEW t \in Tasks, Finish(t)
    PROVE  NothingGoing' /\ EndedIsReached' /\ ExitKnows'
<1>0. TinkerTypeOK /\ file \subseteq Tasks /\ UNCHANGED <<argVars, taskVars, exit>>
      /\ command \in {"ensure", "delete"}
  BY FilesAreTasks, FinishEffect, TypeParts DEF SuccessInv
<1>1. NothingGoing'
  BY <1>0, FinishEffect DEF SuccessInv, NothingGoing, argVars
<1>2. EndedIsReached'
  <2> SUFFICES ASSUME NEW u \in file, step'[u] = "ended", ~err'[u]
               PROVE  Accounted(u)'
    BY <1>0 DEF EndedIsReached, argVars
  <2>1. Accounted(u) /\ u \in Tasks
    BY <1>0 DEF SuccessInv, EndedIsReached, taskVars
  <2>2. CASE Misled(u)
    BY <2>2, <1>0, MisledStays DEF Accounted, taskVars
  <2>3. CASE Reached(u) /\ command = "ensure"
    BY <2>1, <2>3, <1>0, FinishEffect DEF SuccessInv, NothingGoing, Accounted, Reached, argVars
  <2>4. CASE Reached(u) /\ command = "delete"
    BY <2>1, <2>4, <1>0, FinishEffect DEF Accounted, Reached, argVars
  <2>5. QED
    BY <2>1, <2>2, <2>3, <2>4, <1>0 DEF Accounted
<1>3. ExitKnows'
  BY <1>0 DEF SuccessInv, ExitKnows, argVars, taskVars
<1>4. QED
  BY <1>1, <1>2, <1>3

LEMMA SuccessNext ==
    ASSUME SuccessInv, [Next]_vars
    PROVE  SuccessInv'
<1>0. TinkerTypeOK'
  BY NextTyped DEF SuccessInv
<1>1. CASE Read
  BY <1>0, <1>1 DEF Read, SuccessInv, NothingGoing, EndedIsReached, ExitKnows, Accounted,
                    Reached, Misled, Handler, Kind, argVars, taskVars
<1>2. CASE Exit
  BY <1>0, <1>2 DEF Exit, SuccessInv, NothingGoing, EndedIsReached, ExitKnows, Accounted,
                    Reached, Misled, Handler, Kind, argVars, taskVars
<1>3. ASSUME NEW t \in Tasks, EnsureTask(t) \/ DeleteTask(t) PROVE SuccessInv'
  <2>1. Effect(t)
    BY <1>3, TaskEffect DEF SuccessInv
  <2>2. QED
    BY <2>1, <1>0, TaskKeepsSuccess DEF SuccessInv
<1>4. ASSUME NEW t \in Tasks, Finish(t) PROVE SuccessInv'
  BY <1>4, <1>0, FinishKeepsSuccess DEF SuccessInv
<1>5. CASE UNCHANGED vars
  BY <1>0, <1>5 DEF vars, argVars, taskVars, SuccessInv, NothingGoing, EndedIsReached,
                    ExitKnows, Accounted, Reached, Misled, Handler, Kind
<1>6. QED
  BY <1>1, <1>2, <1>3, <1>4, <1>5 DEF Next, Tool

\* The tool exits with success only if it understood the file and every resource in
\* it is as the command asks (ensure.go:84, 104 and do() at 250-265), but for the
\* tasks that were misled, in the ways the code has: whatever the file, whatever the
\* tasks need of one another, in whatever order the pool runs them, whatever fails.
THEOREM SuccessTrusted == Spec => []SuccessMeansReached
<1>1. Init => SuccessInv
  BY SuccessInit
<1>2. SuccessInv /\ [Next]_vars => SuccessInv'
  BY SuccessNext
<1>3. SuccessInv => SuccessMeansReached
  BY DEF SuccessInv, EndedIsReached, ExitKnows, Accounted, SuccessMeansReached
<1>4. QED
  BY <1>1, <1>2, <1>3, PTL DEF Spec

-----------------------------------------------------------------------------
(* The work runs out.                                                      *)

\* How many calls a task may still make: two to an attempt, and the start.
Left(t) ==
    CASE step[t] = "waiting" -> 2 * Attempts + 1
      [] step[t] = "ended" -> 0
      [] OTHER -> 2 * (Attempts - tries[t]) - (IF step[t] = First(t) THEN 0 ELSE 1)

\* One task has less left, and the others what they had.
Spent(t) ==
    /\ Left(t)' < Left(t)
    /\ \A u \in Tasks \ {t} : Left(u)' = Left(u)

\* A task that has begun is in the file, which has been read, and while it is
\* under way the tool runs.
Orderly ==
    \A t \in Tasks :
        /\ step[t] # "waiting" => t \in file /\ exit # "reading"
        /\ step[t] \in {"look", "send"} => exit = "running"

LEMMA LeftIsNat ==
    ASSUME TaskTypes, NEW t \in Tasks
    PROVE  Left(t) \in Nat
BY TinkerAssumption DEF TaskTypes, Steps, Left

LEMMA OthersKeepLeft ==
    ASSUME TaskTypes, UNCHANGED argVars, NEW u, step'[u] = step[u], tries'[u] = tries[u]
    PROVE  Left(u)' = Left(u)
BY DEF Left, First, Handler, Kind, argVars

LEMMA EndSpends ==
    ASSUME TaskTypes, UNCHANGED argVars, NEW t \in Tasks, NEW failed, End(t, failed),
           step[t] # "ended"
    PROVE  Spent(t)
<1>1. Left(t)' = 0 /\ Left(t) > 0
  BY TinkerAssumption DEF TaskTypes, Steps, Left, End
<1>2. \A u \in Tasks \ {t} : Left(u)' = Left(u)
  BY OthersKeepLeft DEF End, TaskTypes
<1>3. QED
  BY <1>1, <1>2 DEF Spent

\* Going on is from the start to an attempt's first call or from its first to its second.
LEMMA GoOnSpends ==
    ASSUME TaskTypes, UNCHANGED argVars, NEW t \in Tasks, NEW next \in {"look", "send"},
           GoOn(t, next),
           \/ step[t] = "waiting"
           \/ step[t] = First(t) /\ next # First(t)
    PROVE  Spent(t)
<1>1. step'[t] = next /\ tries'[t] = tries[t] /\ First(t)' = First(t)
  BY DEF GoOn, TaskTypes, First, Handler, Kind, argVars
<1>2. Left(t)' < Left(t)
  BY <1>1, FirstIsAStep, TinkerAssumption DEF TaskTypes, Steps, Left
<1>3. \A u \in Tasks \ {t} : Left(u)' = Left(u)
  BY OthersKeepLeft DEF GoOn, TaskTypes
<1>4. QED
  BY <1>2, <1>3 DEF Spent

LEMMA AttemptedSpends ==
    ASSUME TaskTypes, UNCHANGED argVars, NEW t \in Tasks, NEW done, Attempted(t, done),
           step[t] \in {"look", "send"}
    PROVE  Spent(t)
<1>1. CASE End(t, FALSE) \/ End(t, TRUE)
  BY <1>1, EndSpends
<1>2. CASE /\ tries[t] + 1 # Attempts
           /\ tries' = [tries EXCEPT ![t] = @ + 1]
           /\ step' = [step EXCEPT ![t] = First(t)]
  <2>1. /\ step'[t] = First(t) /\ tries'[t] = tries[t] + 1 /\ First(t)' = First(t)
    BY <1>2 DEF TaskTypes, First, Handler, Kind, argVars
  <2>2. Left(t)' < Left(t)
    BY <2>1, FirstIsAStep, TinkerAssumption DEF TaskTypes, Steps, Left
  <2>3. \A u \in Tasks \ {t} : Left(u)' = Left(u)
    BY <1>2, OthersKeepLeft DEF TaskTypes
  <2>4. QED
    BY <2>2, <2>3 DEF Spent
<1>3. QED
  BY <1>1, <1>2 DEF Attempted

LEMMA TaskSpends ==
    ASSUME TinkerTypeOK, NEW t \in Tasks, EnsureTask(t) \/ DeleteTask(t)
    PROVE  Spent(t)
<1>0. TaskTypes /\ UNCHANGED argVars /\ command \in {"ensure", "delete"}
  BY TypeParts DEF EnsureTask, DeleteTask
<1>1. CASE Begin(t)
  <2>1. CASE GoOn(t, First(t))
    BY <1>0, <1>1, <2>1, GoOnSpends, FirstIsAStep DEF Begin
  <2>2. CASE End(t, FALSE)
    BY <1>0, <1>1, <2>2, EndSpends DEF Begin
  <2>3. CASE /\ step' = [step EXCEPT ![t] = "ended"]
             /\ err' = [err EXCEPT ![t] = TRUE]
             /\ UNCHANGED <<tries, exit>>
    <3>1. Left(t)' = 0 /\ Left(t) > 0
      BY <1>0, <1>1, <2>3, TinkerAssumption DEF TaskTypes, Left, Begin
    <3>2. \A u \in Tasks \ {t} : Left(u)' = Left(u)
      BY <1>0, <2>3, OthersKeepLeft DEF TaskTypes
    <3>3. QED
      BY <3>1, <3>2 DEF Spent
  <2>4. QED
    BY <1>1, <2>1, <2>2, <2>3 DEF Begin
<1>2. CASE command = "ensure" /\ EnsureLook(t)
  BY <1>0, <1>2, GoOnSpends, AttemptedSpends DEF EnsureLook, First
<1>3. CASE command = "ensure" /\ EnsureSend(t)
  <2>1. step[t] = "send" /\ (AfterPut(t, TRUE) \/ AfterPut(t, FALSE))
    BY <1>3 DEF EnsureSend
  <2>2. Handler(t) = "monitored" => First(t) = "send"
    BY DEF First
  <2>3. QED
    BY <1>0, <2>1, <2>2, GoOnSpends, AttemptedSpends, EndSpends DEF AfterPut
<1>4. CASE command = "ensure" /\ EnsureMonitor(t)
  BY <1>0, <1>4, AttemptedSpends, EndSpends DEF EnsureMonitor
<1>5. CASE command = "delete" /\ DeleteSend(t)
  <2>1. step[t] = "send" /\ First(t) = "send"
    BY <1>5 DEF DeleteSend, First
  <2>2. PICK answer \in {"ok", "notFound", "conflict", "refused", "lost"} : AfterDelete(t, answer)
    BY <1>5 DEF DeleteSend
  <2>3. GoOn(t, "look") \/ \E done : Attempted(t, done)
    BY <2>2 DEF AfterDelete
  <2>4. QED
    BY <1>0, <2>1, <2>3, GoOnSpends, AttemptedSpends
<1>6. CASE command = "delete" /\ DeleteLook(t)
  BY <1>0, <1>6, AttemptedSpends DEF DeleteLook
<1>7. QED
  BY <1>0, <1>1, <1>2, <1>3, <1>4, <1>5, <1>6 DEF EnsureTask, DeleteTask

\* What the tool does is the reading, its exit, or a call out of those that a task
\* has left; and it does nothing once it has exited.
Spends ==
    Tool => /\ exit \in {"reading", "running"}
            /\ \/ /\ exit' # exit /\ exit' # "reading"
                  /\ \A t \in Tasks : Left(t)' = Left(t)
               \/ exit' = exit /\ \E t \in Tasks : Spent(t)

LEMMA OrderlyNext ==
    ASSUME TinkerTypeOK, Orderly, [Next]_vars
    PROVE  Orderly'
<1>1. CASE Read
  BY <1>1 DEF Read, Orderly, argVars, taskVars
<1>2. CASE Exit
  <2>1. file \subseteq Tasks /\ \A t \in file : step[t] = "ended"
    BY <1>2, FilesAreTasks DEF Exit
  <2>2. QED
    BY <2>1, <1>2 DEF Exit, Orderly, argVars, taskVars
<1>3. ASSUME NEW t \in Tasks, EnsureTask(t) \/ DeleteTask(t) PROVE Orderly'
  <2>1. Effect(t)
    BY <1>3, TaskEffect
  <2>2. exit = "running" /\ t \in file
    BY <1>3 DEF EnsureTask, DeleteTask, Begin, EnsureLook, EnsureSend, EnsureMonitor,
                DeleteSend, DeleteLook, Orderly
  <2>3. QED
    BY <2>1, <2>2 DEF Effect, Advance, Orderly, argVars
<1>4. ASSUME NEW t \in Tasks, Finish(t) PROVE Orderly'
  BY <1>4 DEF Finish, Orderly, argVars, taskVars
<1>5. CASE UNCHANGED vars
  BY <1>5 DEF vars, argVars, taskVars, Orderly
<1>6. QED
  BY <1>1, <1>2, <1>3, <1>4, <1>5 DEF Next, Tool

LEMMA ToolSpends ==
    ASSUME TinkerTypeOK, Orderly
    PROVE  Spends
<1> SUFFICES ASSUME Tool
             PROVE  /\ exit \in {"reading", "running"}
                    /\ \/ /\ exit' # exit /\ exit' # "reading"
                          /\ \A t \in Tasks : Left(t)' = Left(t)
                       \/ exit' = exit /\ \E t \in Tasks : Spent(t)
  BY DEF Spends
<1>0. TaskTypes
  BY TypeParts
<1>1. CASE Read \/ Exit
  <2>1. UNCHANGED <<argVars, taskVars>>
    BY <1>1 DEF Read, Exit
  <2>2. \A t \in Tasks : Left(t)' = Left(t)
    BY <2>1, <1>0, OthersKeepLeft DEF taskVars
  <2>3. exit \in {"reading", "running"} /\ exit' # exit /\ exit' # "reading"
    BY <1>1 DEF Read, Exit
  <2>4. QED
    BY <2>2, <2>3
<1>2. ASSUME NEW t \in Tasks, EnsureTask(t) \/ DeleteTask(t)
      PROVE  exit = "running" /\ exit' = exit /\ Spent(t)
  <2>1. exit = "running"
    BY <1>2 DEF EnsureTask, DeleteTask, Begin, EnsureLook, EnsureSend, EnsureMonitor,
                DeleteSend, DeleteLook, Orderly
  <2>2. exit' = exit
    BY <1>2, TaskEffect DEF Effect, Advance
  <2>3. QED
    BY <2>1, <2>2, <1>2, TaskSpends
<1>3. QED
  BY <1>1, <1>2 DEF Tool

\* The safety half of Exits, for any number of tasks: whatever Azure answers, each
\* call of the tool is one of the finitely many a task has left, no task's calls are
\* at the cost of another's, and once it has exited it makes none
\* (ensure.go:104, 245-265 and 578-586).  What is left to liveness is that a tool
\* that has not exited can always do something.
THEOREM WorkRunsOut ==
    Spec => [](\A t \in Tasks : Left(t) \in Nat) /\ [][Spends]_vars
<1> DEFINE Inv == TinkerTypeOK /\ Orderly
           Bounded == \A t \in Tasks : Left(t) \in Nat
<1>1. Init => Inv
  BY InitTyped DEF Init, Orderly
<1>2. Inv /\ [Next]_vars => Inv'
  BY NextTyped, OrderlyNext
<1>3. Inv => Bounded
  BY TypeParts, LeftIsNat
<1>4. Inv /\ [Next]_vars => [Spends]_vars
  BY ToolSpends
<1>5. Spec => []Bounded
  BY <1>1, <1>2, <1>3, PTL DEF Spec
<1>6. Spec => [][Spends]_vars
  BY <1>1, <1>2, <1>4, PTL DEF Spec
<1>7. QED
  BY <1>5, <1>6
=============================================================================
