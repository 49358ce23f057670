----------------------------- MODULE SecretSync -----------------------------
(***************************************************************************)
(* The clients that copy keys and secrets of Azure into Kubernetes         *)
(* secrets, as the command line tool runs them: one task per manifest,     *)
(* several at once, and several may share a target.  A task reads its      *)
(* values from Azure, then the target (controllerutil.CreateOrUpdate: Get, *)
(* change, and Create or Update), and starts again if anything fails.  A   *)
(* manager's cache makes the copy of the target older still, which is to   *)
(* be overtaken between Get and Update: nothing new.                       *)
(***************************************************************************)
EXTENDS Naturals, FiniteSets

CONSTANTS
    Commands,       \* the commands the tool is called with
    Tasks,          \* the manifests of the file
    KindOf,         \* the kind of each
    Target,         \* the name of the secret each one's Ensure writes
    SpecName,       \* Spec.Name of each: what it is called in Azure
    Keys,           \* the keys each one puts into its target
    Others,         \* the keys other people keep in the targets
    Attempts,       \* how often a task calls its client
    MaxRotations,   \* bound: how often each value changes in Azure
    MaxTouches,     \* bound: how many edits other people make
    Faults,         \* the kinds of fault that may happen: "azure", "kube"
    MaxFaults       \* bound: how many faults happen in a behaviour

\* What tells one client from another: does it read its values by one call
\* each; does it replace what is in the target; the type it gives the target;
\* and does Delete remove the secret Ensure writes, the one that is called in
\* Kubernetes what the value is called in Azure, or none?  Of Redis,
\* ServiceBusNamespace and StorageAccount it is SyncSecrets (SyncSecret), once the
\* resource is there; StorageAccount's Delete removes a secret before the account.
Secret == [oneByOne |-> FALSE, replaces |-> FALSE, type |-> "any", deletes |-> "specName"]
TLSSecret == [Secret EXCEPT !.type = "tls"]
SecretBundle == [Secret EXCEPT !.oneByOne = TRUE]
DockerConfig == [Secret EXCEPT !.replaces = TRUE, !.deletes = "target"]
RedisKey == [Secret EXCEPT !.deletes = "target"]
ServiceBusKey == RedisKey
StorageKey == Secret
StorageAccount == StorageKey
Redis == [Secret EXCEPT !.deletes = "nothing"]
ServiceBusNamespace == Redis

Kinds ==
    [Secret |-> Secret, TLSSecret |-> TLSSecret, SecretBundle |-> SecretBundle,
     DockerConfig |-> DockerConfig, RedisKey |-> RedisKey,
     ServiceBusKey |-> ServiceBusKey, StorageKey |-> StorageKey,
     StorageAccount |-> StorageAccount, Redis |-> Redis, ServiceBusNamespace |-> ServiceBusNamespace]

AllKeys == (UNION {Keys[t] : t \in Tasks}) \cup Others
Names == {Target[t] : t \in Tasks} \cup {SpecName[t] : t \in Tasks}

ASSUME SyncAssumption ==
    /\ Commands \subseteq {"ensure", "delete"}
    /\ KindOf \in [Tasks -> DOMAIN Kinds]
    /\ \A t \in Tasks : Keys[t] # {} /\ Keys[t] \cap Others = {}
    /\ Attempts \in Nat \ {0}
    /\ MaxRotations \in Nat /\ MaxTouches \in Nat /\ MaxFaults \in Nat

Kind(t) == Kinds[KindOf[t]]

VARIABLES
    command,    \* what the tool was called with
    source,     \* the current value of each key in Azure: its version
    secret,     \* the Kubernetes secrets
    step,       \* the call each task makes next
    held,       \* the values each task has read in this attempt, 0 for none
    copy,       \* the target as each task has read it
    tries,      \* how many attempts of each task have failed
    since,      \* history: the values in Azure when the attempt began
    touches, faults

taskVars == <<step, held, copy, tries, since>>
vars == <<command, source, secret, taskVars, touches, faults>>

\* A secret as stored: key k is in it if data[k] is not 0.
Stored == [live : BOOLEAN, rv : Nat, type : {"any", "tls"}, data : [AllKeys -> Nat]]
NoData == [k \in AllKeys |-> 0]
NoSecret == [live |-> FALSE, rv |-> 0, type |-> "any", data |-> NoData]

SyncTypeOK ==
    /\ command \in Commands
    /\ source \in [AllKeys -> Nat \ {0}]
    /\ secret \in [Names -> Stored]
    /\ step \in [Tasks -> {"read", "get", "write", "done", "failed"}]
    /\ held \in [Tasks -> [AllKeys -> Nat]]
    /\ copy \in [Tasks -> Stored]
    /\ tries \in [Tasks -> Nat]
    /\ since \in [Tasks -> [AllKeys -> Nat]]
    /\ touches \in Nat
    /\ faults \in Nat

\* Each target may be there already, with other people's keys in it.
Init ==
    /\ command \in Commands
    /\ source = [k \in AllKeys |-> 1]
    /\ secret \in [Names -> {NoSecret,
                             [NoSecret EXCEPT !.live = TRUE, !.rv = 1,
                                 !.data = [k \in AllKeys |-> IF k \in Others THEN 1 ELSE 0]]}]
    /\ step = [t \in Tasks |-> "read"]
    /\ held = [t \in Tasks |-> NoData]
    /\ copy = [t \in Tasks |-> NoSecret]
    /\ tries = [t \in Tasks |-> 0]
    /\ since = [t \in Tasks |-> source]
    /\ touches = 0
    /\ faults = 0

Fault(kind) ==
    /\ kind \in Faults
    /\ faults < MaxFaults
    /\ faults' = faults + 1

-----------------------------------------------------------------------------
(* The attempts of a task.                                                 *)

GoOn(t, next) == step' = [step EXCEPT ![t] = next] /\ UNCHANGED <<tries, since>>

Forget(t) ==
    /\ held' = [held EXCEPT ![t] = NoData]
    /\ copy' = [copy EXCEPT ![t] = NoSecret]

Done(t) == GoOn(t, "done") /\ Forget(t)

\* (mutant: the next attempt makes do with the values already read)
FailedKeeping(t) ==
    /\ tries' = [tries EXCEPT ![t] = @ + 1]
    /\ step' = [step EXCEPT ![t] =
                   IF tries[t] + 1 = Attempts THEN "failed"
                   ELSE IF held[t] = NoData THEN "read" ELSE "get"]
    /\ since' = [since EXCEPT ![t] = source]
    /\ UNCHANGED <<held, copy>>

\* An error of Ensure or Delete: call it again, or give up.
Failed(t) ==
    /\ tries' = [tries EXCEPT ![t] = @ + 1]
    /\ step' = [step EXCEPT ![t] = IF tries[t] + 1 = Attempts THEN "failed" ELSE "read"]
    /\ since' = [since EXCEPT ![t] = source]
    /\ Forget(t)

-----------------------------------------------------------------------------
(* Ensure.                                                                 *)

Unread(t) == {k \in Keys[t] : held[t][k] = 0}
Batches(t) == IF Kind(t).oneByOne THEN {{k} : k \in Unread(t)} ELSE {Unread(t)}

\* GetSecret or ListKeys; it may fail, or return less than was asked for.
Read(t) ==
    /\ command = "ensure" /\ step[t] = "read"
    /\ \/ \E ks \in Batches(t) :
             /\ held' = [held EXCEPT ![t] =
                            [k \in AllKeys |-> IF k \in ks THEN source[k] ELSE held[t][k]]]
             /\ GoOn(t, IF ks = Unread(t) THEN "get" ELSE "read")
             /\ UNCHANGED <<copy, faults>>
       \/ Fault("azure") /\ Failed(t)
    /\ UNCHANGED <<command, source, secret, touches>>

GetTarget(t) ==
    /\ step[t] = "get"
    /\ \/ /\ copy' = [copy EXCEPT ![t] = secret[Target[t]]]
          /\ GoOn(t, "write")
          /\ UNCHANGED <<held, faults>>
       \/ Fault("kube") /\ Failed(t)
    /\ UNCHANGED <<command, source, secret, touches>>

\* The change: the task's keys are set, the others kept or dropped.
Mutated(t) ==
    [copy[t] EXCEPT
        !.live = TRUE,
        !.type = IF Kind(t).type = "any" THEN @ ELSE Kind(t).type,
        !.data = [k \in AllKeys |->
            CASE k \in Keys[t] -> held[t][k]
              [] k \notin Keys[t] /\ copy[t].live /\ ~Kind(t).replaces -> copy[t].data[k]
              [] OTHER -> 0]]

\* Create wants no secret of that name; Update wants the one that was read,
\* and nobody may change the type of a secret.
AcceptedAnyway(t) == secret[Target[t]].live => secret[Target[t]].type = Mutated(t).type

Accepted(t) ==
    LET now == secret[Target[t]]
    IN  IF copy[t].live
        THEN now.live /\ now.rv = copy[t].rv /\ now.type = Mutated(t).type
        ELSE ~now.live

Store(n, new) == secret' = [secret EXCEPT ![n] = [new EXCEPT !.rv = secret[n].rv + 1]]

\* Nothing is sent if nothing changes.
Write(t) ==
    /\ step[t] = "write"
    /\ \/ Mutated(t) = copy[t] /\ Done(t) /\ UNCHANGED <<secret, faults>>
       \/ /\ Mutated(t) # copy[t]
          /\ \/ Accepted(t) /\ Store(Target[t], Mutated(t)) /\ Done(t) /\ UNCHANGED faults
             \/ ~Accepted(t) /\ Failed(t) /\ UNCHANGED <<secret, faults>>
             \/ Fault("kube") /\ Failed(t) /\ UNCHANGED secret
             \/ Fault("kube") /\ Accepted(t) /\ Store(Target[t], Mutated(t)) /\ Failed(t)
    /\ UNCHANGED <<command, source, touches>>

-----------------------------------------------------------------------------
(* Delete.                                                                 *)

Removes(t) == IF Kind(t).deletes = "target" THEN Target[t] ELSE SpecName[t]

Present(t) == Kind(t).deletes # "nothing" /\ secret[Removes(t)].live

Gone(n) == Store(n, [NoSecret EXCEPT !.rv = secret[n].rv])

\* A secret that is not found counts as deleted.  (mutant: any error does)
RemoveUnchecked(t) ==
    /\ command = "delete" /\ step[t] = "read"
    /\ \/ (IF Present(t) THEN Gone(Removes(t)) ELSE UNCHANGED secret)
          /\ Done(t) /\ UNCHANGED faults
       \/ Fault("kube") /\ Done(t) /\ UNCHANGED secret
    /\ UNCHANGED <<command, source, touches>>

\* The tool passes over RedisKey and ServiceBusKey; their controllers do not.
Remove(t) ==
    /\ command = "delete" /\ step[t] = "read"
    /\ \/ Present(t) /\ Gone(Removes(t)) /\ Done(t) /\ UNCHANGED faults
       \/ ~Present(t) /\ Done(t) /\ UNCHANGED <<secret, faults>>
       \/ Fault("kube") /\ Failed(t) /\ UNCHANGED secret
       \/ Fault("kube") /\ Present(t) /\ Gone(Removes(t)) /\ Failed(t)
    /\ UNCHANGED <<command, source, touches>>

-----------------------------------------------------------------------------
(* Other people.                                                           *)

\* A value is changed in Azure.
Rotate(k) ==
    /\ source[k] <= MaxRotations
    /\ source' = [source EXCEPT ![k] = @ + 1]
    /\ UNCHANGED <<command, secret, taskVars, touches, faults>>

\* A key of somebody else's is changed in a secret.
Touch(n, k) ==
    /\ touches < MaxTouches
    /\ touches' = touches + 1
    /\ secret[n].live
    /\ Store(n, [secret[n] EXCEPT !.data[k] = @ + 1])
    /\ UNCHANGED <<command, source, taskVars, faults>>

Ensure(t) == Read(t) \/ GetTarget(t) \/ Write(t)

Next ==
    \/ \E t \in Tasks : Ensure(t) \/ Remove(t)
    \/ \E k \in AllKeys \ Others : Rotate(k)
    \/ \E n \in Names, k \in Others : Touch(n, k)

Spec == Init /\ [][Next]_vars

-----------------------------------------------------------------------------
(* Properties.                                                             *)

Now(t, k) == secret[Target[t]].data[k]

\* Tasks that share a target, and the people who keep keys of their own in
\* it, do not lose each other's keys, though each task writes the whole secret
\* (rediskeys.go:85, servicebuskey.go:104, tlssecret.go:129: CreateOrUpdate).
KeepsOthers ==
    [][\A t \in Tasks : step[t] = "write" /\ step'[t] # "write" =>
          \A k \in AllKeys \ Keys[t] :
             secret'[Target[t]].data[k] = Now(t, k)]_vars

\* A value in a target is never replaced by an older one, whatever is retried
\* (secrets.go:68 reads the value before the target).
ValuesGoForward ==
    [][command = "ensure" =>
          \A t \in Tasks : \A k \in Keys[t] : secret'[Target[t]].data[k] >= Now(t, k)]_vars

\* When Ensure returns without error, all its keys are in the target, with
\* values no older than those Azure had when it was called.
SuccessMeansSynced ==
    command = "ensure" =>
        \A t \in Tasks : step[t] = "done" =>
            /\ secret[Target[t]].live
            /\ \A k \in Keys[t] : Now(t, k) >= since[t][k]

\* When Delete returns without error, the secret Ensure made has gone
\* (rediskeys.go:122-134, and tlssecret.go:157-169 for an object called as its
\* value is in Azure).
DeletedMeansGone ==
    command = "delete" => \A t \in Tasks : step[t] = "done" => ~secret[Target[t]].live

-----------------------------------------------------------------------------
(* Why KeepsOthers, ValuesGoForward and SuccessMeansSynced hold.           *)

\* A secret that has gone has no keys, and a copy is the secret itself unless
\* the secret has been written since.
CopiesKnown ==
    /\ \A n \in Names : ~secret[n].live => secret[n].data = NoData
    /\ \A t \in Tasks : step[t] = "write" =>
          /\ copy[t].rv <= secret[Target[t]].rv
          /\ copy[t].rv = secret[Target[t]].rv => copy[t] = secret[Target[t]]

\* What a task holds is no older than what is in its target, and everything
\* it has asked for has come when it turns to the target.
HeldIsNewer ==
    /\ \A t \in Tasks : step[t] \in {"get", "write"} =>
          command = "ensure" /\ \A k \in Keys[t] : held[t][k] # 0
    /\ command = "ensure" => \A t \in Tasks : \A k \in Keys[t] :
          /\ since[t][k] <= source[k]
          /\ Now(t, k) <= source[k]
          /\ held[t][k] # 0 => /\ since[t][k] <= held[t][k]
                               /\ held[t][k] <= source[k]
                               /\ Now(t, k) <= held[t][k]

\* Nobody else writes a task's keys, or removes its target.
OwnKeysStand ==
    command = "ensure" => \A t \in Tasks : step[t] = "write" /\ copy[t].live =>
        /\ secret[Target[t]].live
        /\ \A k \in Keys[t] : Now(t, k) = copy[t].data[k]

\* The inductive invariant: copies, values and keys in step with the target
\* (rediskeys.go:64-119, tlssecret.go:68-154).
SyncInv ==
    /\ SyncTypeOK
    /\ CopiesKnown
    /\ HeldIsNewer
    /\ OwnKeysStand
    /\ SuccessMeansSynced
=============================================================================
