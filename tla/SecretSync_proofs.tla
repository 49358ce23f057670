-------------------------- MODULE SecretSync_proofs --------------------------
(***************************************************************************)
(* Proofs about SecretSync, for any manifests, targets and bounds: tasks   *)
(* whose keys are their own may share a target, unless one replaces all    *)
(* that is in it.                                                          *)
(***************************************************************************)
EXTENDS SecretSync, TLAPS

\* Tasks that share a target have keys of their own, and a DockerConfig, which
\* replaces all data of its target (dockercfg.go:102), has one to itself.
Apart ==
    \A t, u \in Tasks : t # u /\ Target[t] = Target[u] =>
        Keys[t] \cap Keys[u] = {} /\ ~Kind(t).replaces

\* No task drops what other people keep in its target.
Merging == \A t \in Tasks : ~Kind(t).replaces

LEMMA NameFacts ==
    ASSUME NEW t \in Tasks
    PROVE  /\ Target[t] \in Names /\ SpecName[t] \in Names
           /\ Keys[t] \subseteq AllKeys
           /\ Kind(t).type \in {"any", "tls"}
           /\ Removes(t) \in Names
  <1>1. KindOf[t] \in {"Secret", "TLSSecret", "SecretBundle", "DockerConfig", "RedisKey",
                      "ServiceBusKey", "StorageKey", "StorageAccount", "Redis",
                      "ServiceBusNamespace"}
    BY SyncAssumption DEF Kinds
  <1>2. Kind(t) \in {Secret, TLSSecret, SecretBundle, DockerConfig, RedisKey, Redis}
    BY <1>1 DEF Kind, Kinds, ServiceBusKey, StorageKey, StorageAccount, ServiceBusNamespace
  <1>3. /\ Secret.type = "any" /\ TLSSecret.type = "tls" /\ SecretBundle.type = "any"
        /\ DockerConfig.type = "any" /\ RedisKey.type = "any"
        /\ Redis.type = "any"
    BY DEF Secret, TLSSecret, SecretBundle, DockerConfig, RedisKey, Redis
  <1>4. Keys[t] \subseteq UNION {Keys[u] : u \in Tasks}
    OBVIOUS
  <1>. QED BY <1>2, <1>3, <1>4 DEF Names, AllKeys, Removes

LEMMA OtherKeys ==
    ASSUME NEW t \in Tasks, NEW k \in Others
    PROVE  k \notin Keys[t] /\ k \in AllKeys
  <1>1. Keys[t] \cap Others = {}
    BY SyncAssumption
  <1>. QED BY <1>1 DEF AllKeys

-----------------------------------------------------------------------------
(* What the parts of an action do.                                         *)

\* The secret a task sends.
LEMMA MutatedFacts ==
    ASSUME SyncTypeOK, NEW t \in Tasks
    PROVE  /\ Mutated(t) \in Stored
           /\ Mutated(t).live
           /\ \A k \in Keys[t] : Mutated(t).data[k] = held[t][k]
           /\ ~Kind(t).replaces => \A k \in AllKeys \ Keys[t] :
                 Mutated(t).data[k] = IF copy[t].live THEN copy[t].data[k] ELSE 0
  <1>. DEFINE d == [k \in AllKeys |->
            CASE k \in Keys[t] -> held[t][k]
              [] k \notin Keys[t] /\ copy[t].live /\ ~Kind(t).replaces -> copy[t].data[k]
              [] OTHER -> 0]
              ty == IF Kind(t).type = "any" THEN copy[t].type ELSE Kind(t).type
  <1>1. /\ copy[t] \in Stored /\ held[t] \in [AllKeys -> Nat]
        /\ Kind(t).type \in {"any", "tls"} /\ Keys[t] \subseteq AllKeys
    BY NameFacts DEF SyncTypeOK
  <1>2. d \in [AllKeys -> Nat]
    BY <1>1 DEF Stored
  <1>3. ty \in {"any", "tls"}
    BY <1>1 DEF Stored
  <1>4. Mutated(t) = [copy[t] EXCEPT !.live = TRUE, !.type = ty, !.data = d]
    BY DEF Mutated
  <1>. HIDE DEF d, ty
  <1>5. Mutated(t) \in Stored /\ Mutated(t).live /\ Mutated(t).data = d
    BY <1>1, <1>2, <1>3, <1>4 DEF Stored
  <1>6. \A k \in Keys[t] : d[k] = held[t][k]
    BY <1>1 DEF d
  <1>7. ~Kind(t).replaces => \A k \in AllKeys \ Keys[t] :
           d[k] = IF copy[t].live THEN copy[t].data[k] ELSE 0
    BY DEF d
  <1>. QED BY <1>5, <1>6, <1>7

\* One secret is written, under a new version.
LEMMA StoreFacts ==
    ASSUME SyncTypeOK, NEW n \in Names, NEW new \in Stored, Store(n, new)
    PROVE  /\ secret' \in [Names -> Stored]
           /\ secret'[n].live = new.live
           /\ secret'[n].data = new.data
           /\ secret'[n].rv = secret[n].rv + 1
           /\ \A m \in Names \ {n} : secret'[m] = secret[m]
  <1>1. secret \in [Names -> Stored]
    BY DEF SyncTypeOK
  <1>. DEFINE w == [new EXCEPT !.rv = secret[n].rv + 1]
  <1>2. secret[n].rv \in Nat
    BY <1>1 DEF Stored
  <1>3. w \in Stored /\ w.live = new.live /\ w.data = new.data /\ w.rv = secret[n].rv + 1
    BY <1>2 DEF Stored
  <1>4. secret' = [secret EXCEPT ![n] = w]
    BY DEF Store
  <1>. HIDE DEF w
  <1>. QED BY <1>1, <1>3, <1>4

LEMMA InitialData == NoData \in [AllKeys -> Nat] /\ NoSecret \in Stored /\ ~NoSecret.live
                     /\ NoSecret.data = NoData
  BY DEF NoData, NoSecret, Stored

\* A failed attempt keeps the types and says nothing of success.
LEMMA FailedFacts ==
    ASSUME SyncTypeOK, NEW t \in Tasks, Failed(t)
    PROVE  /\ tries' \in [Tasks -> Nat] /\ held' \in [Tasks -> [AllKeys -> Nat]]
           /\ copy' \in [Tasks -> Stored] /\ since' \in [Tasks -> [AllKeys -> Nat]]
           /\ step' = [step EXCEPT ![t] = step'[t]] /\ step'[t] \in {"read", "failed"}
           /\ held' = [held EXCEPT ![t] = NoData]
           /\ copy' = [copy EXCEPT ![t] = NoSecret]
           /\ since' = [since EXCEPT ![t] = source]
  BY InitialData DEF SyncTypeOK, Failed, Forget

LEMMA DoneFacts ==
    ASSUME SyncTypeOK, NEW t \in Tasks, Done(t)
    PROVE  /\ tries' = tries /\ since' = since
           /\ held' \in [Tasks -> [AllKeys -> Nat]]
           /\ copy' \in [Tasks -> Stored]
           /\ step' = [step EXCEPT ![t] = "done"]
           /\ held' = [held EXCEPT ![t] = NoData]
           /\ copy' = [copy EXCEPT ![t] = NoSecret]
  BY InitialData DEF SyncTypeOK, Done, GoOn, Forget

\* Every step keeps the types.
LEMMA SyncTypeStep ==
    ASSUME SyncTypeOK, [Next]_vars
    PROVE  SyncTypeOK'
  <1>1. ASSUME NEW t \in Tasks, Read(t)
        PROVE  SyncTypeOK'
    <2>1. CASE Fault("azure") /\ Failed(t)
      <3>1. /\ tries' \in [Tasks -> Nat] /\ held' \in [Tasks -> [AllKeys -> Nat]]
            /\ copy' \in [Tasks -> Stored] /\ since' \in [Tasks -> [AllKeys -> Nat]]
            /\ step' \in [Tasks -> {"read", "get", "write", "done", "failed"}]
        BY <2>1, FailedFacts DEF SyncTypeOK
      <3>. QED BY <1>1, <2>1, <3>1 DEF Read, Fault, SyncTypeOK
    <2>2. CASE \E ks \in Batches(t) :
             /\ held' = [held EXCEPT ![t] =
                            [k \in AllKeys |-> IF k \in ks THEN source[k] ELSE held[t][k]]]
             /\ GoOn(t, IF ks = Unread(t) THEN "get" ELSE "read")
             /\ UNCHANGED <<copy, faults>>
      <3>1. PICK ks \in Batches(t) :
             /\ held' = [held EXCEPT ![t] =
                            [k \in AllKeys |-> IF k \in ks THEN source[k] ELSE held[t][k]]]
             /\ GoOn(t, IF ks = Unread(t) THEN "get" ELSE "read")
             /\ UNCHANGED <<copy, faults>>
        BY <2>2
      <3>2. [k \in AllKeys |-> IF k \in ks THEN source[k] ELSE held[t][k]] \in [AllKeys -> Nat]
        BY DEF SyncTypeOK
      <3>. QED BY <1>1, <3>1, <3>2 DEF Read, GoOn, SyncTypeOK
    <2>. QED BY <1>1, <2>1, <2>2 DEF Read
  <1>2. ASSUME NEW t \in Tasks, GetTarget(t)
        PROVE  SyncTypeOK'
    <2>1. secret[Target[t]] \in Stored
      BY NameFacts DEF SyncTypeOK
    <2>2. /\ tries' \in [Tasks -> Nat] /\ held' \in [Tasks -> [AllKeys -> Nat]]
          /\ copy' \in [Tasks -> Stored] /\ since' \in [Tasks -> [AllKeys -> Nat]]
          /\ step' \in [Tasks -> {"read", "get", "write", "done", "failed"}]
      BY <1>2, <2>1, FailedFacts DEF GetTarget, GoOn, SyncTypeOK
    <2>. QED BY <1>2, <2>2 DEF GetTarget, Fault, SyncTypeOK
  <1>3. ASSUME NEW t \in Tasks, Write(t)
        PROVE  SyncTypeOK'
    <2>1. secret' \in [Names -> Stored]
      BY <1>3, MutatedFacts, NameFacts, StoreFacts DEF Write, SyncTypeOK
    <2>2. /\ step' \in [Tasks -> {"read", "get", "write", "done", "failed"}]
          /\ held' \in [Tasks -> [AllKeys -> Nat]] /\ copy' \in [Tasks -> Stored]
          /\ tries' \in [Tasks -> Nat] /\ since' \in [Tasks -> [AllKeys -> Nat]]
      BY <1>3, FailedFacts, DoneFacts DEF Write, SyncTypeOK
    <2>. QED BY <1>3, <2>1, <2>2 DEF Write, Fault, SyncTypeOK
  <1>4. ASSUME NEW t \in Tasks, Remove(t)
        PROVE  SyncTypeOK'
    <2>1. [NoSecret EXCEPT !.rv = secret[Removes(t)].rv] \in Stored
      BY InitialData, NameFacts DEF SyncTypeOK, Stored
    <2>2. secret' \in [Names -> Stored]
      BY <1>4, <2>1, NameFacts, StoreFacts DEF Remove, Gone, SyncTypeOK
    <2>3. /\ step' \in [Tasks -> {"read", "get", "write", "done", "failed"}]
          /\ held' \in [Tasks -> [AllKeys -> Nat]] /\ copy' \in [Tasks -> Stored]
          /\ tries' \in [Tasks -> Nat] /\ since' \in [Tasks -> [AllKeys -> Nat]]
      BY <1>4, FailedFacts, DoneFacts DEF Remove, SyncTypeOK
    <2>. QED BY <1>4, <2>2, <2>3 DEF Remove, Fault, SyncTypeOK
  <1>5. ASSUME NEW k \in AllKeys \ Others, Rotate(k)
        PROVE  SyncTypeOK'
    BY <1>5 DEF Rotate, taskVars, SyncTypeOK
  <1>6. ASSUME NEW n \in Names, NEW k \in Others, Touch(n, k)
        PROVE  SyncTypeOK'
    <2>3. k \in AllKeys /\ secret[n] \in Stored
      BY DEF SyncTypeOK, AllKeys
    <2>1. [secret[n] EXCEPT !.data[k] = @ + 1] \in Stored
      BY <2>3 DEF Stored
    <2>2. secret' \in [Names -> Stored]
      BY <1>6, <2>1, StoreFacts DEF Touch
    <2>. QED BY <1>6, <2>2 DEF Touch, taskVars, SyncTypeOK
  <1>7. CASE UNCHANGED vars
    BY <1>7 DEF vars, taskVars, SyncTypeOK
  <1>. QED BY <1>1, <1>2, <1>3, <1>4, <1>5, <1>6, <1>7 DEF Next, Ensure

-----------------------------------------------------------------------------
(* Who changes what in the secrets while the tool ensures them.            *)

\* Task u has written its target.
Wrote(u) ==
    /\ \A n \in Names \ {Target[u]} : secret'[n] = secret[n]
    /\ secret'[Target[u]].live
    /\ secret'[Target[u]].rv = secret[Target[u]].rv + 1
    /\ \A k \in Keys[u] : secret'[Target[u]].data[k] = held[u][k]
    /\ ~Kind(u).replaces => \A k \in AllKeys \ Keys[u] :
          secret'[Target[u]].data[k] = secret[Target[u]].data[k]

LEMMA WriteFacts ==
    ASSUME SyncTypeOK, CopiesKnown, NEW u \in Tasks, Write(u)
    PROVE  \/ UNCHANGED secret /\ (Failed(u) \/ Mutated(u) = copy[u])
           \/ Wrote(u)
  <1>. DEFINE n == Target[u]
  <1>1. n \in Names /\ Mutated(u) \in Stored /\ secret[n] \in Stored
    BY MutatedFacts, NameFacts DEF SyncTypeOK
  <1>2. SUFFICES ASSUME Accepted(u), Store(n, Mutated(u)), step[u] = "write"
                 PROVE  Wrote(u)
    BY DEF Write
  <1>3. /\ secret'[n].live = Mutated(u).live /\ secret'[n].data = Mutated(u).data
        /\ secret'[n].rv = secret[n].rv + 1
        /\ \A m \in Names \ {n} : secret'[m] = secret[m]
    BY <1>1, <1>2, StoreFacts
  <1>4. ASSUME ~Kind(u).replaces
        PROVE  \A k \in AllKeys \ Keys[u] : Mutated(u).data[k] = secret[n].data[k]
    <2>1. CASE copy[u].live
      BY <1>2, <1>4, <2>1, MutatedFacts DEF Accepted, CopiesKnown
    <2>2. CASE ~copy[u].live
      <3>1. secret[n].data = NoData
        BY <1>1, <1>2, <2>2 DEF Accepted, CopiesKnown
      <3>. QED BY <1>4, <2>2, <3>1, MutatedFacts DEF NoData
    <2>. QED BY <2>1, <2>2
  <1>. QED BY <1>3, <1>4, MutatedFacts DEF Wrote

LEMMA TouchFacts ==
    ASSUME SyncTypeOK, NEW n \in Names, NEW k \in Others, Touch(n, k)
    PROVE  /\ \A m \in Names \ {n} : secret'[m] = secret[m]
           /\ secret[n].live /\ secret'[n].live
           /\ secret'[n].rv = secret[n].rv + 1
           /\ \A j \in AllKeys \ Others : secret'[n].data[j] = secret[n].data[j]
  <1>. DEFINE d == [secret[n].data EXCEPT ![k] = @ + 1]
              w == [secret[n] EXCEPT !.data[k] = @ + 1]
  <1>1. k \in AllKeys /\ secret[n] \in Stored
    BY DEF SyncTypeOK, AllKeys
  <1>2. w \in Stored /\ w.live = secret[n].live /\ w.data = d
    BY <1>1 DEF Stored
  <1>3. \A j \in AllKeys \ Others : d[j] = secret[n].data[j]
    BY <1>1 DEF Stored
  <1>4. Store(n, w) /\ secret[n].live
    BY DEF Touch
  <1>. HIDE DEF d, w
  <1>. QED BY <1>2, <1>3, <1>4, StoreFacts

-----------------------------------------------------------------------------
(* The parts of the invariant other than the types.                        *)

InStep == CopiesKnown /\ HeldIsNewer /\ OwnKeysStand /\ SuccessMeansSynced

LEMMA SyncInvInit ==
    ASSUME Init
    PROVE  SyncTypeOK /\ InStep
  <1>. DEFINE d == [k \in AllKeys |-> IF k \in Others THEN 1 ELSE 0]
              w == [NoSecret EXCEPT !.live = TRUE, !.rv = 1, !.data = d]
  <1>1. w \in Stored /\ w.live /\ w.data = d
    BY DEF NoSecret, Stored
  <1>2. secret \in [Names -> {NoSecret, w}]
    BY DEF Init
  <1>. HIDE DEF w
  <1>3. SyncTypeOK
    <2>1. secret \in [Names -> Stored]
      BY <1>1, <1>2, InitialData
    <2>2. source = [k \in AllKeys |-> 1]
      BY DEF Init
    <2>3. source \in [AllKeys -> Nat \ {0}] /\ source \in [AllKeys -> Nat]
      BY <2>2
    <2>4. since = [t \in Tasks |-> source]
      BY DEF Init
    <2>. QED BY <2>1, <2>3, <2>4, InitialData DEF Init, SyncTypeOK
  <1>4. \A t \in Tasks : \A k \in Keys[t] : Now(t, k) = 0
    <2>. TAKE t \in Tasks
    <2>. TAKE k \in Keys[t]
    <2>1. k \in AllKeys /\ k \notin Others /\ Target[t] \in Names
      BY NameFacts, OtherKeys
    <2>. QED BY <1>1, <1>2, <2>1, InitialData DEF Now, NoData
  <1>5. CopiesKnown /\ OwnKeysStand /\ SuccessMeansSynced
    BY <1>1, <1>2, InitialData DEF Init, CopiesKnown, OwnKeysStand, SuccessMeansSynced
  <1>6. HeldIsNewer
    <2>1. \A t \in Tasks : step[t] = "read" /\ held[t] = NoData /\ since[t] = source
      BY DEF Init
    <2>2. \A k \in AllKeys : source[k] = 1 /\ NoData[k] = 0
      BY DEF Init, NoData
    <2>. QED BY <1>4, <2>1, <2>2, NameFacts DEF HeldIsNewer
  <1>. QED BY <1>3, <1>5, <1>6 DEF InStep

\* A write of task u leaves the keys of every other task as they were.
LEMMA OthersUntouched ==
    ASSUME Apart, SyncTypeOK, NEW u \in Tasks, UNCHANGED secret \/ Wrote(u),
           NEW t \in Tasks, t # u
    PROVE  /\ \A k \in Keys[t] : secret'[Target[t]].data[k] = secret[Target[t]].data[k]
           /\ secret[Target[t]].live => secret'[Target[t]].live
           /\ \/ secret'[Target[t]] = secret[Target[t]]
              \/ secret'[Target[t]].rv = secret[Target[t]].rv + 1
  <1>1. Target[t] \in Names /\ Keys[t] \subseteq AllKeys
    BY NameFacts
  <1>2. Target[t] = Target[u] => Keys[t] \cap Keys[u] = {} /\ ~Kind(u).replaces
    BY DEF Apart
  <1>. QED BY <1>1, <1>2 DEF Wrote

\* Task u ends an attempt, whether or not it has written its target.
LEMMA AttemptEnds ==
    ASSUME Apart, SyncTypeOK, SyncTypeOK', InStep, NEW u \in Tasks,
           UNCHANGED <<command, source>>,
           UNCHANGED secret \/ (step[u] = "write" /\ Wrote(u)),
           held' = [held EXCEPT ![u] = NoData],
           copy' = [copy EXCEPT ![u] = NoSecret],
           step' = [step EXCEPT ![u] = step'[u]],
           \/ step'[u] \in {"read", "failed"} /\ since' = [since EXCEPT ![u] = source]
           \/ /\ step'[u] = "done" /\ since' = since
              /\ command = "ensure" => /\ secret'[Target[u]].live
                                       /\ \A k \in Keys[u] :
                                             secret'[Target[u]].data[k] >= since[u][k]
    PROVE  InStep'
  <1>1. CopiesKnown'
    <2>1. \A n \in Names : ~secret'[n].live => secret'[n].data = NoData
      BY DEF Wrote, InStep, CopiesKnown
    <2>2. ASSUME NEW t \in Tasks, step'[t] = "write"
          PROVE  /\ copy'[t].rv <= secret'[Target[t]].rv
                 /\ copy'[t].rv = secret'[Target[t]].rv => copy'[t] = secret'[Target[t]]
      <3>1. t # u /\ step[t] = "write" /\ copy'[t] = copy[t]
        BY <2>2 DEF SyncTypeOK
      <3>2. copy[t].rv \in Nat /\ secret[Target[t]].rv \in Nat
        BY NameFacts DEF SyncTypeOK, Stored
      <3>. QED BY <3>1, <3>2, OthersUntouched DEF InStep, CopiesKnown
    <2>. QED BY <2>1, <2>2 DEF CopiesKnown
  <1>2. HeldIsNewer'
    <2>1. ASSUME NEW t \in Tasks, t # u
          PROVE  /\ step'[t] = step[t] /\ held'[t] = held[t] /\ since'[t] = since[t]
                 /\ \A k \in Keys[t] : secret'[Target[t]].data[k] = secret[Target[t]].data[k]
      BY <2>1, OthersUntouched DEF SyncTypeOK
    <2>2. /\ step'[u] \notin {"get", "write"} /\ held'[u] = NoData
          /\ since'[u] = source \/ since'[u] = since[u]
      BY DEF SyncTypeOK
    <2>3. command = "ensure" => \A k \in Keys[u] : secret'[Target[u]].data[k] <= source[k]
      <3>1. CASE UNCHANGED secret
        BY <3>1 DEF InStep, HeldIsNewer, Now
      <3>2. CASE step[u] = "write" /\ Wrote(u)
        BY <3>2 DEF Wrote, InStep, HeldIsNewer
      <3>. QED BY <3>1, <3>2
    <2>4. \A k \in Keys[u] : source[k] \in Nat /\ NoData[k] = 0
      BY NameFacts DEF SyncTypeOK, NoData
    <2>. QED BY <2>1, <2>2, <2>3, <2>4 DEF InStep, HeldIsNewer, Now
  <1>3. OwnKeysStand'
    <2>1. ASSUME NEW t \in Tasks, step'[t] = "write"
          PROVE  t # u /\ step[t] = "write" /\ copy'[t] = copy[t]
      BY <2>1 DEF SyncTypeOK
    <2>. QED BY <2>1, OthersUntouched DEF InStep, OwnKeysStand, Now
  <1>4. SuccessMeansSynced'
    <2>1. ASSUME NEW t \in Tasks, t # u
          PROVE  step'[t] = step[t] /\ since'[t] = since[t]
      BY <2>1 DEF SyncTypeOK
    <2>. QED BY <2>1, OthersUntouched DEF InStep, SuccessMeansSynced, Now
  <1>. QED BY <1>1, <1>2, <1>3, <1>4 DEF InStep

-----------------------------------------------------------------------------
(* Every action keeps them.                                                *)

\* What the other tasks see stays as it was.
LEMMA ReadStep ==
    ASSUME Apart, SyncTypeOK, SyncTypeOK', InStep, NEW u \in Tasks, Read(u)
    PROVE  InStep'
  <1>1. CASE Failed(u)
    <2>1. step'[u] \in {"read", "failed"} /\ UNCHANGED <<command, source, secret>>
      BY <1>1, FailedFacts DEF Read
    <2>. QED BY <1>1, <2>1, FailedFacts, AttemptEnds
  <1>2. ASSUME NEW ks \in Batches(u),
               held' = [held EXCEPT ![u] =
                            [k \in AllKeys |-> IF k \in ks THEN source[k] ELSE held[u][k]]],
               GoOn(u, IF ks = Unread(u) THEN "get" ELSE "read"),
               UNCHANGED copy
        PROVE  InStep'
    <2>1. /\ UNCHANGED <<command, source, secret, copy, since>>
          /\ command = "ensure" /\ step[u] = "read"
      BY <1>2 DEF Read, GoOn
    <2>2. \A t \in Tasks \ {u} : step'[t] = step[t] /\ held'[t] = held[t]
      BY <1>2 DEF GoOn, SyncTypeOK
    <2>3. /\ step'[u] \in {"read", "get"}
          /\ step'[u] = "get" => ks = Unread(u)
      BY <1>2 DEF GoOn, SyncTypeOK
    <2>4. \A k \in AllKeys : held'[u][k] = IF k \in ks THEN source[k] ELSE held[u][k]
      BY <1>2 DEF SyncTypeOK
    <2>5. CopiesKnown'
      BY <2>1, <2>2, <2>3 DEF InStep, CopiesKnown
    <2>6. HeldIsNewer'
      <3>1. ASSUME NEW k \in Keys[u]
            PROVE  /\ step'[u] = "get" => held'[u][k] # 0
                   /\ held'[u][k] # 0 => /\ since[u][k] <= held'[u][k]
                                         /\ held'[u][k] <= source[k]
                                         /\ Now(u, k) <= held'[u][k]
        <4>1. k \in AllKeys /\ source[k] \in Nat \ {0}
          BY NameFacts DEF SyncTypeOK
        <4>2. /\ since[u][k] <= source[k] /\ Now(u, k) <= source[k]
              /\ held[u][k] # 0 => /\ since[u][k] <= held[u][k]
                                   /\ held[u][k] <= source[k]
                                   /\ Now(u, k) <= held[u][k]
          BY <2>1 DEF InStep, HeldIsNewer
        <4>3. step'[u] = "get" => k \in ks \/ held[u][k] # 0
          BY <2>3 DEF Unread
        <4>. QED BY <2>4, <4>1, <4>2, <4>3
      <3>. QED BY <2>1, <2>2, <2>3, <3>1 DEF InStep, HeldIsNewer, Now
    <2>7. OwnKeysStand' /\ SuccessMeansSynced'
      BY <2>1, <2>2, <2>3 DEF InStep, OwnKeysStand, SuccessMeansSynced, Now
    <2>. QED BY <2>5, <2>6, <2>7 DEF InStep
  <1>. QED BY <1>1, <1>2 DEF Read

LEMMA GetTargetStep ==
    ASSUME Apart, SyncTypeOK, SyncTypeOK', InStep, NEW u \in Tasks, GetTarget(u)
    PROVE  InStep'
  <1>1. CASE Failed(u)
    <2>1. step'[u] \in {"read", "failed"} /\ UNCHANGED <<command, source, secret>>
      BY <1>1, FailedFacts DEF GetTarget
    <2>. QED BY <1>1, <2>1, FailedFacts, AttemptEnds
  <1>2. CASE copy' = [copy EXCEPT ![u] = secret[Target[u]]] /\ GoOn(u, "write")
             /\ UNCHANGED held
    <2>1. UNCHANGED <<command, source, secret, held, since>> /\ step[u] = "get"
      BY <1>2 DEF GetTarget, GoOn
    <2>2. \A t \in Tasks \ {u} : step'[t] = step[t] /\ copy'[t] = copy[t]
      BY <1>2 DEF GoOn, SyncTypeOK
    <2>3. step'[u] = "write" /\ copy'[u] = secret[Target[u]]
      BY <1>2 DEF GoOn, SyncTypeOK
    <2>4. secret[Target[u]].rv \in Nat
      BY NameFacts DEF SyncTypeOK, Stored
    <2>5. CopiesKnown'
      BY <2>1, <2>2, <2>3, <2>4 DEF InStep, CopiesKnown
    <2>6. HeldIsNewer'
      BY <2>1, <2>2, <2>3 DEF InStep, HeldIsNewer, Now
    <2>7. OwnKeysStand' /\ SuccessMeansSynced'
      BY <2>1, <2>2, <2>3 DEF InStep, OwnKeysStand, SuccessMeansSynced, Now
    <2>. QED BY <2>5, <2>6, <2>7 DEF InStep
  <1>. QED BY <1>1, <1>2 DEF GetTarget

LEMMA WriteStep ==
    ASSUME Apart, SyncTypeOK, SyncTypeOK', InStep, NEW u \in Tasks, Write(u)
    PROVE  InStep'
  <1>1. /\ UNCHANGED <<command, source>> /\ step[u] = "write"
        /\ UNCHANGED secret \/ Wrote(u)
    BY WriteFacts DEF Write, InStep
  <1>2. CASE Failed(u)
    <2>1. step'[u] \in {"read", "failed"}
      BY <1>2, FailedFacts
    <2>. QED BY <1>1, <1>2, <2>1, FailedFacts, AttemptEnds
  <1>3. CASE Done(u)
    <2>1. command = "ensure" /\ \A k \in Keys[u] : since[u][k] <= held[u][k]
      BY <1>1 DEF InStep, HeldIsNewer
    <2>2. /\ secret'[Target[u]].live
          /\ \A k \in Keys[u] : secret'[Target[u]].data[k] = held[u][k]
      <3>1. CASE Wrote(u)
        BY <3>1 DEF Wrote
      <3>2. CASE UNCHANGED secret /\ Mutated(u) = copy[u]
        <4>1. copy[u].live /\ \A k \in Keys[u] : copy[u].data[k] = held[u][k]
          BY <3>2, MutatedFacts
        <4>. QED BY <1>1, <2>1, <3>2, <4>1 DEF InStep, OwnKeysStand, Now
      <3>3. ~Failed(u)
        <4>1. step'[u] = "done"
          BY <1>3, DoneFacts DEF SyncTypeOK
        <4>. QED BY <4>1, FailedFacts
      <3>. QED BY <3>1, <3>2, <3>3, WriteFacts DEF InStep
    <2>3. step'[u] = "done"
      BY <1>3, DoneFacts DEF SyncTypeOK
    <2>. QED BY <1>1, <1>3, <2>1, <2>2, <2>3, DoneFacts, AttemptEnds
  <1>. QED BY <1>2, <1>3 DEF Write

LEMMA RemoveStep ==
    ASSUME Apart, SyncTypeOK, SyncTypeOK', InStep, NEW u \in Tasks, Remove(u)
    PROVE  InStep'
  <1>1. command = "delete" /\ UNCHANGED <<command, source>>
    BY DEF Remove
  <1>2. \A t \in Tasks : step[t] \notin {"get", "write"}
    BY <1>1 DEF InStep, HeldIsNewer
  <1>3. \A t \in Tasks : step'[t] \notin {"get", "write"}
    BY <1>2, FailedFacts, DoneFacts DEF Remove, SyncTypeOK
  <1>4. UNCHANGED secret \/ Gone(Removes(u))
    BY DEF Remove
  <1>5. \A n \in Names : ~secret'[n].live => secret'[n].data = NoData
    <2>1. CASE Gone(Removes(u))
      <3>. DEFINE w == [NoSecret EXCEPT !.rv = secret[Removes(u)].rv]
      <3>1. w \in Stored /\ w.data = NoData
        BY InitialData, NameFacts DEF SyncTypeOK, Stored
      <3>2. Store(Removes(u), w)
        BY <2>1 DEF Gone
      <3>. HIDE DEF w
      <3>. QED BY <3>1, <3>2, NameFacts, StoreFacts DEF InStep, CopiesKnown
    <2>. QED BY <1>4, <2>1 DEF InStep, CopiesKnown
  <1>. QED BY <1>1, <1>3, <1>5
           DEF InStep, CopiesKnown, HeldIsNewer, OwnKeysStand, SuccessMeansSynced

LEMMA RotateStep ==
    ASSUME SyncTypeOK, InStep, NEW j \in AllKeys \ Others, Rotate(j)
    PROVE  InStep'
  <1>1. UNCHANGED <<command, secret, step, held, copy, since>>
    BY DEF Rotate, taskVars
  <1>2. \A k \in AllKeys : source[k] \in Nat /\ source[k] <= source'[k]
    BY DEF Rotate, SyncTypeOK
  <1>3. HeldIsNewer'
    <2>1. ASSUME NEW t \in Tasks, NEW k \in Keys[t]
          PROVE  /\ k \in AllKeys /\ since[t][k] \in Nat /\ held[t][k] \in Nat
                 /\ Now(t, k) \in Nat
      BY NameFacts DEF SyncTypeOK, Stored, Now
    <2>2. ASSUME NEW t \in Tasks, NEW k \in Keys[t], command = "ensure"
          PROVE  /\ since[t][k] <= source'[k]
                 /\ Now(t, k) <= source'[k]
                 /\ held[t][k] # 0 => held[t][k] <= source'[k]
      <3>1. /\ since[t][k] <= source[k] /\ Now(t, k) <= source[k]
            /\ held[t][k] # 0 => held[t][k] <= source[k]
        BY <2>2 DEF InStep, HeldIsNewer
      <3>2. source'[k] \in Nat /\ source[k] \in Nat /\ source[k] <= source'[k]
        BY <1>2, <2>1 DEF Rotate, SyncTypeOK
      <3>. QED BY <2>1, <3>1, <3>2
    <2>. QED BY <1>1, <2>2 DEF InStep, HeldIsNewer, Now
  <1>. QED BY <1>1, <1>3 DEF InStep, CopiesKnown, OwnKeysStand, SuccessMeansSynced, Now

LEMMA TouchStep ==
    ASSUME SyncTypeOK, InStep, NEW n \in Names, NEW j \in Others, Touch(n, j)
    PROVE  InStep'
  <1>1. UNCHANGED <<command, source, step, held, copy, since>>
    BY DEF Touch, taskVars
  <1>2. ASSUME NEW t \in Tasks
        PROVE  /\ secret'[Target[t]].live <=> secret[Target[t]].live
               /\ \A k \in Keys[t] : secret'[Target[t]].data[k] = secret[Target[t]].data[k]
               /\ \/ secret'[Target[t]] = secret[Target[t]]
                  \/ secret'[Target[t]].rv = secret[Target[t]].rv + 1
    <2>1. Target[t] \in Names /\ \A k \in Keys[t] : k \in AllKeys \ Others
      BY NameFacts, OtherKeys
    <2>2. CASE Target[t] = n
      BY <2>1, <2>2, TouchFacts
    <2>3. CASE Target[t] # n
      BY <2>1, <2>3, TouchFacts
    <2>. QED BY <2>2, <2>3
  <1>3. CopiesKnown'
    <2>1. \A m \in Names : ~secret'[m].live => secret'[m].data = NoData
      BY TouchFacts DEF InStep, CopiesKnown
    <2>2. \A t \in Tasks : copy[t].rv \in Nat /\ secret[Target[t]].rv \in Nat
      BY NameFacts DEF SyncTypeOK, Stored
    <2>. QED BY <1>1, <1>2, <2>1, <2>2 DEF InStep, CopiesKnown
  <1>4. HeldIsNewer'
    BY <1>1, <1>2 DEF InStep, HeldIsNewer, Now
  <1>5. OwnKeysStand' /\ SuccessMeansSynced'
    BY <1>1, <1>2 DEF InStep, OwnKeysStand, SuccessMeansSynced, Now
  <1>. QED BY <1>3, <1>4, <1>5 DEF InStep

LEMMA InStepStep ==
    ASSUME Apart, SyncTypeOK, InStep, [Next]_vars
    PROVE  InStep'
  <1>1. SyncTypeOK'
    BY SyncTypeStep
  <1>2. CASE UNCHANGED vars
    BY <1>2 DEF vars, taskVars, InStep, CopiesKnown, HeldIsNewer, OwnKeysStand,
                SuccessMeansSynced, Now
  <1>. QED BY <1>1, <1>2, ReadStep, GetTargetStep, WriteStep, RemoveStep, RotateStep,
              TouchStep DEF Next, Ensure

-----------------------------------------------------------------------------
(* The results.                                                            *)

\* The states of every behaviour have the types stated.
THEOREM TypesCorrect == Spec => []SyncTypeOK
  <1>1. Init => SyncTypeOK
    BY SyncInvInit
  <1>2. SyncTypeOK /\ [Next]_vars => SyncTypeOK'
    BY SyncTypeStep
  <1>. QED BY <1>1, <1>2, PTL DEF Spec

\* Copies, values and keys stay in step with the targets
\* (rediskeys.go:64-119, tlssecret.go:68-154).
THEOREM InStepAlways ==
    ASSUME Apart
    PROVE  Spec => []SyncInv
  <1>1. Init => SyncInv
    BY SyncInvInit DEF SyncInv, InStep
  <1>2. SyncInv /\ [Next]_vars => SyncInv'
    BY SyncTypeStep, InStepStep DEF SyncInv, InStep
  <1>. QED BY <1>1, <1>2, PTL DEF Spec

\* A task that has succeeded has all its keys in its target, no older than
\* they were in Azure when the task last started (ensure.go:434-458).
THEOREM Synced ==
    ASSUME Apart
    PROVE  Spec => []SuccessMeansSynced
  <1>1. SyncInv => SuccessMeansSynced
    BY DEF SyncInv
  <1>. QED BY <1>1, InStepAlways, PTL

\* Keys of others survive the writes of a task (rediskeys.go:85,
\* servicebuskey.go:104, tlssecret.go:129).
THEOREM OthersKept ==
    ASSUME Apart, Merging
    PROVE  Spec => KeepsOthers
  <1>. DEFINE Kept == \A t \in Tasks : step[t] = "write" /\ step'[t] # "write" =>
          \A k \in AllKeys \ Keys[t] :
             secret'[Target[t]].data[k] = Now(t, k)
  <1>1. ASSUME SyncInv, Next
        PROVE  Kept
    <2>. SUFFICES ASSUME NEW t \in Tasks, step[t] = "write", step'[t] # "write",
                         NEW k \in AllKeys \ Keys[t]
                  PROVE  secret'[Target[t]].data[k] = Now(t, k)
      OBVIOUS
    <2>1. SyncTypeOK /\ CopiesKnown
      BY <1>1 DEF SyncInv
    <2>2. Write(t)
      <3>1. ASSUME NEW u \in Tasks, Read(u) \/ GetTarget(u) \/ Remove(u) \/ Write(u)
            PROVE  u = t /\ Write(t)
        <4>1. step' = [step EXCEPT ![u] = step'[u]]
          BY <2>1, <3>1, FailedFacts, DoneFacts DEF Read, GetTarget, Remove, Write, GoOn, SyncTypeOK
        <4>2. u = t
          BY <2>1, <4>1 DEF SyncTypeOK
        <4>. QED BY <3>1, <4>2 DEF Read, GetTarget, Remove
      <3>2. ~UNCHANGED step
        OBVIOUS
      <3>. QED BY <1>1, <3>1, <3>2 DEF Next, Ensure, Rotate, Touch, taskVars
    <2>. QED BY <2>1, <2>2, WriteFacts DEF Wrote, Now, Merging
  <1>2. SyncInv /\ [Next]_vars => [Kept]_vars
    BY <1>1
  <1>. QED BY <1>2, InStepAlways, PTL DEF Spec, KeepsOthers

\* No value in a target is replaced by an older one (secrets.go:68).
THEOREM Forward ==
    ASSUME Apart
    PROVE  Spec => ValuesGoForward
  <1>. DEFINE Later == command = "ensure" =>
          \A t \in Tasks : \A k \in Keys[t] : secret'[Target[t]].data[k] >= Now(t, k)
  <1>1. ASSUME SyncInv, Next
        PROVE  Later
    <2>. SUFFICES ASSUME command = "ensure", NEW t \in Tasks, NEW k \in Keys[t]
                  PROVE  secret'[Target[t]].data[k] >= Now(t, k)
      OBVIOUS
    <2>1. /\ SyncTypeOK /\ CopiesKnown /\ HeldIsNewer
          /\ k \in AllKeys /\ k \notin Others /\ Target[t] \in Names
      BY <1>1, NameFacts, OtherKeys DEF SyncInv
    <2>2. Now(t, k) \in Nat
      BY <2>1 DEF SyncTypeOK, Stored, Now
    <2>3. CASE UNCHANGED secret
      BY <2>2, <2>3 DEF Now
    <2>4. ASSUME NEW u \in Tasks, Write(u)
          PROVE  secret'[Target[t]].data[k] >= Now(t, k)
      <3>1. step[u] = "write" /\ (UNCHANGED secret \/ Wrote(u))
        BY <2>1, <2>4, WriteFacts DEF Write
      <3>2. CASE u = t /\ Wrote(t)
        <4>1. held[t][k] # 0 /\ held[t][k] \in Nat
          BY <2>1, <3>1, <3>2 DEF HeldIsNewer, SyncTypeOK
        <4>2. Now(t, k) <= held[t][k]
          BY <2>1, <4>1 DEF HeldIsNewer
        <4>. QED BY <2>2, <3>2, <4>1, <4>2 DEF Wrote
      <3>. QED BY <2>1, <2>2, <2>3, <3>1, <3>2, OthersUntouched DEF Now
    <2>5. ASSUME NEW n \in Names, NEW j \in Others, Touch(n, j)
          PROVE  secret'[Target[t]].data[k] >= Now(t, k)
      BY <2>1, <2>2, <2>5, TouchFacts DEF Now
    <2>. QED BY <1>1, <2>3, <2>4, <2>5
             DEF Next, Ensure, Read, GetTarget, Remove, Rotate
  <1>2. SyncInv /\ [Next]_vars => [Later]_vars
    BY <1>1
  <1>. QED BY <1>2, InStepAlways, PTL DEF Spec, ValuesGoForward

-----------------------------------------------------------------------------
(* Delete, for the clients that remove what Ensure makes.                  *)

\* The secret Delete removes is the one Ensure writes: so for Redis and Service
\* Bus keys, and for a secret called in Kubernetes as its value is in Azure.
RemovesTarget == \A t \in Tasks : Kind(t).deletes # "nothing" /\ Removes(t) = Target[t]

\* Only Ensure turns to the target.
EnsureOnly == \A t \in Tasks : step[t] \in {"get", "write"} => command = "ensure"

\* A target that has gone is not made again (rediskeys.go:122-134).
LEMMA GoneStaysGone ==
    ASSUME RemovesTarget, SyncTypeOK, EnsureOnly, DeletedMeansGone, [Next]_vars
    PROVE  EnsureOnly' /\ DeletedMeansGone'
  <1>. DEFINE Inv == EnsureOnly' /\ DeletedMeansGone'
  <1>1. /\ step \in [Tasks -> {"read", "get", "write", "done", "failed"}]
        /\ secret \in [Names -> Stored]
        /\ \A t \in Tasks : Target[t] \in Names
    BY NameFacts DEF SyncTypeOK
  <1>2. ASSUME NEW t \in Tasks, GetTarget(t) \/ Write(t) \/ Read(t)
        PROVE  Inv
    <2>1. command = "ensure" /\ command' = command
      BY <1>2 DEF EnsureOnly, GetTarget, Write, Read
    <2>. QED BY <2>1 DEF EnsureOnly, DeletedMeansGone
  <1>3. ASSUME NEW t \in Tasks, Remove(t)
        PROVE  Inv
    <2>1. \/ /\ Failed(t)
             /\ UNCHANGED secret \/ Gone(Target[t])
          \/ /\ Done(t)
             /\ \/ UNCHANGED secret /\ ~secret[Target[t]].live
                \/ Gone(Target[t])
      BY <1>3 DEF Remove, RemovesTarget, Present
    <2>2. \/ step' = [step EXCEPT ![t] = "done"]
          \/ step' = [step EXCEPT ![t] = step'[t]] /\ step'[t] \in {"read", "failed"}
      BY <2>1, FailedFacts, DoneFacts
    <2>3. command = "delete" /\ command' = "delete"
      BY <1>3 DEF Remove
    <2>4. \A u \in Tasks : step'[u] \notin {"get", "write"}
      BY <1>1, <2>2, <2>3 DEF EnsureOnly
    <2>5. Gone(Target[t]) => /\ ~secret'[Target[t]].live
                             /\ \A n \in Names \ {Target[t]} : secret'[n] = secret[n]
      <3>. DEFINE w == [NoSecret EXCEPT !.rv = secret[Target[t]].rv]
      <3>1. w \in Stored /\ ~w.live
        BY <1>1, InitialData DEF Stored
      <3>2. Gone(Target[t]) => Store(Target[t], w)
        BY DEF Gone
      <3>. HIDE DEF w
      <3>. QED BY <1>1, <3>1, <3>2, StoreFacts
    <2>6. ASSUME NEW u \in Tasks, step'[u] = "done"
          PROVE  ~secret'[Target[u]].live
      <3>1. CASE u = t
        <4>1. Done(t)
          BY <1>1, <2>1, <2>6, <3>1, FailedFacts
        <4>2. ~Failed(t)
          BY <2>6, <3>1, FailedFacts
        <4>. QED BY <2>1, <2>5, <3>1, <4>1, <4>2
      <3>2. CASE u # t
        <4>1. step[u] = "done"
          BY <1>1, <2>2, <2>6, <3>2
        <4>2. ~secret[Target[u]].live
          BY <2>3, <4>1 DEF DeletedMeansGone
        <4>. QED BY <1>1, <2>1, <2>5, <4>2
      <3>. QED BY <3>1, <3>2
    <2>. QED BY <2>4, <2>6 DEF EnsureOnly, DeletedMeansGone
  <1>4. ASSUME NEW n \in Names, NEW k \in Others, Touch(n, k)
        PROVE  Inv
    <2>1. /\ UNCHANGED <<command, step>>
          /\ \A m \in Names : secret'[m].live <=> secret[m].live
      BY <1>4, TouchFacts DEF Touch, taskVars
    <2>. QED BY <1>1, <2>1 DEF EnsureOnly, DeletedMeansGone
  <1>5. CASE UNCHANGED <<command, step, secret>>
    BY <1>5 DEF EnsureOnly, DeletedMeansGone
  <1>. QED BY <1>2, <1>3, <1>4, <1>5 DEF Next, Ensure, Rotate, vars, taskVars

\* When Delete has returned without error the secret has gone, and stays away.
THEOREM Removed ==
    ASSUME RemovesTarget
    PROVE  Spec => []DeletedMeansGone
  <1>1. Init => SyncTypeOK /\ EnsureOnly /\ DeletedMeansGone
    BY SyncInvInit DEF Init, EnsureOnly, DeletedMeansGone
  <1>2. SyncTypeOK /\ EnsureOnly /\ DeletedMeansGone /\ [Next]_vars =>
            SyncTypeOK' /\ EnsureOnly' /\ DeletedMeansGone'
    BY SyncTypeStep, GoneStaysGone
  <1>. QED BY <1>1, <1>2, PTL DEF Spec
=============================================================================
