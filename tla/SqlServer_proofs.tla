-------------------------- MODULE SqlServer_proofs --------------------------
(***************************************************************************)
(* Proofs about SqlServer, for any number of incarnations, edits and       *)
(* faults; what is said of the credentials, if a name is used again only   *)
(* once the cache has caught up.                                           *)
(***************************************************************************)
EXTENDS SqlServer, TLAPS

\* The stored version is a version, and so is the cached one.
LEMMA VersionFacts ==
    ASSUME SqlTypeOK
    PROVE  /\ Len(secrets) \in Nat \ {0}
           /\ cached = secrets[1] /\ cached \in Nat /\ secret \in Nat
           /\ \A i \in 1..Len(secrets) : secrets[i] \in Nat
  <1>1. secrets \in Seq(Nat) /\ secrets # <<>>
    BY DEF SqlTypeOK
  <1>2. Len(secrets) \in Nat \ {0}
    BY <1>1
  <1>3. \A i \in 1..Len(secrets) : secrets[i] \in Nat
    BY <1>1
  <1>4. cached = secrets[1]
    BY <1>1 DEF cached
  <1>. QED BY <1>2, <1>3, <1>4 DEF secret

\* A write becomes the stored version; the older ones stay.
LEMMA AppendFacts ==
    ASSUME SqlTypeOK, NEW v \in Nat, secrets' = Append(secrets, v)
    PROVE  /\ secrets' \in Seq(Nat) /\ secrets' # <<>> /\ secret' = v
           /\ Len(secrets') = Len(secrets) + 1
           /\ \A i \in 1..Len(secrets) : secrets'[i] = secrets[i]
  <1>1. secrets \in Seq(Nat)
    BY DEF SqlTypeOK
  <1>2. /\ secrets' \in Seq(Nat) /\ Len(secrets') = Len(secrets) + 1
        /\ secrets'[Len(secrets) + 1] = v
        /\ \A i \in 1..Len(secrets) : secrets'[i] = secrets[i]
    BY <1>1
  <1>3. secrets' # <<>>
    BY <1>1, <1>2
  <1>. QED BY <1>2, <1>3 DEF secret

\* The cache catches up by one version; the stored one stays.
LEMMA TailFacts ==
    ASSUME SqlTypeOK, Len(secrets) > 1, secrets' = Tail(secrets)
    PROVE  /\ secrets' \in Seq(Nat) /\ secrets' # <<>> /\ secret' = secret
           /\ Len(secrets') = Len(secrets) - 1
           /\ \A i \in 1..Len(secrets') : secrets'[i] = secrets[i + 1]
  <1>1. secrets \in Seq(Nat)
    BY DEF SqlTypeOK
  <1>2. /\ secrets' \in Seq(Nat) /\ Len(secrets') = Len(secrets) - 1
        /\ \A i \in 1..(Len(secrets) - 1) : secrets'[i] = secrets[i + 1]
    BY <1>1
  <1>. DEFINE n == Len(secrets) - 1
  <1>3. secrets' # <<>> /\ n \in 1..n /\ Len(secrets') = n /\ n + 1 = Len(secrets)
    <2>1. Len(secrets) \in Nat
      BY <1>1
    <2>2. n \in Nat /\ n >= 1 /\ n + 1 = Len(secrets)
      BY <2>1
    <2>3. Len(secrets') # 0 /\ Len(<<>>) = 0
      BY <1>2, <2>2
    <2>4. secrets' # <<>>
      BY <2>3
    <2>. QED BY <1>2, <2>2, <2>4
  <1>4. secrets'[n] = secrets[n + 1]
    BY <1>2, <1>3
  <1>5. secret' = secret
    BY <1>3, <1>4 DEF secret
  <1>. QED BY <1>2, <1>3, <1>5

LEMMA SqlInit ==
    ASSUME Init
    PROVE  SqlInv
  <1>1. secrets = <<0>> /\ Len(secrets) = 1 /\ secret = 0 /\ secrets \in Seq(Nat)
    BY DEF Init, secret
  <1>2. SqlTypeOK
    <2>1. secrets # <<>>
      BY <1>1
    <2>2. NoServer \in [login : Nat, password : Nat]
      BY DEF NoServer
    <2>. QED BY <1>1, <2>1, <2>2 DEF Init, SqlTypeOK
  <1>3. CacheHonest /\ CredentialsOpen /\ NothingLeft
    BY <1>1 DEF Init, CacheHonest, CredentialsOpen, NothingLeft
  <1>4. StepsInOrder
    BY DEF Init, StepsInOrder, EnsurePath, DeletePath
  <1>. QED BY <1>2, <1>3, <1>4 DEF SqlInv

LEMMA SqlTypeStep ==
    ASSUME SqlTypeOK, [Next]_vars
    PROVE  SqlTypeOK'
  <1>. USE DEF SqlTypeOK, EnsurePath, DeletePath, Return, GoOn, Fault,
               objectVars, secretVars, azureVars, localVars
  <1>1. CASE StartEnsure
    BY <1>1 DEF StartEnsure
  <1>2. CASE GetServer
    <2>1. (server # NoServer) \in BOOLEAN
      OBVIOUS
    <2>2. found' \in BOOLEAN
      BY <1>2, <2>1 DEF GetServer
    <2>. QED BY <1>2, <2>2 DEF GetServer
  <1>3. CASE GetSecret
    BY <1>3, VersionFacts DEF GetSecret
  <1>4. CASE CreateSecret
    <2>1. secrets' \in Seq(Nat) /\ secrets' # <<>> /\ made' \in Nat
      BY <1>4, AppendFacts DEF CreateSecret, StoreCreds
    <2>. QED BY <1>4, <2>1 DEF CreateSecret
  <1>5. CASE PutServer
    BY <1>5 DEF PutServer, SetServer
  <1>6. CASE SetRule
    BY <1>6 DEF SetRule
  <1>7. CASE StartDelete
    BY <1>7 DEF StartDelete
  <1>8. CASE DeleteSecret
    <2>1. secrets' \in Seq(Nat) /\ secrets' # <<>>
      BY <1>8, AppendFacts DEF DeleteSecret, DropSecret
    <2>. QED BY <1>8, <2>1 DEF DeleteSecret
  <1>9. CASE DeleteServer
    <2>1. NoServer \in [login : Nat, password : Nat]
      BY DEF NoServer
    <2>2. server' \in [login : Nat, password : Nat] /\ rule' \in BOOLEAN
      BY <1>9, <2>1 DEF DeleteServer, DropServer
    <2>3. pc' \in {"idle", "release"} /\ result' \in {"none", "ok", "err"} /\ faults' \in Nat
      BY <1>9 DEF DeleteServer
    <2>. QED BY <1>9, <2>2, <2>3 DEF DeleteServer
  <1>10. CASE Release
    BY <1>10 DEF Release
  <1>11. CASE Crash
    BY <1>11 DEF Crash
  <1>12. CASE Deliver
    BY <1>12, TailFacts DEF Deliver
  <1>13. CASE UserCreate \/ UserEdit \/ UserDelete
    <2>1. (~allow) \in BOOLEAN
      OBVIOUS
    <2>2. allow' \in BOOLEAN
      BY <1>13, <2>1 DEF UserCreate, UserEdit, UserDelete
    <2>3. /\ phase' \in {"none", "wanted", "deleting", "torn"}
          /\ inc' \in Nat /\ edits' \in Nat
      BY <1>13 DEF UserCreate, UserEdit, UserDelete
    <2>4. UNCHANGED <<faults, secretVars, azureVars, pc, localVars, result>>
      BY <1>13 DEF UserCreate, UserEdit, UserDelete
    <2>. QED BY <2>2, <2>3, <2>4
  <1>14. CASE UNCHANGED vars
    BY <1>14 DEF vars
  <1>. QED BY <1>1, <1>2, <1>3, <1>4, <1>5, <1>6, <1>7, <1>8, <1>9, <1>10, <1>11, <1>12,
              <1>13, <1>14 DEF Next, Ensure, Delete, Outside

-----------------------------------------------------------------------------
(* The parts of the invariant other than the types.                        *)

InOrder == CacheHonest /\ StepsInOrder /\ CredentialsOpen /\ NothingLeft

\* A step that leaves the secret, the server and the object alone keeps what
\* is said of them.
LEMMA WorldStays ==
    ASSUME SqlTypeOK, InOrder, UNCHANGED <<phase, secrets, server>>,
           phase = "none" => UNCHANGED rule
    PROVE  CacheHonest' /\ CredentialsOpen' /\ NothingLeft' /\ UNCHANGED <<secret, cached>>
  <1>1. UNCHANGED <<secret, cached>>
    BY DEF secret, cached
  <1>. QED BY <1>1 DEF InOrder, CacheHonest, CredentialsOpen, NothingLeft

LEMMA EnsureStep ==
    ASSUME SqlTypeOK, InOrder, Ensure
    PROVE  InOrder'
  <1>. USE DEF EnsurePath, DeletePath, Return, GoOn, objectVars, secretVars, azureVars,
               localVars
  <1>1. CASE StartEnsure \/ GetServer \/ GetSecret \/ SetRule
    <2>1. /\ UNCHANGED <<phase, secrets, server>> /\ phase # "none"
          /\ phase \in {"wanted", "deleting"}
      BY <1>1 DEF StartEnsure, GetServer, GetSecret, SetRule, InOrder, StepsInOrder
    <2>2. CacheHonest' /\ CredentialsOpen' /\ NothingLeft' /\ UNCHANGED <<secret, cached>>
      BY <2>1, WorldStays
    <2>3. cached \in {0, secret}
      <3>1. 1 \in 1..Len(secrets) /\ cached = secrets[1]
        BY VersionFacts
      <3>. QED BY <2>1, <3>1 DEF InOrder, CacheHonest
    <2>4. StepsInOrder'
      BY <1>1, <2>1, <2>2, <2>3
         DEF StartEnsure, GetServer, GetSecret, SetRule, InOrder, StepsInOrder
    <2>. QED BY <2>2, <2>4 DEF InOrder
  <1>2. CASE CreateSecret
    <2>1. phase' = phase /\ server' = server /\ phase \in {"wanted", "deleting"} /\ pc = "createSecret"
      BY <1>2 DEF CreateSecret, InOrder, StepsInOrder
    <2>2. CASE UNCHANGED secrets /\ pc' = "idle"
      <3>1. CacheHonest' /\ CredentialsOpen' /\ NothingLeft'
        BY <2>1, <2>2, WorldStays
      <3>2. StepsInOrder'
        BY <2>2 DEF StepsInOrder
      <3>. QED BY <3>1, <3>2 DEF InOrder
    <2>3. CASE secret = 0 /\ StoreCreds /\ pc' \in {"idle", "putServer"}
      <3>1. /\ secret' = made + 1 /\ Len(secrets') = Len(secrets) + 1
            /\ \A i \in 1..Len(secrets) : secrets'[i] = secrets[i]
        <4>1. made + 1 \in Nat /\ secrets' = Append(secrets, made + 1)
          BY <2>3 DEF StoreCreds, SqlTypeOK
        <4>. QED BY <4>1, AppendFacts
      <3>2. CacheHonest'
        <4>1. ASSUME NEW i \in 1..Len(secrets')
              PROVE  secrets'[i] \in {0, secret'}
          <5>1. CASE i = Len(secrets')
            BY <5>1 DEF secret
          <5>2. CASE i # Len(secrets')
            <6>1. i \in 1..Len(secrets)
              BY <3>1, <5>2, VersionFacts
            <6>. QED BY <2>1, <2>3, <3>1, <6>1 DEF InOrder, CacheHonest
          <5>. QED BY <5>1, <5>2
        <4>. QED BY <4>1 DEF CacheHonest
      <3>3. server = NoServer
        BY <2>1, <2>3 DEF InOrder, CredentialsOpen
      <3>4. StepsInOrder'
        <4>1. pc' = "putServer" => creds' = secret' /\ creds' # 0
          BY <1>2, <2>3, <3>1 DEF CreateSecret, SqlTypeOK
        <4>. QED BY <2>1, <2>3, <4>1 DEF StepsInOrder
      <3>. QED BY <2>1, <3>2, <3>3, <3>4 DEF InOrder, CredentialsOpen, NothingLeft
    <2>. QED BY <1>2, <2>2, <2>3 DEF CreateSecret
  <1>3. CASE PutServer
    <2>1. /\ UNCHANGED <<phase, secrets, creds>> /\ phase \in {"wanted", "deleting"}
          /\ creds = secret /\ creds # 0 /\ secret' = secret
      BY <1>3 DEF PutServer, InOrder, StepsInOrder, secret
    <2>2. server' = server \/ server' = [login |-> creds, password |-> creds]
      BY <1>3 DEF PutServer, SetServer
    <2>3. CacheHonest' /\ NothingLeft'
      BY <2>1 DEF InOrder, CacheHonest, NothingLeft
    <2>4. CredentialsOpen'
      BY <2>1, <2>2 DEF InOrder, CredentialsOpen
    <2>5. pc' \in {"idle", "setRule"} /\ (pc' = "setRule" => server' # NoServer)
      BY <1>3, <2>1 DEF PutServer, SetServer, NoServer
    <2>6. StepsInOrder'
      BY <2>1, <2>5 DEF StepsInOrder
    <2>. QED BY <2>3, <2>4, <2>6 DEF InOrder
  <1>. QED BY <1>1, <1>2, <1>3 DEF Ensure

LEMMA DeleteStep ==
    ASSUME SqlTypeOK, InOrder, Delete
    PROVE  InOrder'
  <1>. USE DEF EnsurePath, DeletePath, Return, GoOn, objectVars, secretVars, azureVars,
               localVars
  <1>1. phase' \in {"torn", "none"} /\ (phase' = "none" => Release)
    BY DEF Delete, StartDelete, DeleteSecret, DeleteServer, Release, InOrder, StepsInOrder
  <1>2. CacheHonest' /\ CredentialsOpen'
    BY <1>1 DEF CacheHonest, CredentialsOpen
  <1>3. NothingLeft'
    <2>1. CASE Release
      <3>1. secret = 0 /\ server = NoServer /\ ~rule /\ UNCHANGED <<secrets, server, rule>>
        BY <2>1 DEF Release, InOrder, StepsInOrder
      <3>. QED BY <3>1 DEF NothingLeft, secret
    <2>. QED BY <1>1, <2>1 DEF NothingLeft
  <1>4. StepsInOrder'
    <2>1. CASE StartDelete
      BY <2>1 DEF StartDelete, StepsInOrder
    <2>2. CASE DeleteSecret
      <3>1. phase' = "torn" /\ pc' \in {"idle", "deleteServer"}
        BY <2>2 DEF DeleteSecret, InOrder, StepsInOrder
      <3>2. pc' = "deleteServer" => secret' = 0
        <4>1. CASE secrets' = Append(secrets, 0)
          BY <4>1, AppendFacts
        <4>2. CASE UNCHANGED secrets /\ secret = 0
          BY <4>2 DEF secret
        <4>. QED BY <2>2, <4>1, <4>2 DEF DeleteSecret, DropSecret
      <3>. QED BY <3>1, <3>2 DEF StepsInOrder
    <2>3. CASE DeleteServer
      <3>1. phase' = "torn" /\ pc' \in {"idle", "release"} /\ secret = 0 /\ UNCHANGED secrets
        BY <2>3 DEF DeleteServer, InOrder, StepsInOrder
      <3>2. pc' = "release" => server' = NoServer /\ ~rule'
        BY <2>3 DEF DeleteServer, DropServer
      <3>. QED BY <3>1, <3>2 DEF StepsInOrder, secret
    <2>4. CASE Release
      BY <2>4 DEF Release, StepsInOrder
    <2>. QED BY <2>1, <2>2, <2>3, <2>4 DEF Delete
  <1>. QED BY <1>2, <1>3, <1>4 DEF InOrder

LEMMA OutsideStep ==
    ASSUME Settled, SqlTypeOK, InOrder, Outside
    PROVE  InOrder'
  <1>. USE DEF EnsurePath, DeletePath, Return, GoOn, objectVars, secretVars, azureVars,
               localVars
  <1>1. CASE Crash
    <2>1. UNCHANGED <<phase, secrets, server, rule>> /\ pc' = "idle"
      BY <1>1 DEF Crash
    <2>2. StepsInOrder'
      BY <2>1 DEF StepsInOrder
    <2>. QED BY <2>1, <2>2, WorldStays DEF InOrder
  <1>2. CASE Deliver
    <2>1. /\ Len(secrets) > 1 /\ secrets' = Tail(secrets)
          /\ UNCHANGED <<phase, server, rule, pc, creds>>
      BY <1>2 DEF Deliver
    <2>2. /\ secret' = secret /\ Len(secrets') = Len(secrets) - 1
          /\ \A i \in 1..Len(secrets') : secrets'[i] = secrets[i + 1]
      BY <2>1, TailFacts
    <2>3. CacheHonest'
      <3>1. ASSUME NEW i \in 1..Len(secrets')
            PROVE  i + 1 \in 1..Len(secrets)
        BY <2>2, VersionFacts
      <3>. QED BY <2>1, <2>2, <3>1 DEF InOrder, CacheHonest
    <2>4. StepsInOrder' /\ CredentialsOpen' /\ NothingLeft'
      BY <2>1, <2>2 DEF InOrder, StepsInOrder, CredentialsOpen, NothingLeft
    <2>. QED BY <2>3, <2>4 DEF InOrder
  <1>3. CASE UserCreate
    <2>1. /\ phase = "none" /\ phase' = "wanted" /\ Len(secrets) = 1
          /\ UNCHANGED <<secrets, server, rule, pc, creds>> /\ secret' = secret
      BY <1>3 DEF UserCreate, secret
    <2>2. server = NoServer /\ secret = 0 /\ pc = "idle"
      BY <2>1 DEF InOrder, NothingLeft, StepsInOrder, SqlTypeOK
    <2>3. CacheHonest'
      <3>1. \A i \in 1..Len(secrets) : secrets[i] = secret
        BY <2>1 DEF secret
      <3>. QED BY <2>1, <3>1 DEF CacheHonest
    <2>4. StepsInOrder' /\ CredentialsOpen' /\ NothingLeft'
      BY <2>1, <2>2 DEF StepsInOrder, CredentialsOpen, NothingLeft
    <2>. QED BY <2>3, <2>4 DEF InOrder
  <1>4. CASE UserEdit \/ UserDelete
    <2>1. /\ phase = "wanted" /\ phase' \in {"wanted", "deleting"}
          /\ UNCHANGED <<secrets, server, rule, pc, creds>> /\ secret' = secret
      BY <1>4 DEF UserEdit, UserDelete, secret
    <2>. QED BY <2>1 DEF InOrder, CacheHonest, StepsInOrder, CredentialsOpen, NothingLeft
  <1>. QED BY <1>1, <1>2, <1>3, <1>4 DEF Outside

-----------------------------------------------------------------------------
(* The results.                                                            *)

\* The worker, the cache and the user keep the invariant
\* (sqlservers.go:68-268).
THEOREM Invariance ==
    ASSUME Settled
    PROVE  Spec => []SqlInv
  <1>1. Init => SqlInv
    BY SqlInit
  <1>2. SqlInv /\ [Next]_vars => SqlInv'
    <2>. SUFFICES ASSUME SqlInv, [Next]_vars
                  PROVE  SqlInv'
      OBVIOUS
    <2>1. SqlTypeOK /\ InOrder
      BY DEF SqlInv, InOrder
    <2>2. SqlTypeOK'
      BY <2>1, SqlTypeStep
    <2>3. ASSUME UNCHANGED vars
          PROVE  InOrder'
      <3>1. UNCHANGED <<phase, secrets, server, rule, pc, creds>>
        BY <2>3 DEF vars, objectVars, secretVars, azureVars, localVars
      <3>2. secret' = secret
        BY <3>1 DEF secret
      <3>. QED BY <2>1, <3>1, <3>2 DEF InOrder, CacheHonest, StepsInOrder,
                  CredentialsOpen, NothingLeft
    <2>4. InOrder'
      BY <2>1, <2>3, EnsureStep, DeleteStep, OutsideStep DEF Next
    <2>. QED BY <2>2, <2>4 DEF SqlInv, InOrder
  <1>. QED BY <1>1, <1>2, PTL DEF Spec

\* The secret opens the server whenever the object is wanted
\* (sqlservers.go:84-92, 148-187).
THEOREM Opens ==
    ASSUME Settled
    PROVE  Spec => []CredentialsOpen
  <1>1. SqlInv => CredentialsOpen
    BY DEF SqlInv
  <1>. QED BY <1>1, Invariance, PTL

-----------------------------------------------------------------------------
(* What a deletion leaves, however far the cache is behind.                *)

\* How far a deletion has come, and that nothing is left when it is through:
\* it asks the API server and Azure, never the cache.
Dismantled ==
    /\ pc \in EnsurePath => phase \in {"wanted", "deleting"}
    /\ pc \in DeletePath => phase = "torn"
    /\ pc = "deleteServer" => secret = 0
    /\ pc = "release" => secret = 0 /\ server = NoServer /\ ~rule
    /\ NothingLeft

LEMMA DismantledStep ==
    ASSUME SqlTypeOK, Dismantled, [Next]_vars
    PROVE  Dismantled'
  <1>. USE DEF Dismantled, EnsurePath, DeletePath, Return, GoOn, objectVars, secretVars,
               azureVars, localVars
  <1>1. CASE Ensure
    <2>1. /\ phase \in {"wanted", "deleting"} \/ StartEnsure
          /\ phase' = phase /\ phase # "none"
      BY <1>1 DEF Ensure, StartEnsure, GetServer, GetSecret, CreateSecret, PutServer, SetRule
    <2>2. pc' \in EnsurePath \cup {"idle"}
      BY <1>1 DEF Ensure, StartEnsure, GetServer, GetSecret, CreateSecret, PutServer, SetRule
    <2>3. phase \in {"wanted", "deleting"}
      BY <2>1 DEF StartEnsure
    <2>. QED BY <2>1, <2>2, <2>3 DEF NothingLeft
  <1>2. CASE StartDelete
    BY <1>2 DEF StartDelete, NothingLeft
  <1>3. CASE DeleteSecret
    <2>1. phase' = "torn" /\ pc' \in {"idle", "deleteServer"}
      BY <1>3 DEF DeleteSecret
    <2>2. pc' = "deleteServer" => secret' = 0
      <3>1. CASE secrets' = Append(secrets, 0)
        BY <3>1, AppendFacts
      <3>2. CASE UNCHANGED secrets /\ secret = 0
        BY <3>2 DEF secret
      <3>. QED BY <1>3, <3>1, <3>2 DEF DeleteSecret, DropSecret
    <2>. QED BY <2>1, <2>2 DEF NothingLeft
  <1>4. CASE DeleteServer
    <2>1. phase' = "torn" /\ pc' \in {"idle", "release"} /\ secret = 0 /\ UNCHANGED secrets
      BY <1>4 DEF DeleteServer
    <2>2. pc' = "release" => server' = NoServer /\ ~rule'
      BY <1>4 DEF DeleteServer, DropServer
    <2>. QED BY <2>1, <2>2 DEF NothingLeft, secret
  <1>5. CASE Release
    <2>1. /\ secret = 0 /\ server = NoServer /\ ~rule /\ UNCHANGED <<secrets, server, rule>>
          /\ pc' = "idle"
      BY <1>5 DEF Release
    <2>. QED BY <2>1 DEF NothingLeft, secret
  <1>6. CASE Crash
    <2>1. UNCHANGED <<phase, secrets, server, rule>> /\ pc' = "idle"
      BY <1>6 DEF Crash
    <2>. QED BY <2>1 DEF NothingLeft, secret
  <1>7. CASE Deliver
    <2>1. secret' = secret /\ UNCHANGED <<phase, server, rule, pc>>
      BY <1>7, TailFacts DEF Deliver
    <2>. QED BY <2>1 DEF NothingLeft
  <1>8. CASE UserCreate \/ UserEdit \/ UserDelete
    <2>1. /\ phase' \in {"wanted", "deleting"} /\ phase \in {"none", "wanted"}
          /\ UNCHANGED <<secrets, server, rule, pc>>
      BY <1>8 DEF UserCreate, UserEdit, UserDelete
    <2>2. secret' = secret
      BY <2>1 DEF secret
    <2>3. pc \notin DeletePath
      BY <2>1
    <2>. QED BY <2>1, <2>2, <2>3 DEF NothingLeft
  <1>9. CASE UNCHANGED vars
    <2>1. UNCHANGED <<phase, secrets, server, rule, pc>>
      BY <1>9 DEF vars
    <2>. QED BY <2>1 DEF NothingLeft, secret
  <1>. QED BY <1>1, <1>2, <1>3, <1>4, <1>5, <1>6, <1>7, <1>8, <1>9 DEF Next, Delete, Outside

\* An object that has gone leaves no server, rule or secret behind, however
\* often any step fails and however far the cache is behind
\* (sqlservers.go:241-268).
THEOREM LeavesNothing == Spec => []NothingLeft
  <1>1. Init => SqlTypeOK /\ Dismantled
    <2>1. Init => SqlTypeOK /\ NothingLeft
      BY SqlInit DEF SqlInv
    <2>. QED BY <2>1 DEF Init, Dismantled, EnsurePath, DeletePath
  <1>2. SqlTypeOK /\ Dismantled /\ [Next]_vars => (SqlTypeOK /\ Dismantled)'
    BY SqlTypeStep, DismantledStep
  <1>3. Dismantled => NothingLeft
    BY DEF Dismantled
  <1>. QED BY <1>1, <1>2, <1>3, PTL DEF Spec

-----------------------------------------------------------------------------
(* What an Ensure has done by the time it returns.                         *)

\* A reconcile that has not returned has no result; it holds credentials from
\* PUT on, and once that is through the server has them.
Underway ==
    /\ pc # "idle" => result = "none"
    /\ pc = "putServer" => creds # 0
    /\ pc = "setRule" => creds # 0 /\ server = [login |-> creds, password |-> creds]

LEMMA UnderwayStep ==
    ASSUME SqlTypeOK, Underway, [Next]_vars
    PROVE  Underway'
  <1>. USE DEF Underway, Return, GoOn, objectVars, secretVars, azureVars, localVars
  <1>1. CASE StartEnsure \/ GetServer \/ StartDelete \/ Release
    BY <1>1 DEF StartEnsure, GetServer, StartDelete, Release
  <1>2. CASE GetSecret
    BY <1>2 DEF GetSecret
  <1>3. CASE CreateSecret
    <2>1. made + 1 # 0
      BY DEF SqlTypeOK
    <2>. QED BY <1>3, <2>1 DEF CreateSecret
  <1>4. CASE PutServer
    BY <1>4 DEF PutServer, SetServer
  <1>5. CASE SetRule
    BY <1>5 DEF SetRule
  <1>6. CASE DeleteSecret \/ DeleteServer
    BY <1>6 DEF DeleteSecret, DeleteServer
  <1>7. CASE Outside
    BY <1>7 DEF Outside, Crash, Deliver, UserCreate, UserEdit, UserDelete
  <1>8. CASE UNCHANGED vars
    BY <1>8 DEF vars
  <1>. QED BY <1>1, <1>2, <1>3, <1>4, <1>5, <1>6, <1>7, <1>8 DEF Next, Ensure, Delete

\* The one step that ends a successful Ensure of a server it has found.
LEMMA EndsAtRule ==
    ASSUME Underway, [Next]_vars, result' = "ok", found, pc \in EnsurePath
    PROVE  SetRule
  <1>. USE DEF Underway, Return, GoOn, EnsurePath
  <1>1. result = "none"
    OBVIOUS
  <1>2. ~(StartEnsure \/ GetServer \/ GetSecret \/ CreateSecret)
    BY <1>1 DEF StartEnsure, GetServer, GetSecret, CreateSecret
  <1>3. ~PutServer
    BY <1>1 DEF PutServer
  <1>4. ~Delete
    BY <1>1 DEF Delete, StartDelete, DeleteSecret, DeleteServer, Release
  <1>5. ~Outside
    BY <1>1 DEF Outside, Crash, Deliver, UserCreate, UserEdit, UserDelete
  <1>6. ~UNCHANGED vars
    BY <1>1 DEF vars
  <1>. QED BY <1>2, <1>3, <1>4, <1>5, <1>6 DEF Next, Ensure

\* An Ensure that found the server and reports no error has set the password
\* and, if the spec allows Azure's services, the rule, whatever failed before it,
\* and even if the credentials come from a cache that is behind
\* (sqlservers.go:114-145).
THEOREM SuccessIsSet == Spec => SuccessMeansSet
  <1>1. Init => SqlTypeOK /\ Underway
    <2>1. Init => SqlTypeOK
      BY SqlInit DEF SqlInv
    <2>. QED BY <2>1 DEF Init, Underway
  <1>2. SqlTypeOK /\ Underway /\ [Next]_vars => (SqlTypeOK /\ Underway)'
    BY SqlTypeStep, UnderwayStep
  <1>3. SqlTypeOK /\ Underway /\ [Next]_vars =>
          [result' = "ok" /\ found /\ pc \in EnsurePath =>
              /\ server' # NoServer /\ server'.password = creds
              /\ (want => rule')]_vars
    <2>. SUFFICES ASSUME Underway, [Next]_vars, result' = "ok", found, pc \in EnsurePath
                  PROVE  /\ server' # NoServer /\ server'.password = creds
                         /\ (want => rule')
      OBVIOUS
    <2>1. SetRule
      BY EndsAtRule
    <2>2. server' = server /\ creds # 0 /\ server = [login |-> creds, password |-> creds]
      BY <2>1 DEF SetRule, Underway
    <2>3. want => rule'
      BY <2>1 DEF SetRule, Return
    <2>. QED BY <2>2, <2>3 DEF NoServer
  <1>. QED BY <1>1, <1>2, <1>3, PTL DEF Spec, SuccessMeansSet

-----------------------------------------------------------------------------
(* A teardown runs out of steps.                                           *)

\* How far the worker is from the end: the calls that are left of the Ensure that
\* was under way when the object was marked, then those of Delete.
Calls ==
    CASE phase = "none" -> 0
      [] phase = "torn" ->
            (CASE pc = "release" -> 1 [] pc = "deleteServer" -> 2
               [] pc = "deleteSecret" -> 3 [] OTHER -> 4)
      [] OTHER ->
            (CASE pc = "setRule" -> 6 [] pc = "putServer" -> 7 [] pc = "createSecret" -> 8
               [] pc = "getSecret" -> 9 [] pc = "getServer" -> 10 [] OTHER -> 5)

\* A fault may cost all of them again.
Left == 11 * (MaxFaults - faults) + Calls

\* A step of a teardown, or a restart in the middle, takes it nearer to its end or
\* uses up a fault; nothing else sets it back, and it does not turn into anything
\* else.
Dwindles ==
    phase \in {"deleting", "torn"} =>
        /\ phase' # "wanted"
        /\ Ensure \/ Delete \/ Crash => Left' < Left
        /\ ~(Ensure \/ Delete \/ Crash) => Left' = Left

Few == faults <= MaxFaults

LEMMA CallsAreFew ==
    /\ Calls \in 0 .. 10
    /\ Calls' \in 0 .. 10
  BY DEF Calls

LEMMA LeftIsNat == SqlTypeOK /\ Few => Left \in Nat
  BY SqlAssumption, CallsAreFew DEF SqlTypeOK, Few, Left

\* What is left goes down with the calls, and with each fault whatever they do.
LEMMA LeftGoesDown ==
    ASSUME MaxFaults \in Nat, faults \in Nat,
           \/ faults' = faults /\ Calls' < Calls
           \/ faults' = faults + 1
    PROVE  Left' < Left
  BY CallsAreFew DEF Left

\* The faults are counted, and what the worker does either is one or goes forward.
LEMMA DwindlesStep ==
    ASSUME SqlTypeOK, Few, Dismantled, [Next]_vars
    PROVE  Few' /\ Dwindles
  <1>. USE DEF Dismantled, EnsurePath, DeletePath, Return, GoOn, objectVars, secretVars,
               azureVars, localVars, Fault
  <1>0. /\ faults \in Nat /\ MaxFaults \in Nat /\ faults <= MaxFaults
        /\ phase \in {"none", "wanted", "deleting", "torn"}
        /\ pc \in {"idle"} \cup EnsurePath \cup DeletePath
    BY SqlAssumption DEF SqlTypeOK, Few
  <1>1. ASSUME Ensure PROVE Few' /\ (phase \in {"deleting", "torn"} => phase' = phase /\ Left' < Left)
    <2>1. /\ phase' = phase
          /\ faults' = faults \/ (faults' = faults + 1 /\ faults < MaxFaults)
          /\ phase = "deleting" \/ phase = "wanted"
      BY <1>0, <1>1 DEF Ensure, StartEnsure, GetServer, GetSecret, CreateSecret, PutServer, SetRule
    <2>2. phase = "deleting" => Calls' < Calls
      BY <1>0, <1>1, <2>1
         DEF Ensure, StartEnsure, GetServer, GetSecret, CreateSecret, PutServer, SetRule, Calls
    <2>. QED BY <1>0, <2>1, <2>2, LeftGoesDown DEF Few
  <1>2. ASSUME Delete PROVE Few' /\ phase' \in {"torn", "none"} /\ Left' < Left
    <2>1. /\ phase' \in {"torn", "none"}
          /\ \/ faults' = faults /\ Calls' < Calls
             \/ faults' = faults + 1 /\ faults < MaxFaults
      BY <1>0, <1>2 DEF Delete, StartDelete, DeleteSecret, DeleteServer, Release, Calls
    <2>. QED BY <1>0, <2>1, LeftGoesDown DEF Few
  <1>3. ASSUME Crash PROVE Few' /\ phase' = phase /\ Left' < Left
    <2>1. phase' = phase /\ faults' = faults + 1 /\ faults < MaxFaults
      BY <1>3 DEF Crash
    <2>. QED BY <1>0, <2>1, LeftGoesDown DEF Few
  <1>4. ASSUME Deliver \/ UNCHANGED vars PROVE UNCHANGED <<faults, phase, pc>>
    BY <1>4 DEF Deliver, vars
  <1>5. ASSUME UserCreate \/ UserEdit \/ UserDelete
        PROVE  faults' = faults /\ phase \notin {"deleting", "torn"}
    BY <1>5 DEF UserCreate, UserEdit, UserDelete
  <1>6. CASE Ensure \/ Delete \/ Crash
    BY <1>1, <1>2, <1>3, <1>6 DEF Dwindles
  <1>7. CASE ~(Ensure \/ Delete \/ Crash)
    BY <1>0, <1>4, <1>5, <1>7 DEF Dwindles, Left, Calls, Few, Next, Outside
  <1>. QED BY <1>6, <1>7

\* The safety half of TeardownCompletes: once the object is marked, each call the
\* worker makes is one of the finitely many that are left, whichever of its steps
\* fail, are lost or are repeated, and however far the cache is behind
\* (sqlservers.go:241-268).  What is left to liveness is that there is a next one.
THEOREM TeardownRunsOut == Spec => [](Left \in Nat) /\ [][Dwindles]_vars
  <1>. DEFINE Inv == SqlTypeOK /\ Dismantled /\ Few
  <1>1. Init => Inv
    <2>1. Init => SqlTypeOK /\ NothingLeft
      BY SqlInit DEF SqlInv
    <2>. QED BY <2>1, SqlAssumption DEF Init, Dismantled, EnsurePath, DeletePath, Few
  <1>2. Inv /\ [Next]_vars => Inv'
    BY SqlTypeStep, DismantledStep, DwindlesStep
  <1>3. Inv /\ [Next]_vars => [Dwindles]_vars
    BY DwindlesStep
  <1>4. Inv => Left \in Nat
    BY LeftIsNat
  <1>5. Spec => [](Left \in Nat)
    BY <1>1, <1>2, <1>4, PTL DEF Spec
  <1>6. Spec => [][Dwindles]_vars
    BY <1>1, <1>2, <1>3, PTL DEF Spec
  <1>. QED BY <1>5, <1>6
=============================================================================
