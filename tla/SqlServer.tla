----------------------------- MODULE SqlServer -----------------------------
(***************************************************************************)
(* sqlservers.Client as its reconciler drives it: Ensure keeps a server, a *)
(* Kubernetes secret with the credentials that open it, and a firewall     *)
(* rule; Delete removes the secret and then the server.  The credentials   *)
(* are made up once, and read afterwards from a cache that lags behind the *)
(* API server; Azure never gives a password back, nor changes a login.     *)
(* The object's finalizer and cache are SyncReconciler's: here a reconcile *)
(* acts on the object as it is when it begins.                             *)
(***************************************************************************)
EXTENDS Naturals, Sequences

CONSTANTS
    Settled,    \* is a name used again only when the cache has caught up?
    MaxInc,     \* bound: how often the object is created
    MaxEdits,   \* bound: how often the user edits it
    Faults,     \* the kinds of fault that may happen: "arm", "kube", "crash"
    MaxFaults   \* bound: how many faults happen in a behaviour

ASSUME SqlAssumption ==
    /\ Settled \in BOOLEAN
    /\ MaxInc \in Nat /\ MaxEdits \in Nat /\ MaxFaults \in Nat

VARIABLES
    phase,      \* the object: none, wanted, deleting, or torn (Delete has begun)
    allow,      \* Spec.AllowAzureServiceAccess
    inc, edits, faults,
    secrets,    \* versions of the secret, from the cached to the stored one
    made,       \* how many credentials have been stored so far
    server,     \* the server in Azure: its login and password, 0 for none
    rule,       \* is the rule AllowAzureAccess there?
    pc,         \* the call the worker makes next
    want, found, creds,     \* its view of allow, the server and the secret
    result      \* what the reconcile that ended last returned

objectVars == <<phase, allow, inc, edits>>
secretVars == <<secrets, made>>
azureVars == <<server, rule>>
localVars == <<want, found, creds>>
vars == <<objectVars, faults, secretVars, azureVars, pc, localVars, result>>

\* A version of the secret is the number of the credentials in it, or 0.
cached == Head(secrets)
secret == secrets[Len(secrets)]

NoServer == [login |-> 0, password |-> 0]
EnsurePath == {"getServer", "getSecret", "createSecret", "putServer", "setRule"}
DeletePath == {"deleteSecret", "deleteServer", "release"}

SqlTypeOK ==
    /\ phase \in {"none", "wanted", "deleting", "torn"}
    /\ allow \in BOOLEAN
    /\ inc \in Nat /\ edits \in Nat /\ faults \in Nat /\ made \in Nat
    /\ secrets \in Seq(Nat) /\ secrets # <<>>
    /\ server \in [login : Nat, password : Nat]
    /\ rule \in BOOLEAN
    /\ pc \in {"idle"} \cup EnsurePath \cup DeletePath
    /\ want \in BOOLEAN /\ found \in BOOLEAN /\ creds \in Nat
    /\ result \in {"none", "ok", "err"}

Init ==
    /\ phase = "none" /\ allow = FALSE
    /\ inc = 0 /\ edits = 0 /\ faults = 0 /\ made = 0
    /\ secrets = <<0>>
    /\ server = NoServer /\ rule = FALSE
    /\ pc = "idle" /\ want = FALSE /\ found = FALSE /\ creds = 0
    /\ result = "none"

Fault(kind) ==
    /\ kind \in Faults
    /\ faults < MaxFaults
    /\ faults' = faults + 1

Return(r) == pc' = "idle" /\ result' = r
GoOn(next) == pc' = next /\ UNCHANGED result

-----------------------------------------------------------------------------
(* Ensure.                                                                 *)

StartEnsure ==
    /\ pc = "idle" /\ phase = "wanted"
    /\ want' = allow
    /\ pc' = "getServer" /\ result' = "none"
    /\ UNCHANGED <<objectVars, faults, secretVars, azureVars, found, creds>>

GetServer ==
    /\ pc = "getServer"
    /\ \/ found' = (server # NoServer) /\ GoOn("getSecret") /\ UNCHANGED faults
       \/ Fault("arm") /\ Return("err") /\ UNCHANGED found
    /\ UNCHANGED <<objectVars, secretVars, azureVars, want, creds>>

GetSecret ==
    /\ pc = "getSecret"
    /\ \/ /\ creds' = cached
          /\ GoOn(IF cached = 0 THEN "createSecret" ELSE "putServer")
          /\ UNCHANGED faults
       \/ Fault("kube") /\ Return("err") /\ UNCHANGED creds
    /\ UNCHANGED <<objectVars, secretVars, azureVars, want, found>>

StoreCreds == secrets' = Append(secrets, made + 1) /\ made' = made + 1

\* (mutant: a secret that is there already is no error)
CreateSecretAnyway ==
    /\ pc = "createSecret"
    /\ creds' = made + 1
    /\ GoOn("putServer")
    /\ IF secret = 0 THEN StoreCreds ELSE UNCHANGED secretVars
    /\ UNCHANGED <<objectVars, faults, azureVars, want, found>>

\* Credentials are made up; Create fails if there is a secret already.
CreateSecret ==
    /\ pc = "createSecret"
    /\ creds' = made + 1
    /\ \/ secret = 0 /\ StoreCreds /\ GoOn("putServer") /\ UNCHANGED faults
       \/ secret # 0 /\ Return("err") /\ UNCHANGED <<secretVars, faults>>
       \/ Fault("kube") /\ Return("err") /\ UNCHANGED secretVars
       \/ Fault("kube") /\ secret = 0 /\ StoreCreds /\ Return("err")
    /\ UNCHANGED <<objectVars, azureVars, want, found>>

\* What Azure takes: a server is created with any login and keeps it.
Accepted == server.login \in (IF found THEN {creds} ELSE {0, creds})
SetServer == server' = [login |-> creds, password |-> creds]

\* (mutant: the error of Update is dropped, as that of CreateOrUpdate is)
PutServerBlind ==
    /\ pc = "putServer"
    /\ \/ Accepted /\ SetServer /\ GoOn("setRule") /\ UNCHANGED faults
       \/ ~Accepted /\ Return("ok") /\ UNCHANGED <<server, faults>>
       \/ Fault("arm") /\ UNCHANGED server /\ Return("ok")
    /\ UNCHANGED <<objectVars, secretVars, rule, localVars>>

\* Update, or CreateOrUpdate, whose own error is dropped; then the wait for
\* its completion, whose error is not.
PutServer ==
    /\ pc = "putServer"
    /\ \/ Accepted /\ SetServer /\ GoOn("setRule") /\ UNCHANGED faults
       \/ /\ ~Accepted
          /\ Return(IF found THEN "err" ELSE "ok")
          /\ UNCHANGED <<server, faults>>
       \/ /\ Fault("arm")
          /\ (Accepted /\ SetServer) \/ UNCHANGED server
          /\ Return("err") \/ (~found /\ Return("ok"))
    /\ UNCHANGED <<objectVars, secretVars, rule, localVars>>

\* firewalls.Ensure, or firewalls.Delete, which returns no error.
SetRule ==
    /\ pc = "setRule"
    /\ \/ rule' = want /\ Return("ok") /\ UNCHANGED faults
       \/ /\ Fault("arm")
          /\ rule' \in {rule, want}
          /\ Return(IF want THEN "err" ELSE "ok")
    /\ UNCHANGED <<objectVars, secretVars, server, localVars>>

-----------------------------------------------------------------------------
(* Delete, and the release of the finalizer.                               *)

StartDelete ==
    /\ pc = "idle" /\ phase \in {"deleting", "torn"}
    /\ phase' = "torn"
    /\ pc' = "deleteSecret" /\ result' = "none"
    /\ UNCHANGED <<allow, inc, edits, faults, secretVars, azureVars, localVars>>

DropSecret == secrets' = IF secret = 0 THEN secrets ELSE Append(secrets, 0)

DeleteSecret ==
    /\ pc = "deleteSecret"
    /\ \/ DropSecret /\ GoOn("deleteServer") /\ UNCHANGED faults
       \/ Fault("kube") /\ Return("err") /\ (DropSecret \/ UNCHANGED secrets)
    /\ UNCHANGED <<objectVars, made, azureVars, localVars>>

DropServer == server' = NoServer /\ rule' = FALSE

\* (mutants: an error of DELETE is dropped; a server that is not there is an
\* error)
DeleteServerBlind ==
    /\ pc = "deleteServer"
    /\ \/ DropServer /\ UNCHANGED faults
       \/ Fault("arm") /\ UNCHANGED azureVars
    /\ GoOn("release")
    /\ UNCHANGED <<objectVars, secretVars, localVars>>

DeleteServerStrict ==
    /\ pc = "deleteServer"
    /\ \/ server # NoServer /\ DropServer /\ GoOn("release") /\ UNCHANGED faults
       \/ server = NoServer /\ Return("err") /\ UNCHANGED <<azureVars, faults>>
       \/ Fault("arm") /\ Return("err") /\ (DropServer \/ UNCHANGED azureVars)
    /\ UNCHANGED <<objectVars, secretVars, localVars>>

\* Azure answers 204 for a server that is not there: no error.
DeleteServer ==
    /\ pc = "deleteServer"
    /\ \/ DropServer /\ GoOn("release") /\ UNCHANGED faults
       \/ Fault("arm") /\ Return("err") /\ (DropServer \/ UNCHANGED azureVars)
    /\ UNCHANGED <<objectVars, secretVars, localVars>>

Release ==
    /\ pc = "release"
    /\ \/ phase' = "none" /\ Return("ok") /\ UNCHANGED faults
       \/ Fault("kube") /\ Return("err") /\ phase' \in {"none", "torn"}
    /\ UNCHANGED <<allow, inc, edits, secretVars, azureVars, localVars>>

-----------------------------------------------------------------------------
(* The manager's process, its cache, and the user.                         *)

Crash ==
    /\ pc # "idle"
    /\ Fault("crash")
    /\ Return("none")
    /\ UNCHANGED <<objectVars, secretVars, azureVars, localVars>>

Deliver ==
    /\ Len(secrets) > 1
    /\ secrets' = Tail(secrets)
    /\ UNCHANGED <<objectVars, faults, made, azureVars, pc, localVars, result>>

UserCreate ==
    /\ phase = "none" /\ inc < MaxInc
    /\ Settled => Len(secrets) = 1
    /\ phase' = "wanted" /\ inc' = inc + 1 /\ allow' \in BOOLEAN
    /\ UNCHANGED <<edits, faults, secretVars, azureVars, pc, localVars, result>>

UserEdit ==
    /\ phase = "wanted" /\ edits < MaxEdits
    /\ allow' = ~allow /\ edits' = edits + 1
    /\ UNCHANGED <<phase, inc, faults, secretVars, azureVars, pc, localVars, result>>

UserDelete ==
    /\ phase = "wanted"
    /\ phase' = "deleting"
    /\ UNCHANGED <<allow, inc, edits, faults, secretVars, azureVars, pc, localVars, result>>

Ensure == StartEnsure \/ GetServer \/ GetSecret \/ CreateSecret \/ PutServer \/ SetRule
Delete == StartDelete \/ DeleteSecret \/ DeleteServer \/ Release
Outside == Crash \/ Deliver \/ UserCreate \/ UserEdit \/ UserDelete
Next == Ensure \/ Delete \/ Outside

Spec == Init /\ [][Next]_vars

\* The worker goes on; a failed Delete is queued again.
FairSpec == Spec /\ WF_vars(Ensure \/ Delete)

-----------------------------------------------------------------------------
(* Properties.                                                             *)

\* While the object is wanted, a server that is there is opened by the
\* credentials in the secret: they are stored before they are used
\* (sqlservers.go:83-91), and there is no other copy of the password.  So under
\* Settled, a name is used again when the cache has caught up; without it the cache
\* may show the previous server's secret, and Create is skipped (sqlservers.go:162).
CredentialsOpen ==
    server # NoServer /\ phase \in {"wanted", "deleting"} =>
        secret # 0 /\ server = [login |-> secret, password |-> secret]

\* An Ensure that found the server and returns no error has set the password,
\* and opened the server to Azure's services if the spec it read allows them
\* (sqlservers.go:114-145).
SuccessMeansSet ==
    [][result' = "ok" /\ found /\ pc \in EnsurePath =>
          /\ server' # NoServer /\ server'.password = creds
          /\ (want => rule')]_vars

\* Nothing is left when the object has gone, though the secret goes before
\* the server and any step may fail (sqlservers.go:241-268).
NothingLeft == phase = "none" => secret = 0 /\ server = NoServer /\ ~rule

\* A deletion completes, whatever is gone already when it is tried again
\* (sqlservers.go:255-266).
TeardownCompletes == phase = "deleting" ~> phase = "none"

-----------------------------------------------------------------------------
(* Why CredentialsOpen and NothingLeft hold.                               *)

\* While the object is wanted the cache shows the secret that is stored, or
\* none.
CacheHonest ==
    phase \in {"wanted", "deleting"} =>
        \A i \in 1..Len(secrets) : secrets[i] \in {0, secret}

\* What the worker knows where it stands.
StepsInOrder ==
    /\ pc \in EnsurePath => phase \in {"wanted", "deleting"}
    /\ pc \in DeletePath => phase = "torn"
    /\ pc \in {"putServer", "setRule"} => creds = secret /\ creds # 0
    /\ pc = "setRule" => server # NoServer
    /\ pc = "deleteServer" => secret = 0
    /\ pc = "release" => secret = 0 /\ server = NoServer /\ ~rule

\* The inductive invariant: who knows which credentials (sqlservers.go:148-187).
SqlInv ==
    /\ SqlTypeOK
    /\ CacheHonest
    /\ StepsInOrder
    /\ CredentialsOpen
    /\ NothingLeft
=============================================================================
