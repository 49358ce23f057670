--------------------------- MODULE Session_proofs ---------------------------
(***************************************************************************)
(* For any objects, subscriptions and workers: when ForSubscription does   *)
(* what the clients count on though the SDK client is shared, and what it  *)
(* takes for a request to go astray or to lack its authorizer.             *)
(***************************************************************************)
EXTENDS Session, TLAPS

\* There is one worker (MaxConcurrentReconciles is 1), or all objects are in one
\* subscription: no two workers want the shared client to be different ones.
NoMixing ==
    \A v, w \in Workers : v # w =>
        \A a, b \in Objects : SubscriptionOf[a] = SubscriptionOf[b]

-----------------------------------------------------------------------------
(* Types, for any number of workers.                                       *)

\* A worker that is not idle has an object.
Busy == \A w \in Workers : pc[w] # "idle" => object[w] \in Objects

LEMMA TypedInit == Init => SessionTypeOK /\ Busy
  BY SessionAssumption DEF Init, SessionTypeOK, Busy

LEMMA TypedStep ==
    ASSUME SessionTypeOK, Busy, [Next]_vars
    PROVE  SessionTypeOK' /\ Busy'
  <1>. USE SessionAssumption DEF SessionTypeOK, Busy
  <1>1. ASSUME NEW w \in Workers, Reconcile(w)
        PROVE  SessionTypeOK' /\ Busy'
    <2>1. CASE Start(w)
      <3>1. PICK o \in Objects : object' = [object EXCEPT ![w] = o]
        BY <2>1 DEF Start
      <3>. QED BY <2>1, <3>1 DEF Start
    <2>2. CASE RenewSub(w)
      BY <2>2 DEF RenewSub
    <2>3. CASE RenewAuth(w) \/ Authorize(w)
      BY <2>3 DEF RenewAuth, Authorize
    <2>4. CASE Call(w)
      <3>1. sent' \in Request
        BY <2>4 DEF Call, Request
      <3>. QED BY <2>4, <3>1 DEF Call
    <2>5. CASE Finish(w)
      BY <2>5 DEF Finish
    <2>. QED BY <1>1, <2>1, <2>2, <2>3, <2>4, <2>5 DEF Reconcile
  <1>2. CASE UNCHANGED vars
    BY <1>2 DEF vars
  <1>. QED BY <1>1, <1>2 DEF Next

-----------------------------------------------------------------------------
(* The subscription.                                                       *)

\* From the time its subscription is set, the shared client is the one for the
\* object of every worker.
Fits ==
    \A w \in Workers : pc[w] \in {"renewAuth", "authorize", "call"} =>
        internal.sub = SubscriptionOf[object[w]]

LEMMA FitsStep ==
    ASSUME NoMixing, SessionTypeOK, Busy, Fits, OwnSubscription, [Next]_vars
    PROVE  Fits' /\ OwnSubscription'
  <1>1. ASSUME NEW v \in Workers, Reconcile(v)
        PROVE  Fits' /\ OwnSubscription'
    <2>. DEFINE Set == {"renewAuth", "authorize", "call"}
    <2>1. CASE RenewSub(v)
      <3>1. ASSUME NEW w \in Workers, pc'[w] \in Set
            PROVE  internal'.sub = SubscriptionOf[object'[w]]
        <4>1. /\ object' = object /\ object[v] \in Objects
              /\ internal'.sub = SubscriptionOf[object[v]]
          BY <2>1 DEF RenewSub, SessionTypeOK, Busy
        <4>2. w # v => pc[w] \in Set
          BY <2>1, <3>1 DEF RenewSub, SessionTypeOK
        <4>3. w # v => object[w] \in Objects
          BY <4>2 DEF Busy
        <4>. QED BY <4>1, <4>3 DEF NoMixing
      <3>2. sent' = sent
        BY <2>1 DEF RenewSub
      <3>. QED BY <3>1, <3>2 DEF Fits, OwnSubscription
    <2>2. CASE Start(v) \/ Finish(v)
      <3>1. /\ internal' = internal /\ sent' = sent
            /\ pc'[v] \notin Set
            /\ \A w \in Workers : w # v => pc'[w] = pc[w] /\ object'[w] = object[w]
        BY <2>2 DEF Start, Finish, SessionTypeOK
      <3>. QED BY <3>1 DEF Fits, OwnSubscription
    <2>3. CASE RenewAuth(v) \/ Authorize(v)
      <3>1. /\ internal'.sub = internal.sub /\ sent' = sent /\ object' = object
            /\ pc[v] \in Set
            /\ \A w \in Workers : w # v => pc'[w] = pc[w]
        BY <2>3 DEF RenewAuth, Authorize, SessionTypeOK
      <3>. QED BY <3>1 DEF Fits, OwnSubscription
    <2>4. CASE Call(v)
      <3>1. sent'.sub = internal.sub /\ sent'.object = object[v] /\ pc[v] \in Set
        BY <2>4 DEF Call
      <3>2. Fits'
        BY <2>4 DEF Call, Fits
      <3>. QED BY <3>1, <3>2 DEF Fits, OwnSubscription
    <2>. QED BY <1>1, <2>1, <2>2, <2>3, <2>4 DEF Reconcile
  <1>2. CASE UNCHANGED vars
    BY <1>2 DEF vars, Fits, OwnSubscription
  <1>. QED BY <1>1, <1>2 DEF Next

\* With one worker, or with all objects in one subscription and any number of
\* workers, and with credentials or without: no object's resource is touched in
\* another object's subscription (sqlservers.go:57-65 and the other
\* ForSubscription methods).
THEOREM UnmixedOwnSubscription ==
    ASSUME NoMixing
    PROVE  Spec => []OwnSubscription
  <1>. DEFINE Inv == SessionTypeOK /\ Busy /\ Fits /\ OwnSubscription
  <1>1. Init => Inv
    BY TypedInit DEF Init, Fits, OwnSubscription
  <1>2. Inv /\ [Next]_vars => Inv'
    BY TypedStep, FitsStep
  <1>. QED BY <1>1, <1>2, PTL DEF Spec

-----------------------------------------------------------------------------
(* Overtaken workers.                                                      *)

\* The worker that set the client up last works in its object's subscription, from
\* that step on.
LastFits ==
    \A w \in Workers :
        pc[w] \in {"renewAuth", "authorize", "call"} /\ renewer = w =>
            internal.sub = SubscriptionOf[object[w]]

LEMMA LastFitsStep ==
    ASSUME SessionTypeOK, LastFits, [Next]_vars
    PROVE  LastFits'
  <1>1. ASSUME NEW v \in Workers, Reconcile(v)
        PROVE  LastFits'
    <2>1. CASE RenewSub(v)
      <3>1. /\ renewer' = v /\ object' = object
            /\ internal'.sub = SubscriptionOf[object[v]]
        BY <2>1 DEF RenewSub, SessionTypeOK
      <3>. QED BY <3>1 DEF LastFits
    <2>2. CASE Start(v) \/ Finish(v)
      <3>1. /\ internal' = internal /\ renewer' = renewer
            /\ pc'[v] \in {"renewSub", "idle"}
            /\ \A w \in Workers : w # v => pc'[w] = pc[w] /\ object'[w] = object[w]
        BY <2>2 DEF Start, Finish, SessionTypeOK
      <3>. QED BY <3>1 DEF LastFits
    <2>3. CASE RenewAuth(v) \/ Authorize(v)
      <3>1. /\ internal'.sub = internal.sub /\ renewer' = renewer /\ object' = object
            /\ pc[v] \in {"renewAuth", "authorize"}
            /\ \A w \in Workers : w # v => pc'[w] = pc[w]
        BY <2>3 DEF RenewAuth, Authorize, SessionTypeOK
      <3>. QED BY <3>1 DEF LastFits
    <2>4. CASE Call(v)
      BY <2>4 DEF Call, LastFits
    <2>. QED BY <1>1, <2>1, <2>2, <2>3, <2>4 DEF Reconcile
  <1>2. CASE UNCHANGED vars
    BY <1>2 DEF vars, LastFits
  <1>. QED BY <1>1, <1>2 DEF Next

\* With any number of workers and subscriptions, only a worker that was overtaken
\* after its own ForSubscription can call Azure in another subscription
\* (sqlservers.go:63).
THEOREM OvertakenStray == Spec => []StraysOnlyOvertaken
  <1>. DEFINE Inv == SessionTypeOK /\ Busy /\ LastFits
  <1>1. Init => Inv
    BY TypedInit DEF Init, LastFits
  <1>2. Inv /\ [Next]_vars => Inv'
    BY TypedStep, LastFitsStep
  <1>3. Inv => StraysOnlyOvertaken
    BY DEF LastFits, StraysOnlyOvertaken
  <1>. QED BY <1>1, <1>2, <1>3, PTL DEF Spec

-----------------------------------------------------------------------------
(* The authorizer.                                                         *)

\* With any number of workers: a request without an authorizer means that nobody was
\* given credentials, or that a worker has replaced the SDK client and not yet
\* authorized the new one (sqlservers.go:63-64).
THEOREM RenewalUnsigned == Spec => []UnsignedOnlyInRenewal
  <1>. DEFINE Inv == SessionTypeOK /\ Busy /\ UnsignedOnlyInRenewal
  <1>1. Init => Inv
    BY TypedInit DEF Init, UnsignedOnlyInRenewal
  <1>2. Inv /\ [Next]_vars => Inv'
    <2> SUFFICES ASSUME Inv, [Next]_vars, Credentials,
                        NEW w \in Workers, pc'[w] = "call"
                 PROVE  internal'.auth \/ \E v \in Workers : pc'[v] = "authorize"
      BY TypedStep DEF UnsignedOnlyInRenewal, SessionTypeOK
    <2>1. ASSUME NEW v \in Workers, Start(v) \/ RenewSub(v) \/ Finish(v)
          PROVE  internal'.auth \/ \E u \in Workers : pc'[u] = "authorize"
      <3>1. /\ internal'.auth = internal.auth
            /\ pc[v] # "authorize" /\ pc'[v] # "call"
            /\ \A u \in Workers : u # v => pc'[u] = pc[u]
        BY <2>1 DEF Start, RenewSub, Finish, SessionTypeOK
      <3>. QED BY <3>1 DEF UnsignedOnlyInRenewal
    <2>2. ASSUME NEW v \in Workers, RenewAuth(v)
          PROVE  pc'[v] = "authorize"
      BY <2>2 DEF RenewAuth, SessionTypeOK
    <2>3. ASSUME NEW v \in Workers, Authorize(v)
          PROVE  internal'.auth
      BY <2>3 DEF Authorize, SessionTypeOK
    <2>4. ASSUME NEW v \in Workers, Call(v)
          PROVE  internal'.auth \/ \E u \in Workers : pc'[u] = "authorize"
      BY <2>4 DEF Call, UnsignedOnlyInRenewal
    <2>5. CASE UNCHANGED vars
      BY <2>5 DEF vars, UnsignedOnlyInRenewal
    <2>. QED BY <2>1, <2>2, <2>3, <2>4, <2>5 DEF Next, Reconcile
  <1>. QED BY <1>1, <1>2, PTL DEF Spec

\* As main.go:64 makes the manager's configuration, without an app, a key and a
\* tenant, no request of any worker is authorized, and no ForSubscription reports an
\* error (config.go:141-152 drops it).
THEOREM NoneSigned ==
    ASSUME Credentials = FALSE
    PROVE  Spec => [](sent # Nothing => ~sent.auth)
  <1>. DEFINE Inv == /\ SessionTypeOK /\ Busy
                     /\ ~internal.auth /\ (sent # Nothing => ~sent.auth)
  <1>1. Init => Inv
    BY TypedInit DEF Init
  <1>2. Inv /\ [Next]_vars => Inv'
    <2> SUFFICES ASSUME Inv, [Next]_vars
                 PROVE  ~internal'.auth /\ (sent' # Nothing => ~sent'.auth)
      BY TypedStep
    <2>1. ASSUME NEW v \in Workers, Call(v)
          PROVE  ~internal'.auth /\ ~sent'.auth
      BY <2>1 DEF Call
    <2>2. ASSUME NEW v \in Workers,
                 Start(v) \/ RenewSub(v) \/ RenewAuth(v) \/ Authorize(v) \/ Finish(v)
          PROVE  ~internal'.auth /\ sent' = sent
      BY <2>2 DEF Start, RenewSub, RenewAuth, Authorize, Finish, SessionTypeOK
    <2>3. CASE UNCHANGED vars
      BY <2>3 DEF vars
    <2>. QED BY <2>1, <2>2, <2>3 DEF Next, Reconcile
  <1>. QED BY <1>1, <1>2, PTL DEF Spec
=============================================================================
