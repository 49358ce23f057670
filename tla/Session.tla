------------------------------ MODULE Session ------------------------------
(***************************************************************************)
(* The client of a kind, one for all the workers of its controller.  Its   *)
(* ForSubscription replaces the SDK client it calls Azure with by one for  *)
(* the subscription of the object at hand, and then gives it an            *)
(* authorizer; every later call of that reconcile goes through whatever    *)
(* SDK client is there by then.  The pieces of an SDK client are written   *)
(* without a lock, in no order another worker could rely on.               *)
(***************************************************************************)
EXTENDS Naturals, FiniteSets

CONSTANTS
    Workers,        \* MaxConcurrentReconciles of them
    Objects,        \* the custom resources of the kind
    Subscriptions,
    SubscriptionOf, \* Spec.SubscriptionID of each object
    Credentials,    \* were an app, a key and a tenant given to config.New?
    Nothing         \* no object, no subscription, no request

ASSUME SessionAssumption ==
    /\ SubscriptionOf \in [Objects -> Subscriptions]
    /\ Credentials \in BOOLEAN
    /\ Nothing \notin Subscriptions \cup Objects

VARIABLES
    internal,   \* the shared SDK client: its subscription, has it an authorizer?
    renewer,    \* history: the worker that last gave it its subscription
    pc,         \* what each worker does next
    object,     \* the object each worker reconciles
    sent        \* history: the last request, and the object it was for

vars == <<internal, renewer, pc, object, sent>>

Request == [object : Objects, sub : Subscriptions \cup {Nothing}, auth : BOOLEAN]

SessionTypeOK ==
    /\ internal \in [sub : Subscriptions \cup {Nothing}, auth : BOOLEAN]
    /\ renewer \in Workers \cup {Nothing}
    /\ pc \in [Workers -> {"idle", "renewSub", "renewAuth", "authorize", "call"}]
    /\ object \in [Workers -> Objects \cup {Nothing}]
    /\ sent \in Request \cup {Nothing}

Init ==
    /\ internal = [sub |-> Nothing, auth |-> FALSE] /\ renewer = Nothing
    /\ pc = [w \in Workers |-> "idle"]
    /\ object = [w \in Workers |-> Nothing]
    /\ sent = Nothing

\* The queue never hands an object to two workers.
Start(w) ==
    /\ pc[w] = "idle"
    /\ \E o \in Objects :
          /\ \A v \in Workers : object[v] # o
          /\ object' = [object EXCEPT ![w] = o]
    /\ pc' = [pc EXCEPT ![w] = "renewSub"]
    /\ UNCHANGED <<internal, renewer, sent>>

\* (mutant: a client that has a subscription already is kept)
RenewSubOnce(w) ==
    /\ pc[w] = "renewSub"
    /\ internal' = IF internal.sub = Nothing
                   THEN [internal EXCEPT !.sub = SubscriptionOf[object[w]]]
                   ELSE internal
    /\ renewer' = w
    /\ pc' = [pc EXCEPT ![w] = "renewAuth"]
    /\ UNCHANGED <<object, sent>>

\* c.internal = c.factory(local.Spec.SubscriptionID), field by field.
RenewSub(w) ==
    /\ pc[w] = "renewSub"
    /\ internal' = [internal EXCEPT !.sub = SubscriptionOf[object[w]]]
    /\ renewer' = w
    /\ pc' = [pc EXCEPT ![w] = "renewAuth"]
    /\ UNCHANGED <<object, sent>>

RenewAuth(w) ==
    /\ pc[w] = "renewAuth"
    /\ internal' = [internal EXCEPT !.auth = FALSE]
    /\ pc' = [pc EXCEPT ![w] = "authorize"]
    /\ UNCHANGED <<renewer, object, sent>>

\* (mutant: the authorizer is given to a copy of the client)
AuthorizeCopy(w) ==
    /\ pc[w] = "authorize"
    /\ pc' = [pc EXCEPT ![w] = "call"]
    /\ UNCHANGED <<internal, renewer, object, sent>>

\* AuthorizeClientFromArgs returns nil whether it found an authorizer or not:
\* the error of GetAuthorizerFromArgs stays in the scope of its if.
Authorize(w) ==
    /\ pc[w] = "authorize"
    /\ internal' = [internal EXCEPT !.auth = internal.auth \/ Credentials]
    /\ pc' = [pc EXCEPT ![w] = "call"]
    /\ UNCHANGED <<renewer, object, sent>>

\* A call of Ensure or Delete: c.internal as it is now is copied and used.
Call(w) ==
    /\ pc[w] = "call"
    /\ sent' = [object |-> object[w], sub |-> internal.sub, auth |-> internal.auth]
    /\ UNCHANGED <<internal, renewer, pc, object>>

Finish(w) ==
    /\ pc[w] = "call"
    /\ pc' = [pc EXCEPT ![w] = "idle"]
    /\ object' = [object EXCEPT ![w] = Nothing]
    /\ UNCHANGED <<internal, renewer, sent>>

Reconcile(w) ==
    \/ Start(w) \/ RenewSub(w) \/ RenewAuth(w) \/ Authorize(w)
    \/ Call(w) \/ Finish(w)

Next == \E w \in Workers : Reconcile(w)

Spec == Init /\ [][Next]_vars

-----------------------------------------------------------------------------
(* Properties.                                                             *)

\* Every request is sent to the subscription of the object it is for, as
\* ForSubscription says (sqlservers.go:57): nobody's resource is changed or
\* deleted on another object's behalf.  It is so if the workers do not mix
\* subscriptions, and not otherwise.
OwnSubscription == sent # Nothing => sent.sub = SubscriptionOf[sent.object]

\* A worker whose request is about to go astray has been overtaken: another one has
\* set the shared client up after it did (sqlservers.go:63).  Whoever was the last
\* to do so works in its own object's subscription, whatever the others do next.
StraysOnlyOvertaken ==
    \A w \in Workers : pc[w] = "call" /\ renewer = w =>
        internal.sub = SubscriptionOf[object[w]]

\* Given credentials, requests go out unauthorized only while some worker stands
\* between the two steps of ForSubscription, a new SDK client and its authorizer
\* (sqlservers.go:63-64): no worker leaves the shared client without one.
UnsignedOnlyInRenewal ==
    Credentials /\ (\E w \in Workers : pc[w] = "call") =>
        internal.auth \/ \E v \in Workers : pc[v] = "authorize"
=============================================================================
