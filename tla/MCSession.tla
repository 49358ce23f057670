----------------------------- MODULE MCSession -----------------------------
(***************************************************************************)
(* Session with a few objects in two subscriptions.                        *)
(***************************************************************************)
EXTENDS Session

CONSTANTS o1, o2, o3, o4, o5, s1, s2

FiveObjects == {o1, o2, o3, o4, o5}
TwoSubscriptions == {s1, s2}
Somewhere == [o \in FiveObjects |-> IF o \in {o1, o2} THEN s1 ELSE s2]
=============================================================================
