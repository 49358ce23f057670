------------------------- MODULE MCAsyncReconciler -------------------------
(***************************************************************************)
(* AsyncReconciler on small instances: the kind, the bounds and the faults *)
(* are chosen in each configuration.                                       *)
(***************************************************************************)
EXTENDS AsyncReconciler
=============================================================================
