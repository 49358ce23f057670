-------------------------- MODULE MCSyncReconciler --------------------------
(***************************************************************************)
(* SyncReconciler on small instances: the kind, the bounds and the faults  *)
(* are chosen in each configuration.                                       *)
(***************************************************************************)
EXTENDS SyncReconciler
=============================================================================
