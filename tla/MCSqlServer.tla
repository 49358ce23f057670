---------------------------- MODULE MCSqlServer ----------------------------
(***************************************************************************)
(* SqlServer with an object that is created twice.                         *)
(***************************************************************************)
EXTENDS SqlServer
=============================================================================
