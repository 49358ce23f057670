---------------------------- MODULE MCSecretSync ----------------------------
(***************************************************************************)
(* SecretSync with a shared target: a bundle of two values in the secret   *)
(* of a TLSSecret, where someone else keeps a note.                        *)
(***************************************************************************)
EXTENDS SecretSync

SharedTasks == {"tls", "bundle"}
SharedKinds == [tls |-> "TLSSecret", bundle |-> "SecretBundle"]
SharedTarget == [t \in SharedTasks |-> "tls-sample"]
SharedKeys == [tls |-> {"tls.crt"}, bundle |-> {"apple", "potato"}]
SharedOthers == {"note"}
=============================================================================
