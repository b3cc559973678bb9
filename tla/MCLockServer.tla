---------------------------- MODULE MCLockServer ----------------------------
(* Instances of LockServer for TLC. *)
EXTENDS LockServer
=============================================================================
