-------------------------- MODULE MCConnectionServer --------------------------
(* ConnectionServer with a few clients for TLC.                               *)
EXTENDS ConnectionServer
===============================================================================
