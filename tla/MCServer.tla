------------------------------- MODULE MCServer -------------------------------
(***************************************************************************)
(* A server and a listener of the application competing for one address.   *)
(***************************************************************************)
EXTENDS Server
===============================================================================
