------------------------------ MODULE MCConfig ------------------------------
(* Model values for the runs of Config. *)
EXTENDS Config

Both == Sources
=============================================================================
