----------------------------- MODULE MCContext -----------------------------
(* Model values for the runs of Context. *)
EXTENDS Context

MCCauses == {"boom"}
NoCauses == {}
============================================================================
