----------------------------- MODULE MCFileStore -----------------------------
(* Two store instances on one directory. *)
EXTENDS FileStore
===============================================================================
