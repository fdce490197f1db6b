------------------------------- MODULE MCCaFiles -------------------------------
(* Instances of CaFiles: one replica on its own volume, and two on a shared one. *)
EXTENDS CaFiles
================================================================================
