------------------------------ MODULE MCRegistry ------------------------------
(***************************************************************************)
(* Instances of Registry.  Liveness is checked, so no symmetry is used.    *)
(***************************************************************************)
EXTENDS Registry
==============================================================================
