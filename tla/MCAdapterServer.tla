---------------------------- MODULE MCAdapterServer ----------------------------
(***************************************************************************)
(* Instances of AdapterServer.  The requests are plain model values: they  *)
(* are interchangeable, but the main run checks liveness, for which        *)
(* symmetry is not sound.                                                  *)
(***************************************************************************)
EXTENDS AdapterServer
==============================================================================
