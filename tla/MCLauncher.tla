------------------------------ MODULE MCLauncher ------------------------------
(***************************************************************************)
(* Instances of Launcher: plain model values, no symmetry, because the run *)
(* checks liveness.                                                        *)
(***************************************************************************)
EXTENDS Launcher
===============================================================================
