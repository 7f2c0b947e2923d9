---------------------------- MODULE MCContinuation ----------------------------
(***************************************************************************)
(* Instances of Continuation.  The clients are interchangeable, and so are *)
(* the call ids.                                                           *)
(***************************************************************************)
EXTENDS Continuation, TLC

Symmetry == Permutations(Clients) \cup Permutations(CallIds)
==============================================================================
