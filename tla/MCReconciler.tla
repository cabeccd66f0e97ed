---------------------------- MODULE MCReconciler ----------------------------
(* Instances of Reconciler for TLC; the configurations give the bounds. *)
EXTENDS Reconciler
=============================================================================
