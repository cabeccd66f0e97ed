---------------------------- MODULE MCTriggerLoop ----------------------------
(* Instances of TriggerLoop for TLC. *)
EXTENDS TriggerLoop

==============================================================================
