------------------------------ MODULE MCDebouncer ------------------------------
(* Instances of Debouncer for TLC. *)
EXTENDS Debouncer, TLC

(* A key for each subject, or one for all: repositories of the same base   *)
(* name under different owners.                                            *)
OwnKey == [s \in Subjects |-> s]
BaseName == [s \in Subjects |-> "base"]

SubjectSymmetry == Permutations(Subjects)
================================================================================
