--------------------------- MODULE MCDemandTracker ---------------------------
(* Instances of DemandTracker for TLC.  Labels are numbers, 0 the one      *)
(* every class and job has.                                                *)
EXTENDS DemandTracker

(* Org-wide classes, each with a label of its own; jobs for the first.     *)
OrgRepos == [g \in Groups |-> Repos]
ClassLabels == [g \in Groups |-> {0, g}]
FirstClass == [j \in Jobs |-> {0, 1}]

(* Jobs that name no class.                                                *)
NoClass == [j \in Jobs |-> {0}]

(* Jobs for the second of two classes, with a label no class asks for.     *)
SecondClass == [j \in Jobs |-> {0, 2, 3}]

(* The jobs' repository: the first, or the last.                           *)
FirstRepo == [j \in Jobs |-> 1]
LastRepo == [j \in Jobs |-> NumRepos]

(* A class for the organisation and one for its second repository.         *)
Mixed == [g \in Groups |-> IF g = 1 THEN Repos ELSE {2}]
==============================================================================
