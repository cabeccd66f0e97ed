-------------------------- MODULE MCWorkflowDelivery --------------------------
(* Instances of WorkflowDelivery for TLC.                                  *)
EXTENDS WorkflowDelivery

(* An org-wide class, and one for the organisation's first repository.     *)
OrgAndRepo == <<<<1, 2>>, <<1>>>>

(* Two runs of that repository, the later of which may be run again, and   *)
(* one of the other.                                                       *)
TwoAndOne == <<1, 1, 2>>
SecondAgain == <<1, 2, 1>>

(* A busy repository, whose run is run again and again, and a quiet one.   *)
OneEach == <<1, 2>>
FirstTwiceAgain == <<3, 1>>
================================================================================
