-------------------------------- MODULE MCLogs --------------------------------
(* Instances of LogStore and IssueDelivery for TLC: the log, and what is   *)
(* delivered from it.  IssueDelivery has the retained entries as LogStore  *)
(* shows they are kept and shares no state with it, so a behaviour is one  *)
(* of either.                                                              *)
EXTENDS LogStore, IssueDelivery

VARIABLE subject  \* "store" or "issues"

LogsInit ==
  /\ subject \in {"store", "issues"}
  /\ Init
  /\ IssueInit

LogsNext ==
  \/ subject = "store" /\ Next /\ UNCHANGED <<subject, issueVars>>
  \/ subject = "issues" /\ IssueNext /\ UNCHANGED <<subject, vars>>

(* The metrics ticker goes on.                                             *)
LogsSpec ==
  /\ LogsInit
  /\ [][LogsNext]_<<subject, vars, issueVars>>
  /\ WF_issueVars(subject = "issues" /\ CollectStep /\ UNCHANGED <<subject, vars>>)
================================================================================
