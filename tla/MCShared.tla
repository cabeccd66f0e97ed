------------------------------- MODULE MCShared -------------------------------
(* Instances of InventoryCache and Debouncer for TLC: what goroutines of   *)
(* the daemon share under locks held for a few statements.  The two have   *)
(* no state in common, so a behaviour is one of either.                    *)
EXTENDS InventoryCache, MCDebouncer

VARIABLE half  \* "cache" or "timers"

SharedInit ==
  /\ half \in {"cache", "timers"}
  /\ Init
  /\ DebounceInit

SharedNext ==
  \/ half = "cache" /\ Next /\ UNCHANGED <<half, debounceVars>>
  \/ half = "timers" /\ DebounceNext /\ UNCHANGED <<half, vars>>

(* Fairness is InventoryCache's and Debouncer's.                           *)
SharedSpec ==
  /\ SharedInit
  /\ [][SharedNext]_<<half, vars, debounceVars>>
  /\ \A a \in Lister :
       /\ WF_vars(half = "cache" /\ LocalStep(a) /\ UNCHANGED <<half, debounceVars>>)
       /\ SF_vars(half = "cache" /\ LockFetch(a) /\ UNCHANGED <<half, debounceVars>>)
  /\ \A i \in Scheduled :
       WF_debounceVars(half = "timers" /\ CallbackStep(i) /\ UNCHANGED <<half, vars>>)
================================================================================
