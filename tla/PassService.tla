------------------------------ MODULE PassService ------------------------------
(***************************************************************************)
(* What the daemon's reconcile trigger promises whoever calls it, with no  *)
(* channel, mutex, flag or sequence number: callers ask for groups, passes *)
(* begin and visit groups, and the service may rest only after a pass that *)
(* began since the last request.  Module TriggerLoop implements it.        *)
(***************************************************************************)
CONSTANT Groups

VARIABLES
  waiting,  \* groups asked for and not visited since
  due,      \* a request came after the last pass began
  resting,  \* nothing is under way until a request or the poll tick
  down      \* shutting down

vars == <<waiting, due, resting, down>>

Init ==
  /\ waiting = {}
  /\ due = FALSE
  /\ resting = FALSE
  /\ down = FALSE

(* A caller asks for some groups.                                          *)
Request ==
  /\ \E gs \in (SUBSET Groups) \ {{}} : waiting' = waiting \cup gs
  /\ due' = TRUE
  /\ resting' = FALSE
  /\ UNCHANGED down

(* A pass begins; it answers every request made so far.                    *)
Begin ==
  /\ ~resting
  /\ due' = FALSE
  /\ UNCHANGED <<waiting, resting, down>>

(* The pass visits a group.                                                *)
Visit ==
  /\ ~resting
  /\ \E g \in Groups : waiting' = waiting \ {g}
  /\ UNCHANGED <<due, resting, down>>

(* Nothing is left to do.                                                  *)
Park ==
  /\ ~due /\ ~down
  /\ resting' = TRUE
  /\ UNCHANGED <<waiting, due, down>>

(* The poll tick ends the rest.                                            *)
Wake ==
  /\ resting' = FALSE
  /\ UNCHANGED <<waiting, due, down>>

(* The daemon is told to stop.                                             *)
Stop ==
  /\ down' = TRUE
  /\ resting' = FALSE
  /\ UNCHANGED <<waiting, due>>

Next == Request \/ Begin \/ Visit \/ Park \/ Wake \/ Stop

Safety == Init /\ [][Next]_vars

(* Every group asked for is visited in the end.                            *)
Promise == \A g \in Groups : g \in waiting ~> (g \notin waiting \/ down)

Spec == Safety /\ Promise
================================================================================
