------------------------------ MODULE TriggerLoop ------------------------------
(***************************************************************************)
(* The daemon's reconcile trigger: triggerGroup, called from webhook       *)
(* debounce timers and from the queue audit, against reconcileLoop and     *)
(* doReconcileGroups, the only goroutine that runs reconcile passes        *)
(* (internal/daemon/daemon.go).  A trigger bumps a sequence number under   *)
(* the daemon's mutex and, when no pass is running, also sends its group   *)
(* through a bounded channel; those are two steps between which the loop   *)
(* may run.  What a pass does to a group is module Reconciler's subject:   *)
(* here it only matters that the pass reads the group's demand.            *)
(*                                                                         *)
(* The counters and timestamps kept for /statusz are left out.             *)
(***************************************************************************)
EXTENDS Integers, Sequences, FiniteSets

CONSTANTS
  NumGroups,      \* runner groups, in the order of d.groups
  Callers,        \* goroutines that may call triggerGroup concurrently
  MaxTriggers     \* bound: triggers in a behaviour

ASSUME NumGroupsAssumption == NumGroups \in Nat \ {0}
ASSUME MaxTriggersAssumption == MaxTriggers \in Nat

Groups == 1 .. NumGroups

(* The group ID "" of Trigger(): every group.                              *)
AllGroups == 0

TriggerIds == Groups \cup {AllGroups}

(* make(chan string, len(groups)+1)                                        *)
ChannelCapacity == NumGroups + 1

VARIABLES
  triggerSeq,        \* d.triggerSeq
  reconcileRunning,  \* d.reconcileRunning
  triggerCh,         \* contents of d.triggerCh, oldest first
  loopPc,            \* where the reconcile goroutine is
  startSeq,          \* doReconcileGroups' startSeq
  requested,         \* doReconcileGroups' requested; {} is the nil slice
  targets,           \* groups reconcileTargets has still to visit
  callerPc,          \* a caller is "idle" or about to "send"
  callerId,          \* the group ID a sending caller holds
  cancelled,         \* ctx.Err() # nil
  lastTrigger,       \* history: sequence number of a group's last trigger
  served             \* history: triggerSeq when a pass last read the group

loopVars == <<reconcileRunning, loopPc, startSeq, requested, targets>>
callerVars == <<callerPc, callerId>>
history == <<lastTrigger, served>>
vars == <<triggerSeq, triggerCh, cancelled, loopVars, callerVars, history>>

LoopPcs == {"boot", "select", "enter", "drain", "readSeq", "drainAgain",
            "pass", "stopped"}

(* The program points at which reconcileRunning is true.                   *)
RunningPcs == {"drain", "readSeq", "drainAgain", "pass"}

TypeOK ==
  /\ triggerSeq \in Nat
  /\ reconcileRunning \in BOOLEAN
  /\ triggerCh \in Seq(TriggerIds)
  /\ loopPc \in LoopPcs
  /\ startSeq \in Nat
  /\ requested \in SUBSET TriggerIds
  /\ targets \in SUBSET Groups
  /\ callerPc \in [Callers -> {"idle", "send"}]
  /\ callerId \in [Callers -> TriggerIds]
  /\ cancelled \in BOOLEAN
  /\ lastTrigger \in [Groups -> Nat]
  /\ served \in [Groups -> Nat]

Init ==
  /\ triggerSeq = 0
  /\ reconcileRunning = FALSE
  /\ triggerCh = << >>
  /\ loopPc = "boot"
  /\ startSeq = 0
  /\ requested = {}
  /\ targets = {}
  /\ callerPc = [c \in Callers |-> "idle"]
  /\ callerId = [c \in Callers |-> AllGroups]
  /\ cancelled = FALSE
  /\ lastTrigger = [g \in Groups |-> 0]
  /\ served = [g \in Groups |-> 0]

(***************************************************************************)
(* Helpers                                                                 *)
(***************************************************************************)

(* Mutant: a nil request selects nothing.                                  *)
SelectedGroupsNilIsNone(ids) == IF AllGroups \in ids THEN Groups ELSE ids

(* selectedGroups: no request, or the request "", selects every group.     *)
SelectedGroups(ids) ==
  IF ids = {} \/ AllGroups \in ids THEN Groups ELSE ids

(* mergeRequestedGroups(requested, drainTriggerSignals()): appending to    *)
(* nil yields just the drained IDs, so as sets it is a union.              *)
MergeDrained(ids) == ids \cup {triggerCh[i] : i \in 1 .. Len(triggerCh)}

(***************************************************************************)
(* triggerGroup                                                            *)
(***************************************************************************)

(* The locked section.  A trigger that finds a pass running is done: the   *)
(* pass is to notice the new sequence number when it finishes.             *)
TriggerLocked(c, id) ==
  /\ callerPc[c] = "idle"
  /\ triggerSeq < MaxTriggers
  /\ triggerSeq' = triggerSeq + 1
  /\ callerPc' = [callerPc EXCEPT ![c] = IF reconcileRunning THEN "idle" ELSE "send"]
  /\ callerId' = [callerId EXCEPT ![c] = IF reconcileRunning THEN @ ELSE id]
  /\ lastTrigger' = [g \in Groups |->
                       IF g \in SelectedGroups({id}) THEN triggerSeq + 1
                                                     ELSE lastTrigger[g]]
  /\ UNCHANGED <<triggerCh, cancelled, loopVars, served>>

(* The non-blocking send: a full channel drops the signal.                 *)
TriggerSend(c) ==
  /\ callerPc[c] = "send"
  /\ triggerCh' = IF Len(triggerCh) < ChannelCapacity
                  THEN Append(triggerCh, callerId[c]) ELSE triggerCh
  /\ callerPc' = [callerPc EXCEPT ![c] = "idle"]
  /\ callerId' = [callerId EXCEPT ![c] = AllGroups]
  /\ UNCHANGED <<triggerSeq, cancelled, loopVars, history>>

(***************************************************************************)
(* reconcileLoop                                                           *)
(***************************************************************************)

(* The pass before the loop, skipped when the context is already done.     *)
BootReconcile ==
  /\ loopPc = "boot"
  /\ loopPc' = IF cancelled THEN "select" ELSE "enter"
  /\ requested' = {}
  /\ UNCHANGED <<triggerSeq, triggerCh, cancelled, callerVars, history,
                 reconcileRunning, startSeq, targets>>

(* case <-ticker.C.  ticker.Reset only delays the next tick; the model     *)
(* lets a tick come at any time.                                           *)
PollTick ==
  /\ loopPc = "select"
  /\ loopPc' = "enter"
  /\ requested' = {}
  /\ UNCHANGED <<triggerSeq, triggerCh, cancelled, callerVars, history,
                 reconcileRunning, startSeq, targets>>

(* case groupID := <-d.triggerCh                                           *)
ReceiveTrigger ==
  /\ loopPc = "select"
  /\ triggerCh # << >>
  /\ loopPc' = "enter"
  /\ requested' = {Head(triggerCh)}
  /\ triggerCh' = Tail(triggerCh)
  /\ UNCHANGED <<triggerSeq, cancelled, callerVars, history,
                 reconcileRunning, startSeq, targets>>

(* case <-ctx.Done()                                                       *)
LoopDone ==
  /\ loopPc = "select"
  /\ cancelled
  /\ loopPc' = "stopped"
  /\ UNCHANGED <<triggerSeq, triggerCh, cancelled, callerVars, history,
                 reconcileRunning, startSeq, requested, targets>>

(***************************************************************************)
(* doReconcileGroups                                                       *)
(***************************************************************************)

(* The first locked section: skip when a pass is already running.          *)
EnterReconcile ==
  /\ loopPc = "enter"
  /\ loopPc' = IF reconcileRunning THEN "select" ELSE "drain"
  /\ reconcileRunning' = TRUE
  /\ UNCHANGED <<triggerSeq, triggerCh, cancelled, callerVars, history,
                 startSeq, requested, targets>>

(* Mutant: an early return that leaves reconcileRunning set.               *)
AbandonStillRunning ==
  /\ loopPc' = "select"
  /\ UNCHANGED <<triggerSeq, cancelled, callerVars, history, startSeq, targets,
                 requested, reconcileRunning>>

(* Mutant: "continue" where the loop should return.                        *)
AbandonByContinue ==
  /\ loopPc' = "drain"
  /\ UNCHANGED <<triggerSeq, cancelled, callerVars, history, startSeq, targets,
                 requested, reconcileRunning>>

(* Leave doReconcileGroups because the context is done.                    *)
Abandon ==
  /\ loopPc' = "select"
  /\ reconcileRunning' = FALSE
  /\ requested' = {}
  /\ UNCHANGED <<triggerSeq, cancelled, callerVars, history, startSeq, targets>>

(* Head of an iteration: give up when cancelled, else the first drain.     *)
DrainSignals ==
  /\ loopPc = "drain"
  /\ \/ /\ cancelled
        /\ Abandon
        /\ UNCHANGED triggerCh
     \/ /\ ~cancelled
        /\ requested' = MergeDrained(requested)
        /\ triggerCh' = << >>
        /\ loopPc' = "readSeq"
        /\ UNCHANGED <<triggerSeq, cancelled, callerVars, reconcileRunning,
                       startSeq, targets, history>>

(* The locked read of the sequence number this pass answers for.           *)
ReadStartSeq ==
  /\ loopPc = "readSeq"
  /\ startSeq' = triggerSeq
  /\ loopPc' = "drainAgain"
  /\ UNCHANGED <<triggerSeq, triggerCh, cancelled, callerVars, history,
                 reconcileRunning, requested, targets>>

(* The second drain and context check, then reconcileTargets selects.      *)
DrainAgain ==
  /\ loopPc = "drainAgain"
  /\ triggerCh' = << >>
  /\ \/ /\ cancelled
        /\ Abandon
     \/ /\ ~cancelled
        /\ requested' = MergeDrained(requested)
        /\ targets' = SelectedGroups(MergeDrained(requested))
        /\ loopPc' = "pass"
        /\ UNCHANGED <<triggerSeq, cancelled, callerVars, history,
                       reconcileRunning, startSeq>>

(* One round of reconcileTargets' loop: the next group in d.groups' order. *)
(* A group's error is joined to the others and stops nothing.              *)
ReconcileGroup ==
  /\ loopPc = "pass"
  /\ \E g \in targets :
        /\ \A h \in targets : g <= h
        /\ targets' = targets \ {g}
        /\ served' = [served EXCEPT ![g] = triggerSeq]
  /\ UNCHANGED <<triggerSeq, triggerCh, cancelled, callerVars, lastTrigger,
                 reconcileRunning, loopPc, startSeq, requested>>

(* Mutant: the pass ends without comparing sequence numbers.               *)
FinishPassWithoutRerun ==
  /\ loopPc = "pass"
  /\ targets = {}
  /\ reconcileRunning' = FALSE
  /\ loopPc' = "select"
  /\ requested' = {}
  /\ UNCHANGED <<triggerSeq, triggerCh, cancelled, callerVars, history,
                 startSeq, targets>>

(* The locked section after a pass: run again when a trigger came since    *)
(* startSeq was read, otherwise stop running.                              *)
FinishPass ==
  /\ loopPc = "pass"
  /\ targets = {}
  /\ requested' = {}
  /\ \/ /\ triggerSeq # startSeq /\ ~cancelled
        /\ loopPc' = "drain"
              /\ UNCHANGED reconcileRunning
     \/ /\ triggerSeq = startSeq \/ cancelled
        /\ reconcileRunning' = FALSE
        /\ loopPc' = "select"
  /\ UNCHANGED <<triggerSeq, triggerCh, cancelled, callerVars, history,
                 startSeq, targets>>

(***************************************************************************)
(* Environment: SIGTERM cancels the daemon's context.                      *)
(***************************************************************************)
Cancel ==
  /\ ~cancelled
  /\ cancelled' = TRUE
  /\ UNCHANGED <<triggerSeq, triggerCh, loopVars, callerVars, history>>

LoopStep ==
  \/ BootReconcile \/ PollTick \/ ReceiveTrigger \/ LoopDone
  \/ EnterReconcile \/ DrainSignals \/ ReadStartSeq \/ DrainAgain
  \/ ReconcileGroup \/ FinishPass

Next ==
  \/ \E c \in Callers, id \in TriggerIds : TriggerLocked(c, id)
  \/ \E c \in Callers : TriggerSend(c)
  \/ LoopStep
  \/ Cancel

(* The goroutine is scheduled, which includes its ticker, and Go's select  *)
(* picks a ready case at random, so Done is not passed over for ever.      *)
(* Nothing is asked of the callers.                                        *)
Fairness == WF_vars(LoopStep) /\ SF_vars(LoopDone)

Spec == Init /\ [][Next]_vars

FairSpec == Spec /\ Fairness

(***************************************************************************)
(* Properties                                                              *)
(***************************************************************************)

(* A group has a trigger that no pass has read its demand after.           *)
Unserved(g) == served[g] < lastTrigger[g]

(* The loop waits in its select, no signal is buffered or on its way.      *)
Quiescent ==
  /\ loopPc = "select"
  /\ ~cancelled
  /\ triggerCh = << >>
  /\ \A c \in Callers : callerPc[c] = "idle"

(* No trigger is dropped without a pass after it: when the loop comes to   *)
(* rest, the last pass began after the last trigger, whichever mix of      *)
(* channel sends, full-channel drops and triggers swallowed because        *)
(* reconcileRunning was set led there (daemon.go 298-313 and 349-401).     *)
NoPassMissed == Quiescent => startSeq = triggerSeq

(* reconcileRunning is set exactly while the loop goroutine is inside      *)
(* doReconcileGroups' loop: it never leaks past a return, which would turn *)
(* every later trigger into a no-op (daemon.go 342-407).                   *)
RunningMatchesLoop == reconcileRunning <=> loopPc \in RunningPcs

(* The promise made to callers of Trigger and triggerGroup, module         *)
(* PassService, with what is asked for and answered read off the trigger   *)
(* numbers.                                                                *)
Service == INSTANCE PassService WITH
  waiting <- {g \in Groups : Unserved(g)},
  due <- startSeq # triggerSeq,
  resting <- Quiescent,
  down <- cancelled

(* The loop never rests owing a pass, no request is forgotten by a step    *)
(* other than a pass's visit, and none waits for ever: the channel, the    *)
(* running flag and the sequence numbers of triggerGroup and               *)
(* doReconcileGroups implement PassService (daemon.go 288-433).            *)
ImplementsService == Service!Spec

(* The safety part of the same, without fairness.                          *)
ImplementsServiceSafety == Service!Safety

(* A cancelled context stops the loop goroutine, so that Run's wg.Wait     *)
(* returns (daemon.go 240-243, 324-327).                                   *)
ShutdownCompletes == cancelled ~> (loopPc = "stopped")

(* README.md:954: webhook-triggered demand is tracked while a reconcile    *)
(* runs "so another pass starts immediately afterward instead of waiting   *)
(* for the next poll tick".  At rest, no group waits for the poll tick.    *)
NoGroupWaitsForPoll == Quiescent => \A g \in Groups : ~Unserved(g)
================================================================================
