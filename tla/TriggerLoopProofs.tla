-------------------------- MODULE TriggerLoopProofs --------------------------
(***************************************************************************)
(* Proofs about modules TriggerLoop, for any number of groups, of callers  *)
(* and of triggers, and Debouncer, for any number of keys and of calls.    *)
(***************************************************************************)
EXTENDS TriggerLoop, Debouncer, TLAPS

(***************************************************************************)
(* Every step of the specification, by name: the case split of the         *)
(* theorems below.                                                         *)
(***************************************************************************)
LEMMA StepCases ==
  ASSUME [Next]_vars,
         NEW P,
         ASSUME NEW c \in Callers, NEW id \in TriggerIds, TriggerLocked(c, id) PROVE P,
         ASSUME NEW c \in Callers, TriggerSend(c) PROVE P,
         BootReconcile => P, PollTick => P, ReceiveTrigger => P, LoopDone => P,
         EnterReconcile => P, DrainSignals => P, ReadStartSeq => P,
         DrainAgain => P, ReconcileGroup => P, FinishPass => P,
         Cancel => P, UNCHANGED vars => P
  PROVE  P
BY DEF Next, LoopStep

(***************************************************************************)
(* Type correctness.  Draining and selecting keep requests within the IDs  *)
(* and targets within the groups (selectedGroups, mergeRequestedGroups).   *)
(***************************************************************************)
LEMMA MergeDrainedType ==
  ASSUME triggerCh \in Seq(TriggerIds), NEW ids \in SUBSET TriggerIds
  PROVE  MergeDrained(ids) \in SUBSET TriggerIds
BY DEF MergeDrained

LEMMA SelectedGroupsType ==
  ASSUME NEW ids \in SUBSET TriggerIds
  PROVE  SelectedGroups(ids) \in SUBSET Groups
BY DEF SelectedGroups, TriggerIds

LEMMA EmptyChannelType == << >> \in Seq(TriggerIds)
OBVIOUS

LEMMA TypeInit == Init => TypeOK
<1> SUFFICES ASSUME Init PROVE TypeOK
  OBVIOUS
<1>1. triggerCh \in Seq(TriggerIds)
  BY DEF Init
<1>2. loopPc \in LoopPcs /\ requested \in SUBSET TriggerIds /\ targets \in SUBSET Groups
  BY DEF Init, LoopPcs
<1>3. /\ callerPc \in [Callers -> {"idle", "send"}]
      /\ callerId \in [Callers -> TriggerIds]
  BY DEF Init, TriggerIds
<1>4. /\ triggerSeq \in Nat /\ startSeq \in Nat
      /\ lastTrigger \in [Groups -> Nat] /\ served \in [Groups -> Nat]
  BY DEF Init
<1>5. /\ reconcileRunning \in BOOLEAN /\ cancelled \in BOOLEAN
  BY DEF Init
<1>6. QED
  BY <1>1, <1>2, <1>3, <1>4, <1>5 DEF TypeOK

LEMMA TypeStep == TypeOK /\ [Next]_vars => TypeOK'
<1> SUFFICES ASSUME TypeOK, [Next]_vars PROVE TypeOK'
  OBVIOUS
<1> USE DEF TypeOK, LoopPcs, loopVars, callerVars, history
<1>1. ASSUME NEW c \in Callers, NEW id \in TriggerIds, TriggerLocked(c, id)
      PROVE  TypeOK'
  BY <1>1 DEF TriggerLocked
<1>2. ASSUME NEW c \in Callers, TriggerSend(c)
      PROVE  TypeOK'
  <2>1. triggerCh' \in Seq(TriggerIds)
    BY <1>2 DEF TriggerSend
  <2>2. QED
    BY <1>2, <2>1 DEF TriggerSend, TriggerIds
<1>3. BootReconcile => TypeOK'
  BY DEF BootReconcile
<1>4. PollTick => TypeOK'
  BY DEF PollTick
<1>5. ReceiveTrigger => TypeOK'
  <2> SUFFICES ASSUME ReceiveTrigger PROVE TypeOK'
    OBVIOUS
  <2>1. Head(triggerCh) \in TriggerIds /\ Tail(triggerCh) \in Seq(TriggerIds)
    BY DEF ReceiveTrigger
  <2>2. requested' \in SUBSET TriggerIds /\ triggerCh' \in Seq(TriggerIds)
    BY <2>1 DEF ReceiveTrigger
  <2>3. QED
    BY <2>2 DEF ReceiveTrigger
<1>6. LoopDone => TypeOK'
  BY DEF LoopDone
<1>7. EnterReconcile => TypeOK'
  BY DEF EnterReconcile
<1>8. DrainSignals => TypeOK'
  <2> SUFFICES ASSUME DrainSignals PROVE TypeOK'
    OBVIOUS
  <2>1. MergeDrained(requested) \in SUBSET TriggerIds
    BY MergeDrainedType
  <2>2. triggerCh' \in Seq(TriggerIds)
    <3>1. triggerCh' = triggerCh \/ triggerCh' = << >>
      BY DEF DrainSignals, Abandon
    <3>2. QED
      BY <3>1, EmptyChannelType
  <2>3. CASE cancelled
    BY <2>2, <2>3 DEF DrainSignals, Abandon
  <2>4. CASE ~cancelled
    <3>1. /\ requested' = MergeDrained(requested) /\ loopPc' = "readSeq"
          /\ UNCHANGED <<triggerSeq, cancelled, callerVars, reconcileRunning,
                         startSeq, targets, history>>
      BY <2>4 DEF DrainSignals, Abandon
    <3>2. QED
      BY <2>1, <2>2, <3>1
  <2>5. QED
    BY <2>3, <2>4
<1>9. ReadStartSeq => TypeOK'
  BY DEF ReadStartSeq
<1>10. DrainAgain => TypeOK'
  <2>1. MergeDrained(requested) \in SUBSET TriggerIds
    BY MergeDrainedType
  <2>2. SelectedGroups(MergeDrained(requested)) \in SUBSET Groups
    BY <2>1, SelectedGroupsType
  <2>3. CASE DrainAgain /\ cancelled
    <3>1. /\ triggerCh' = << >> /\ loopPc' = "select" /\ requested' = {}
          /\ reconcileRunning' = FALSE
          /\ UNCHANGED <<triggerSeq, cancelled, callerVars, history, startSeq, targets>>
      BY <2>3 DEF DrainAgain, Abandon
    <3>2. QED
      BY <3>1, EmptyChannelType
  <2>4. CASE DrainAgain /\ ~cancelled
    <3>1. /\ triggerCh' = << >> /\ loopPc' = "pass"
          /\ requested' = MergeDrained(requested)
          /\ targets' = SelectedGroups(MergeDrained(requested))
          /\ UNCHANGED <<triggerSeq, cancelled, callerVars, reconcileRunning,
                         startSeq, history>>
      BY <2>4 DEF DrainAgain, Abandon
    <3>2. QED
      BY <2>1, <2>2, <3>1, EmptyChannelType
  <2>5. QED
    BY <2>3, <2>4
<1>11. ReconcileGroup => TypeOK'
  BY DEF ReconcileGroup
<1>12. FinishPass => TypeOK'
  BY DEF FinishPass
<1>13. Cancel => TypeOK'
  BY DEF Cancel
<1>14. UNCHANGED vars => TypeOK'
  BY DEF vars
<1>15. QED
  BY <1>1, <1>2, <1>3, <1>4, <1>5, <1>6, <1>7, <1>8, <1>9, <1>10, <1>11,
     <1>12, <1>13, <1>14, StepCases

(* The reconcile trigger's state keeps its type (daemon.go 288-476).       *)
THEOREM TypeCorrect == Spec => []TypeOK
BY TypeInit, TypeStep, PTL DEF Spec

(***************************************************************************)
(* No trigger is dropped without a pass after it.  NoPassMissed is not     *)
(* inductive by itself: a trigger that comes while the loop rests must     *)
(* find reconcileRunning false, or it would be swallowed with no pass to   *)
(* notice it.                                                              *)
(***************************************************************************)
IInv == TypeOK /\ RunningMatchesLoop /\ NoPassMissed

LEMMA IInvInit == Init => IInv
BY TypeInit DEF Init, IInv, RunningMatchesLoop, NoPassMissed, Quiescent, RunningPcs

LEMMA IInvStep == IInv /\ [Next]_vars => IInv'
<1> SUFFICES ASSUME IInv, [Next]_vars
             PROVE  RunningMatchesLoop' /\ NoPassMissed'
  BY TypeStep DEF IInv
<1> DEFINE Goal == RunningMatchesLoop' /\ NoPassMissed'
<1> USE DEF IInv, TypeOK, RunningMatchesLoop, NoPassMissed, Quiescent,
            RunningPcs, LoopPcs, loopVars, callerVars, history
<1>1. ASSUME NEW c \in Callers, NEW id \in TriggerIds, TriggerLocked(c, id)
      PROVE  Goal
  <2>1. RunningMatchesLoop'
    BY <1>1 DEF TriggerLocked
  <2>2. CASE loopPc = "select"
    <3>1. ~reconcileRunning
      BY <2>2
    <3>2. callerPc'[c] = "send"
      BY <1>1, <3>1 DEF TriggerLocked
    <3>3. QED
      BY <2>1, <3>2
  <2>3. CASE loopPc # "select"
    BY <1>1, <2>1, <2>3 DEF TriggerLocked
  <2>4. QED
    BY <2>2, <2>3
<1>2. ASSUME NEW c \in Callers, TriggerSend(c)
      PROVE  Goal
  <2>1. triggerCh' # << >>
    <3>1. ChannelCapacity \in Nat /\ ChannelCapacity > 0
      BY NumGroupsAssumption DEF ChannelCapacity
    <3>2. CASE Len(triggerCh) < ChannelCapacity
      BY <1>2, <3>2 DEF TriggerSend
    <3>3. CASE ~(Len(triggerCh) < ChannelCapacity)
      BY <1>2, <3>1, <3>3 DEF TriggerSend
    <3>4. QED
      BY <3>2, <3>3
  <2>2. QED
    BY <1>2, <2>1 DEF TriggerSend
<1>3. BootReconcile => Goal
  BY DEF BootReconcile
<1>4. PollTick => Goal
  BY DEF PollTick
<1>5. ReceiveTrigger => Goal
  BY DEF ReceiveTrigger
<1>6. LoopDone => Goal
  BY DEF LoopDone
<1>7. EnterReconcile => Goal
  BY DEF EnterReconcile
<1>8. DrainSignals => Goal
  <2>1. CASE DrainSignals /\ cancelled
    BY <2>1 DEF DrainSignals, Abandon
  <2>2. CASE DrainSignals /\ ~cancelled
    <3>1. loopPc' = "readSeq" /\ UNCHANGED reconcileRunning
      BY <2>2 DEF DrainSignals, Abandon
    <3>2. reconcileRunning
      BY <2>2 DEF DrainSignals
    <3>3. QED
      BY <3>1, <3>2
  <2>3. QED
    BY <2>1, <2>2
<1>9. ReadStartSeq => Goal
  BY DEF ReadStartSeq
<1>10. DrainAgain => Goal
  <2>1. CASE DrainAgain /\ cancelled
    BY <2>1 DEF DrainAgain, Abandon
  <2>2. CASE DrainAgain /\ ~cancelled
    <3>1. loopPc' = "pass" /\ UNCHANGED reconcileRunning
      BY <2>2 DEF DrainAgain, Abandon
    <3>2. reconcileRunning
      BY <2>2 DEF DrainAgain
    <3>3. QED
      BY <3>1, <3>2
  <2>3. QED
    BY <2>1, <2>2
<1>11. ReconcileGroup => Goal
  BY DEF ReconcileGroup
<1>12. FinishPass => Goal
  <2>1. CASE FinishPass /\ triggerSeq # startSeq /\ ~cancelled
    <3>1. loopPc' = "drain" /\ UNCHANGED reconcileRunning /\ reconcileRunning
      BY <2>1 DEF FinishPass
    <3>2. QED
      BY <3>1
  <2>2. CASE FinishPass /\ (triggerSeq = startSeq \/ cancelled)
    <3>1. /\ loopPc' = "select" /\ ~reconcileRunning'
          /\ UNCHANGED <<triggerSeq, startSeq, cancelled>>
      BY <2>2 DEF FinishPass
    <3>2. QED
      BY <2>2, <3>1
  <2>3. QED
    BY <2>1, <2>2 DEF FinishPass
<1>13. Cancel => Goal
  BY DEF Cancel
<1>14. UNCHANGED vars => Goal
  BY DEF vars
<1>15. QED
  BY <1>1, <1>2, <1>3, <1>4, <1>5, <1>6, <1>7, <1>8, <1>9, <1>10, <1>11,
     <1>12, <1>13, <1>14, StepCases

(* When the loop comes to rest, its last pass began after the last trigger *)
(* of any group, for every number of groups, callers and triggers: the     *)
(* claim NoPassMissed about triggerGroup and doReconcileGroups.            *)
THEOREM EveryTriggerFollowedByPass == Spec => []NoPassMissed
<1>1. IInv => NoPassMissed
  BY DEF IInv
<1>2. QED
  BY IInvInit, IInvStep, <1>1, PTL DEF Spec

(* reconcileRunning is true exactly while a pass runs, on every path out   *)
(* of doReconcileGroups: RunningMatchesLoop.                               *)
THEOREM RunningFlagNeverLeaks == Spec => []RunningMatchesLoop
<1>1. IInv => RunningMatchesLoop
  BY DEF IInv
<1>2. QED
  BY IInvInit, IInvStep, <1>1, PTL DEF Spec

(***************************************************************************)
(* The loop implements PassService.  A trigger is a Request, the locked    *)
(* read of the sequence number a Begin, a visited group a Visit; coming to *)
(* rest is a Park, which NoPassMissed allows.  The remaining steps change  *)
(* neither what is asked for nor what is answered.                         *)
(***************************************************************************)
Asked == {g \in Groups : Unserved(g)}

(* No pass is ahead of the triggers it answers.                            *)
SeqBound ==
  /\ startSeq <= triggerSeq
  /\ \A g \in Groups : served[g] <= triggerSeq /\ lastTrigger[g] <= triggerSeq

LEMMA SeqBoundStep == TypeOK /\ SeqBound /\ [Next]_vars => SeqBound'
<1> SUFFICES ASSUME TypeOK, SeqBound, [Next]_vars PROVE SeqBound'
  OBVIOUS
<1> USE DEF SeqBound, TypeOK, loopVars, callerVars, history
<1>1. ASSUME NEW c \in Callers, NEW id \in TriggerIds, TriggerLocked(c, id)
      PROVE  SeqBound'
  BY <1>1 DEF TriggerLocked
<1>2. ASSUME NEW c \in Callers, TriggerSend(c)
      PROVE  SeqBound'
  BY <1>2 DEF TriggerSend
<1>3. /\ BootReconcile => SeqBound'
      /\ PollTick => SeqBound'
      /\ ReceiveTrigger => SeqBound'
      /\ LoopDone => SeqBound'
      /\ EnterReconcile => SeqBound'
  BY DEF BootReconcile, PollTick, ReceiveTrigger, LoopDone, EnterReconcile
<1>4. DrainSignals => SeqBound'
  BY DEF DrainSignals, Abandon
<1>5. ReadStartSeq => SeqBound'
  BY DEF ReadStartSeq
<1>6. DrainAgain => SeqBound'
  BY DEF DrainAgain, Abandon
<1>7. ReconcileGroup => SeqBound'
  BY DEF ReconcileGroup
<1>8. FinishPass => SeqBound'
  BY DEF FinishPass
<1>9. Cancel => SeqBound'
  BY DEF Cancel
<1>10. UNCHANGED vars => SeqBound'
  BY DEF vars
<1>11. QED
  BY <1>1, <1>2, <1>3, <1>4, <1>5, <1>6, <1>7, <1>8, <1>9, <1>10, StepCases

LEMMA ServiceInit == Init => Service!Init
<1> SUFFICES ASSUME Init PROVE Service!Init
  OBVIOUS
<1>1. {g \in Groups : Unserved(g)} = {}
  BY DEF Init, Unserved
<1>2. (startSeq # triggerSeq) = FALSE
  BY DEF Init
<1>3. Quiescent = FALSE
  BY DEF Init, Quiescent
<1>4. cancelled = FALSE
  BY DEF Init
<1>5. QED
  BY <1>1, <1>2, <1>3, <1>4 DEF Service!Init

(* A step that leaves the trigger numbers and the context alone only comes *)
(* to rest or ends a rest.                                                 *)
LEMMA QuietStep ==
  ASSUME IInv, IInv', UNCHANGED <<triggerSeq, startSeq, cancelled, history>>
  PROVE  [Service!Next]_Service!vars
<1>1. Asked' = Asked
  BY DEF Asked, Unserved, history
<1>2. (startSeq # triggerSeq)' = (startSeq # triggerSeq) /\ cancelled' = cancelled
  OBVIOUS
<1>3. CASE Quiescent' = Quiescent
  BY <1>1, <1>2, <1>3 DEF Service!vars, Asked
<1>4. CASE Quiescent' /\ ~Quiescent
  <2>1. (startSeq # triggerSeq) = FALSE /\ cancelled = FALSE
    BY <1>2, <1>4 DEF IInv, NoPassMissed, Quiescent, TypeOK
  <2>2. Quiescent' = TRUE
    BY <1>4 DEF Quiescent
  <2>3. Service!Park
    BY <1>1, <1>2, <2>1, <2>2 DEF Service!Park, Asked
  <2>4. QED
    BY <2>3 DEF Service!Next
<1>5. CASE ~Quiescent' /\ Quiescent
  <2>1. Quiescent' = FALSE
    BY <1>5 DEF Quiescent
  <2>2. Service!Wake
    BY <1>1, <1>2, <2>1 DEF Service!Wake, Asked
  <2>3. QED
    BY <2>2 DEF Service!Next
<1>6. QED
  BY <1>3, <1>4, <1>5 DEF Quiescent

LEMMA ServiceStep == IInv /\ SeqBound /\ [Next]_vars => [Service!Next]_Service!vars
<1> SUFFICES ASSUME IInv, SeqBound, [Next]_vars PROVE [Service!Next]_Service!vars
  OBVIOUS
<1>0. IInv'
  BY IInvStep
<1> DEFINE Goal == [Service!Next]_Service!vars
<1>1. ASSUME NEW c \in Callers, NEW id \in TriggerIds, TriggerLocked(c, id)
      PROVE  Goal
  <2> DEFINE gs == SelectedGroups({id})
  <2>1. gs \in (SUBSET Groups) \ {{}}
    <3>1. gs \in SUBSET Groups
      BY SelectedGroupsType
    <3>2. 1 \in Groups
      BY NumGroupsAssumption DEF Groups
    <3>3. QED
      BY <3>1, <3>2 DEF SelectedGroups
  <2>2. Asked' = Asked \cup gs
    <3>1. \A g \in Groups : lastTrigger'[g] = IF g \in gs THEN triggerSeq + 1 ELSE lastTrigger[g]
      BY <1>1 DEF TriggerLocked
    <3>2. served' = served
      BY <1>1 DEF TriggerLocked
    <3>3. \A g \in Groups : Unserved(g)' <=> (g \in gs \/ Unserved(g))
      <4> HIDE DEF gs
      <4>1. /\ triggerSeq \in Nat
            /\ \A g \in Groups : served[g] \in Nat /\ lastTrigger[g] \in Nat
                                  /\ served[g] <= triggerSeq
        BY DEF SeqBound, IInv, TypeOK
      <4>2. QED
        BY <3>1, <3>2, <4>1 DEF Unserved
    <3> HIDE DEF gs
    <3>4. QED
      BY <2>1, <3>3 DEF Asked
  <2>3. (startSeq # triggerSeq)' = TRUE /\ cancelled' = cancelled
    BY <1>1 DEF TriggerLocked, SeqBound, IInv, TypeOK, loopVars
  <2>4. Quiescent' = FALSE
    <3>1. CASE reconcileRunning
      <4>1. loopPc' # "select"
        BY <1>1, <3>1 DEF TriggerLocked, loopVars, IInv, RunningMatchesLoop, RunningPcs
      <4>2. QED
        BY <4>1 DEF Quiescent
    <3>2. CASE ~reconcileRunning
      <4>1. callerPc'[c] = "send"
        BY <1>1, <3>2 DEF TriggerLocked, IInv, TypeOK
      <4>2. QED
        BY <4>1 DEF Quiescent
    <3>3. QED
      BY <3>1, <3>2
  <2>5. Service!Request
    <3> HIDE DEF gs
    <3>1. \E x \in (SUBSET Groups) \ {{}} : Asked' = Asked \cup x
      BY <2>1, <2>2
    <3>2. QED
      BY <3>1, <2>3, <2>4 DEF Service!Request, Asked
  <2>6. QED
    BY <2>5 DEF Service!Next
<1>2. ASSUME NEW c \in Callers, TriggerSend(c)
      PROVE  Goal
  BY <1>0, <1>2, QuietStep DEF TriggerSend, loopVars
<1>3. /\ BootReconcile => Goal
      /\ PollTick => Goal
      /\ ReceiveTrigger => Goal
      /\ LoopDone => Goal
      /\ EnterReconcile => Goal
  BY <1>0, QuietStep DEF BootReconcile, PollTick, ReceiveTrigger, LoopDone, EnterReconcile
<1>4. DrainSignals => Goal
  BY <1>0, QuietStep DEF DrainSignals, Abandon
<1>5. DrainAgain => Goal
  BY <1>0, QuietStep DEF DrainAgain, Abandon
<1>6. FinishPass => Goal
  BY <1>0, QuietStep DEF FinishPass
<1>7. ReadStartSeq => Goal
  <2> SUFFICES ASSUME ReadStartSeq PROVE Goal
    OBVIOUS
  <2>1. Quiescent = FALSE /\ Quiescent' = FALSE /\ cancelled' = cancelled
    BY DEF ReadStartSeq, Quiescent
  <2>2. (startSeq # triggerSeq)' = FALSE
    BY DEF ReadStartSeq
  <2>3. Asked' = Asked
    BY DEF ReadStartSeq, Asked, Unserved, history
  <2>4. Service!Begin
    BY <2>1, <2>2, <2>3 DEF Service!Begin, Asked
  <2>5. QED
    BY <2>4 DEF Service!Next
<1>8. ReconcileGroup => Goal
  <2> SUFFICES ASSUME ReconcileGroup PROVE Goal
    OBVIOUS
  <2>1. Quiescent = FALSE /\ Quiescent' = FALSE /\ cancelled' = cancelled
    BY DEF ReconcileGroup, Quiescent
  <2>2. (startSeq # triggerSeq)' = (startSeq # triggerSeq)
    BY DEF ReconcileGroup
  <2>3. PICK g \in targets : served' = [served EXCEPT ![g] = triggerSeq]
    BY DEF ReconcileGroup
  <2>4. g \in Groups
    BY <2>3 DEF IInv, TypeOK
  <2>5. CASE lastTrigger[g] <= triggerSeq
    <3>1. \A h \in Groups : Unserved(h)' <=> (Unserved(h) /\ h # g)
      BY <2>3, <2>4, <2>5 DEF ReconcileGroup, Unserved, IInv, TypeOK
    <3>2. Asked' = Asked \ {g}
      BY <3>1 DEF Asked
    <3>3. Service!Visit
      BY <2>1, <2>2, <2>4, <3>2 DEF Service!Visit, Asked
    <3>4. QED
      BY <3>3 DEF Service!Next
  <2>6. QED
    BY <2>4, <2>5 DEF SeqBound
<1>9. Cancel => Goal
  <2> SUFFICES ASSUME Cancel PROVE Goal
    OBVIOUS
  <2>1. Quiescent' = FALSE /\ cancelled' = TRUE
    BY DEF Cancel, Quiescent
  <2>2. (startSeq # triggerSeq)' = (startSeq # triggerSeq)
    BY DEF Cancel, loopVars
  <2>3. Asked' = Asked
    BY DEF Cancel, Asked, Unserved, history
  <2>4. Service!Stop
    BY <2>1, <2>2, <2>3 DEF Service!Stop, Asked
  <2>5. QED
    BY <2>4 DEF Service!Next
<1>10. UNCHANGED vars => Goal
  BY <1>0, QuietStep DEF vars, loopVars
<1>11. QED
  BY <1>1, <1>2, <1>3, <1>4, <1>5, <1>6, <1>7, <1>8, <1>9, <1>10, StepCases

(* For any number of groups, callers and triggers, the trigger loop makes  *)
(* only the steps PassService allows: it never rests owing a pass, and a   *)
(* group asked for is forgotten by nothing but a visit.                    *)
THEOREM LoopImplementsService == Spec => ImplementsServiceSafety
<1>1. Init => IInv /\ SeqBound
  BY IInvInit DEF Init, SeqBound
<1>2. IInv /\ SeqBound /\ [Next]_vars => (IInv /\ SeqBound)'
  BY IInvStep, SeqBoundStep DEF IInv
<1>3. QED
  BY <1>1, <1>2, ServiceInit, ServiceStep, PTL DEF Spec, ImplementsServiceSafety, Service!Safety

(***************************************************************************)
(* The debouncer, whose callbacks make the webhooks' triggers.             *)
(***************************************************************************)

(* What has not been scheduled has no timer, and an entry counts schedule  *)
(* calls.                                                                  *)
CallsCounted ==
  /\ \A i \in Scheduled : i > calls => state[i] = "unused"
  /\ \A k \in Keys : entry[k] <= calls /\ (entry[k] = 0 => timer[k] = 0)
  /\ \A i \in Scheduled : state[i] # "unused" => subject[i] \in Subjects

DebounceInv == DebouncerTypeOK /\ CallsCounted /\ EntryHasCallback

(* The callback that an entry has.                                         *)
Holds(k, i) ==
  /\ i \in Scheduled
  /\ state[i] \in {"armed", "fired"}
  /\ KeyOf[subject[i]] = k
  /\ generationOf[i] = entry[k]
  /\ timer[k] = i

LEMMA HasCallback ==
  EntryHasCallback <=> \A k \in Keys : entry[k] # 0 => \E i : Holds(k, i)
BY DEF EntryHasCallback, Callbacks, Holds

LEMMA HasCallbackNext ==
  ASSUME \A k \in Keys : entry'[k] # 0 => \E i : Holds(k, i)'
  PROVE  EntryHasCallback'
BY DEF EntryHasCallback, Callbacks, Holds, Keys, Scheduled

LEMMA DebounceSteps ==
  ASSUME [DebounceNext]_debounceVars
  PROVE  \/ \E s \in Subjects : Schedule(s)
         \/ \E i \in Scheduled : Fires(i)
         \/ \E i \in Scheduled : Enter(i)
         \/ \E i \in Scheduled : RunFn(i)
         \/ \E i \in Scheduled : Cleanup(i)
         \/ ShutDown
         \/ UNCHANGED debounceVars
BY DEF DebounceNext, CallbackStep

LEMMA ScheduleKeeps ==
  ASSUME MaxCalls \in Nat, DebounceInv, NEW s \in Subjects, Schedule(s)
  PROVE  DebounceInv'
<1> DEFINE k == KeyOf[s]
           i == calls + 1
<1>1. DebouncerTypeOK /\ CallsCounted /\ EntryHasCallback
  BY DEF DebounceInv
<1>2. k \in Keys /\ i \in Scheduled /\ calls \in Nat /\ i <= MaxCalls
  BY <1>1 DEF Keys, Scheduled, DebouncerTypeOK, Schedule
<1>3. /\ calls' = i
      /\ entry' = [entry EXCEPT ![k] = entry[k] + 1]
      /\ generationOf' = [generationOf EXCEPT ![i] = entry[k] + 1]
      /\ timer' = [timer EXCEPT ![k] = i]
      /\ subject' = [subject EXCEPT ![i] = s]
      /\ state' = [j \in Scheduled |->
                         IF j = i THEN "armed"
                         ELSE IF j = timer[k] /\ state[j] = "armed" THEN "done" ELSE state[j]]
      /\ due' = due \cup {s}
      /\ overlapped' = overlapped \/ overlapped' = overlapped \cup {k}
      /\ shutDown' = shutDown
  BY DEF Schedule
<1>4. \A m \in Keys : entry[m] \in 0 .. MaxCalls /\ entry[m] <= calls
  BY <1>1 DEF CallsCounted, DebouncerTypeOK
<1>5. entry[k] + 1 \in 0 .. MaxCalls /\ entry[k] + 1 <= i /\ entry[k] + 1 # 0
  BY <1>2, <1>4
<1>6. i \in 0 .. MaxCalls
  BY <1>2
<1> HIDE DEF k, i
<1>7. DebouncerTypeOK'
  <2>1. calls' \in 0 .. MaxCalls /\ entry' \in [Keys -> 0 .. MaxCalls]
    BY <1>1, <1>3, <1>5, <1>6 DEF DebouncerTypeOK
  <2>2. timer' \in [Keys -> 0 .. MaxCalls] /\ generationOf' \in [Scheduled -> 0 .. MaxCalls]
    BY <1>1, <1>3, <1>5, <1>6 DEF DebouncerTypeOK
  <2>3. subject' \in [Scheduled -> Subjects \cup {NoSubject}]
    BY <1>1, <1>3 DEF DebouncerTypeOK
  <2>4. state' \in [Scheduled -> States]
    BY <1>1, <1>3 DEF DebouncerTypeOK, States
  <2>5. shutDown' \in BOOLEAN /\ due' \in SUBSET Subjects /\ overlapped' \in SUBSET Keys
    BY <1>1, <1>2, <1>3 DEF DebouncerTypeOK
  <2> QED BY <2>1, <2>2, <2>3, <2>4, <2>5 DEF DebouncerTypeOK, Keys, Scheduled, States
<1>8. CallsCounted'
  <2>1. ASSUME NEW j \in Scheduled, j > i PROVE state'[j] = "unused"
    <3>1. j > calls /\ j # i
      BY <1>2, <2>1 DEF i, Scheduled
    <3>2. state[j] = "unused"
      BY <1>1, <3>1 DEF CallsCounted
    <3> QED BY <1>3, <3>1, <3>2
  <2>2. ASSUME NEW m \in Keys PROVE entry'[m] <= i /\ (entry'[m] = 0 => timer'[m] = 0)
    <3>0. timer'[m] = IF m = k THEN i ELSE timer[m]
      BY <1>1, <1>3 DEF DebouncerTypeOK
    <3>1. entry'[m] = IF m = k THEN entry[k] + 1 ELSE entry[m]
      BY <1>1, <1>3 DEF DebouncerTypeOK
    <3>2. entry[m] <= i
      BY <1>2, <1>4 DEF i
    <3>3. entry[m] = 0 => timer[m] = 0
      BY <1>1 DEF CallsCounted
    <3> QED BY <1>5, <3>0, <3>1, <3>2, <3>3
  <2>3. ASSUME NEW j \in Scheduled, state'[j] # "unused" PROVE subject'[j] \in Subjects
    <3>1. subject'[j] = IF j = i THEN s ELSE subject[j]
      BY <1>1, <1>3 DEF DebouncerTypeOK
    <3>2. j # i => state[j] # "unused"
      BY <1>3, <2>3
    <3> QED BY <1>1, <3>1, <3>2 DEF CallsCounted
  <2> QED BY <1>3, <2>1, <2>2, <2>3 DEF CallsCounted, Keys, Scheduled
<1>9. ASSUME NEW m \in Keys, entry'[m] # 0 PROVE \E h : Holds(m, h)'
  <2>1. CASE m = k
    <3>1. state'[i] = "armed" /\ subject'[i] = s /\ generationOf'[i] = entry[k] + 1
      BY <1>1, <1>2, <1>3 DEF DebouncerTypeOK
    <3>2. entry'[k] = entry[k] + 1 /\ timer'[k] = i
      BY <1>1, <1>2, <1>3 DEF DebouncerTypeOK
    <3>3. PICK h : h = i
      OBVIOUS
    <3>4. Holds(m, h)'
      BY <1>2, <2>1, <3>1, <3>2, <3>3 DEF Holds, k, Scheduled
    <3> QED BY <3>4
  <2>2. CASE m # k
    <3>1. entry'[m] = entry[m] /\ timer'[m] = timer[m]
      BY <1>1, <1>3, <2>2 DEF DebouncerTypeOK
    <3>2. PICK h : Holds(m, h)
      BY <1>1, <1>9, <3>1, HasCallback
    <3>3. state[i] = "unused"
      BY <1>1, <1>2 DEF CallsCounted, i
    <3>4. h # i /\ h \in Scheduled
      BY <3>2, <3>3 DEF Holds
    <3>5. subject'[h] = subject[h] /\ generationOf'[h] = generationOf[h]
      BY <1>1, <1>3, <3>4 DEF DebouncerTypeOK
    <3>6. h # timer[k]
      <4>1. CASE entry[k] = 0
        <5>1. timer[k] = 0 /\ 0 \notin Scheduled
          BY <1>1, <1>2, <4>1 DEF CallsCounted, Scheduled
        <5> QED BY <3>4, <5>1
      <4>2. CASE entry[k] # 0
        <5>1. PICK g : Holds(k, g)
          BY <1>1, <1>2, <4>2, HasCallback
        <5>2. timer[k] = g /\ KeyOf[subject[g]] = k /\ KeyOf[subject[h]] = m
          BY <3>2, <5>1 DEF Holds
        <5> QED BY <2>2, <5>2
      <4> QED BY <4>1, <4>2
    <3>7. state'[h] = state[h]
      BY <1>3, <3>4, <3>6
    <3>8. Holds(m, h)'
      BY <3>1, <3>2, <3>5, <3>7 DEF Holds, Scheduled
    <3> QED BY <3>8
  <2> QED BY <2>1, <2>2
<1>10. EntryHasCallback'
  BY <1>9, HasCallbackNext
<1> QED BY <1>7, <1>8, <1>10 DEF DebounceInv

(* A callback's step changes its own state, and deletes its key's entry or *)
(* no entry.                                                               *)
LEMMA CallbackKeeps ==
  ASSUME MaxCalls \in Nat, DebounceInv, NEW i \in Scheduled, NEW to \in States,
         state[i] # "unused", to # "unused",
         state' = [state EXCEPT ![i] = to],
         UNCHANGED <<calls, subject, generationOf, shutDown, overlapped>>,
         due' \subseteq due,
         Delete(KeyOf[subject[i]]) \/ UNCHANGED <<entry, timer>>,
         state[i] \in {"armed", "fired"} =>
           \/ to \in {"armed", "fired"}
           \/ ~Current(i)
           \/ Delete(KeyOf[subject[i]])
  PROVE  DebounceInv'
<1> DEFINE k == KeyOf[subject[i]]
<1>1. DebouncerTypeOK /\ CallsCounted /\ EntryHasCallback
  BY DEF DebounceInv
<1>2. subject[i] \in Subjects /\ k \in Keys
  BY <1>1 DEF CallsCounted, Keys
<1>3. \/ entry' = [entry EXCEPT ![k] = 0] /\ timer' = [timer EXCEPT ![k] = 0]
      \/ entry' = entry /\ timer' = timer
  BY DEF Delete
<1>4. 0 \in 0 .. MaxCalls
  OBVIOUS
<1> HIDE DEF k
<1>5. entry' \in [Keys -> 0 .. MaxCalls] /\ timer' \in [Keys -> 0 .. MaxCalls]
  BY <1>1, <1>3, <1>4 DEF DebouncerTypeOK
<1>6. state' \in [Scheduled -> States]
  BY <1>1 DEF DebouncerTypeOK
<1>7. DebouncerTypeOK'
  BY <1>1, <1>5, <1>6 DEF DebouncerTypeOK, Keys, Scheduled, States
<1>8. \A j \in Scheduled : state'[j] = IF j = i THEN to ELSE state[j]
  BY <1>1 DEF DebouncerTypeOK
<1>9. \A m \in Keys : \/ m = k /\ entry'[m] = 0 /\ timer'[m] = 0
                      \/ entry'[m] = entry[m] /\ timer'[m] = timer[m]
  BY <1>1, <1>3 DEF DebouncerTypeOK
<1>10. CallsCounted'
  <2>1. \A j \in Scheduled : j > calls' => state'[j] = "unused"
    BY <1>1, <1>8 DEF CallsCounted
  <2>2. calls \in Nat
    BY <1>1 DEF DebouncerTypeOK
  <2>3. \A m \in Keys : entry'[m] <= calls' /\ (entry'[m] = 0 => timer'[m] = 0)
    BY <1>1, <1>9, <2>2 DEF CallsCounted
  <2>4. \A j \in Scheduled : state'[j] # "unused" => subject'[j] \in Subjects
    BY <1>1, <1>8 DEF CallsCounted
  <2> QED BY <2>1, <2>3, <2>4 DEF CallsCounted, Keys, Scheduled
<1>11. ASSUME NEW m \in Keys, entry'[m] # 0 PROVE \E h : Holds(m, h)'
  <2>1. entry'[m] = entry[m] /\ timer'[m] = timer[m]
    BY <1>9, <1>11
  <2>2. PICK h : Holds(m, h)
    BY <1>1, <1>11, <2>1, HasCallback
  <2>3. CASE h # i
    <3>1. state'[h] = state[h]
      BY <1>8, <2>2, <2>3 DEF Holds
    <3>2. Holds(m, h)'
      BY <2>1, <2>2, <3>1 DEF Holds, Scheduled
    <3> QED BY <3>2
  <2>4. CASE h = i
    <3>1. m = k /\ Current(i) /\ state[i] \in {"armed", "fired"}
      BY <2>2, <2>4 DEF Holds, k, Current
    <3>2. ~Delete(KeyOf[subject[i]])
      <4> SUFFICES ASSUME Delete(KeyOf[subject[i]]) PROVE FALSE
        OBVIOUS
      <4>1. entry' = [entry EXCEPT ![k] = 0]
        BY DEF Delete, k
      <4>2. entry'[m] = 0
        BY <1>1, <3>1, <4>1 DEF DebouncerTypeOK
      <4> QED BY <1>11, <4>2
    <3>3. to \in {"armed", "fired"} /\ state'[i] = to
      BY <1>8, <3>1, <3>2
    <3>4. Holds(m, h)'
      BY <2>1, <2>2, <2>4, <3>3 DEF Holds, Scheduled
    <3> QED BY <3>4
  <2> QED BY <2>3, <2>4
<1>12. EntryHasCallback'
  BY <1>11, HasCallbackNext
<1> QED BY <1>7, <1>10, <1>12 DEF DebounceInv

LEMMA DebounceStep ==
  ASSUME MaxCalls \in Nat, DebounceInv, [DebounceNext]_debounceVars
  PROVE  DebounceInv'
<1> USE DEF States
<1>1. ASSUME NEW i \in Scheduled, Fires(i) PROVE DebounceInv'
  BY <1>1, CallbackKeeps DEF Fires
<1>2. ASSUME NEW i \in Scheduled, Enter(i) PROVE DebounceInv'
  <2>1. CASE Delete(KeyOf[subject[i]]) /\ state' = [state EXCEPT ![i] = "run"]
    BY <1>2, <2>1, CallbackKeeps DEF Enter
  <2>2. CASE /\ ~Current(i) /\ state' = [state EXCEPT ![i] = "done"]
             /\ UNCHANGED <<entry, timer>>
    BY <1>2, <2>2, CallbackKeeps DEF Enter
  <2> QED BY <1>2, <2>1, <2>2 DEF Enter
<1>3. ASSUME NEW i \in Scheduled, RunFn(i) PROVE DebounceInv'
  <2>1. due' \subseteq due
    BY <1>3 DEF RunFn
  <2> QED BY <1>3, <2>1, CallbackKeeps DEF RunFn
<1>4. ASSUME NEW i \in Scheduled, Cleanup(i) PROVE DebounceInv'
  BY <1>4, CallbackKeeps DEF Cleanup
<1>5. CASE ShutDown \/ UNCHANGED debounceVars
  <2>1. UNCHANGED <<calls, entry, timer, subject, generationOf, state, due, overlapped>>
        /\ (shutDown \in BOOLEAN => shutDown' \in BOOLEAN)
    BY <1>5 DEF ShutDown, debounceVars
  <2>2. DebouncerTypeOK'
    BY <2>1 DEF DebounceInv, DebouncerTypeOK, Keys, Scheduled
  <2>3. CallsCounted'
    BY <2>1 DEF DebounceInv, CallsCounted, Keys, Scheduled
  <2>4. EntryHasCallback'
    BY <2>1 DEF DebounceInv, EntryHasCallback, Callbacks, Keys, Scheduled
  <2> QED BY <2>2, <2>3, <2>4 DEF DebounceInv
<1> QED BY <1>1, <1>2, <1>3, <1>4, <1>5, ScheduleKeeps, DebounceSteps

LEMMA DebounceInvInit ==
  ASSUME MaxCalls \in Nat, DebounceInit
  PROVE  DebounceInv
<1>1. /\ calls = 0 /\ entry = [k \in Keys |-> 0] /\ timer = [k \in Keys |-> 0]
      /\ subject = [i \in Scheduled |-> NoSubject]
      /\ generationOf = [i \in Scheduled |-> 0] /\ state = [i \in Scheduled |-> "unused"]
      /\ shutDown = FALSE /\ due = {} /\ overlapped = {}
  BY DEF DebounceInit
<1>2. 0 \in 0 .. MaxCalls /\ "unused" \in States
  BY DEF States
<1>3. DebouncerTypeOK
  BY <1>1, <1>2 DEF DebouncerTypeOK
<1>4. CallsCounted
  BY <1>1 DEF CallsCounted
<1>5. EntryHasCallback
  BY <1>1, HasCallback
<1> QED BY <1>3, <1>4, <1>5 DEF DebounceInv

(* For any keys, subjects and number of events, no entry of the debouncer  *)
(* outlives the callback that will find it.                                *)
THEOREM EntriesHaveCallbacks == DebounceSpec => []EntryHasCallback
<1>1. DebounceInv => EntryHasCallback
  BY DEF DebounceInv
<1>2. DebounceInit => DebounceInv
  BY DebounceInvInit, CallsAssumption
<1>3. DebounceInv /\ [DebounceNext]_debounceVars => DebounceInv'
  BY DebounceStep, CallsAssumption
<1> QED BY <1>1, <1>2, <1>3, PTL DEF DebounceSpec

(* The type of the debouncer's state, for any number of events.            *)
THEOREM DebouncerTypeCorrect == DebounceSpec => []DebouncerTypeOK
<1>1. DebounceInv => DebouncerTypeOK
  BY DEF DebounceInv
<1>2. DebounceInit => DebounceInv
  BY DebounceInvInit, CallsAssumption
<1>3. DebounceInv /\ [DebounceNext]_debounceVars => DebounceInv'
  BY DebounceStep, CallsAssumption
<1> QED BY <1>1, <1>2, <1>3, PTL DEF DebounceSpec

(***************************************************************************)
(* No event is forgotten, unless it met a callback past its timer.         *)
(***************************************************************************)

Live(i) == state[i] \in {"armed", "fired", "run", "cleanup"}

(* A key whose events never overlapped a callback has one callback at a    *)
(* time, and the entry is that callback's until it has taken it.           *)
SoleCallback ==
  \A i \in Scheduled : Live(i) /\ KeyOf[subject[i]] \notin overlapped =>
    /\ \A j \in Scheduled : Live(j) /\ KeyOf[subject[j]] = KeyOf[subject[i]] => j = i
    /\ state[i] \in {"armed", "fired"} => Current(i) /\ timer[KeyOf[subject[i]]] = i

(* Callback i is going to look at s: it runs, or will find its entry.      *)
Serves(i, s) ==
  /\ i \in Scheduled
  /\ subject[i] = s
  /\ state[i] = "run" \/ (state[i] \in {"armed", "fired"} /\ Current(i))

(* An event no fn has looked at has a callback that will, unless it met    *)
(* one of its key that was past its timer, or the daemon is shutting down. *)
EventHasCallback ==
  OwnKeys /\ ~shutDown =>
    \A s \in due : KeyOf[s] \in overlapped \/ \E i : Serves(i, s)

EventInv == DebounceInv /\ SoleCallback /\ EventHasCallback

LEMMA ScheduleServes ==
  ASSUME MaxCalls \in Nat, EventInv, NEW s \in Subjects, Schedule(s)
  PROVE  SoleCallback' /\ EventHasCallback'
<1> DEFINE k == KeyOf[s]
           n == calls + 1
<1>1. DebouncerTypeOK /\ CallsCounted /\ EntryHasCallback /\ SoleCallback /\ EventHasCallback
  BY DEF EventInv, DebounceInv
<1>2. k \in Keys /\ n \in Scheduled /\ state[n] = "unused"
  BY <1>1 DEF Keys, Scheduled, DebouncerTypeOK, Schedule, CallsCounted
<1>3. /\ entry' = [entry EXCEPT ![k] = entry[k] + 1]
      /\ generationOf' = [generationOf EXCEPT ![n] = entry[k] + 1]
      /\ timer' = [timer EXCEPT ![k] = n]
      /\ subject' = [subject EXCEPT ![n] = s]
      /\ state' = [j \in Scheduled |->
                         IF j = n THEN "armed"
                         ELSE IF j = timer[k] /\ state[j] = "armed" THEN "done" ELSE state[j]]
      /\ due' = due \cup {s}
      /\ overlapped' = IF Callbacks(k, {"fired", "run", "cleanup"}) # {}
                       THEN overlapped \cup {k} ELSE overlapped
      /\ shutDown' = shutDown
  BY DEF Schedule
<1> HIDE DEF k, n
<1>4. \A m \in Keys : m # k => entry'[m] = entry[m] /\ timer'[m] = timer[m]
  BY <1>1, <1>3 DEF DebouncerTypeOK
<1>5. \A j \in Scheduled : j # n => subject'[j] = subject[j] /\ generationOf'[j] = generationOf[j]
  BY <1>1, <1>3 DEF DebouncerTypeOK
<1>6. /\ state'[n] = "armed" /\ subject'[n] = s /\ generationOf'[n] = entry[k] + 1
      /\ entry'[k] = entry[k] + 1 /\ timer'[k] = n
  BY <1>1, <1>2, <1>3 DEF DebouncerTypeOK
<1>7. \A j \in Scheduled : j # n =>
        state'[j] = IF j = timer[k] /\ state[j] = "armed" THEN "done" ELSE state[j]
  BY <1>3
<1>8. ASSUME NEW j \in Scheduled, j # n, Live(j)' PROVE Live(j) /\ state'[j] = state[j]
  BY <1>7, <1>8 DEF Live
<1>9. ASSUME NEW j \in Scheduled, Live(j)', KeyOf[subject'[j]] = k, k \notin overlapped'
      PROVE  j = n
  <2> SUFFICES ASSUME j # n PROVE FALSE
    OBVIOUS
  <2>1. Live(j) /\ state'[j] = state[j] /\ KeyOf[subject[j]] = k
    BY <1>5, <1>8, <1>9
  <2>2. k \notin overlapped /\ Callbacks(k, {"fired", "run", "cleanup"}) = {}
    BY <1>3, <1>9
  <2>3. state[j] = "armed"
    BY <2>1, <2>2 DEF Callbacks, Live
  <2>4. timer[k] = j
    BY <1>1, <2>1, <2>2, <2>3 DEF SoleCallback
  <2> QED BY <1>7, <2>1, <2>3, <2>4
<1>10. SoleCallback'
  <2> SUFFICES ASSUME NEW j \in Scheduled, Live(j)', KeyOf[subject'[j]] \notin overlapped'
               PROVE  /\ \A h \in Scheduled : Live(h)' /\ KeyOf[subject'[h]] = KeyOf[subject'[j]] => h = j
                      /\ state'[j] \in {"armed", "fired"}
                           => Current(j)' /\ timer'[KeyOf[subject'[j]]] = j
    BY DEF SoleCallback, Scheduled, Live, Current
  <2>1. CASE KeyOf[subject'[j]] = k
    <3>1. j = n
      BY <1>9, <2>1
    <3>2. \A h \in Scheduled : Live(h)' /\ KeyOf[subject'[h]] = k => h = n
      BY <1>9, <2>1
    <3> QED BY <1>6, <2>1, <3>1, <3>2 DEF Current
  <2>2. CASE KeyOf[subject'[j]] # k
    <3>1. j # n
      BY <1>6, <2>2 DEF k
    <3>2. /\ Live(j) /\ state'[j] = state[j] /\ subject'[j] = subject[j]
          /\ generationOf'[j] = generationOf[j] /\ KeyOf[subject[j]] \notin overlapped
      BY <1>3, <1>5, <1>8, <3>1
    <3>3. KeyOf[subject[j]] \in Keys
      BY <1>1, <3>2 DEF CallsCounted, Live, Keys
    <3>4. entry'[KeyOf[subject[j]]] = entry[KeyOf[subject[j]]]
          /\ timer'[KeyOf[subject[j]]] = timer[KeyOf[subject[j]]]
      BY <1>4, <2>2, <3>2, <3>3
    <3>5. state'[j] \in {"armed", "fired"} => Current(j)' /\ timer'[KeyOf[subject'[j]]] = j
      BY <1>1, <3>2, <3>4 DEF SoleCallback, Current
    <3>6. ASSUME NEW h \in Scheduled, Live(h)', KeyOf[subject'[h]] = KeyOf[subject'[j]] PROVE h = j
      <4>1. h # n
        BY <1>6, <2>2, <3>6 DEF k
      <4>2. Live(h) /\ subject'[h] = subject[h]
        BY <1>5, <1>8, <3>6, <4>1
      <4> QED BY <1>1, <3>2, <3>6, <4>2 DEF SoleCallback
    <3> QED BY <3>5, <3>6
  <2> QED BY <2>1, <2>2
<1>11. EventHasCallback'
  <2> SUFFICES ASSUME OwnKeys, ~shutDown, NEW t \in due', KeyOf[t] \notin overlapped'
               PROVE  \E j : Serves(j, t)'
    BY <1>3 DEF EventHasCallback, OwnKeys
  <2>1. CASE t = s
    <3>1. PICK j : j = n
      OBVIOUS
    <3>2. Serves(j, t)'
      BY <1>2, <1>6, <2>1, <3>1 DEF Serves, Current, Scheduled, k
    <3> QED BY <3>2
  <2>2. CASE t # s
    <3>1. t \in due /\ t \in Subjects /\ KeyOf[t] \notin overlapped
      BY <1>1, <1>3, <2>2 DEF DebouncerTypeOK
    <3>2. KeyOf[t] # k /\ KeyOf[t] \in Keys
      BY <2>2, <3>1 DEF OwnKeys, k, Keys
    <3>3. PICK j : Serves(j, t)
      BY <1>1, <3>1 DEF EventHasCallback
    <3>4. j \in Scheduled /\ j # n
      BY <1>2, <3>3 DEF Serves
    <3>5. subject'[j] = t /\ generationOf'[j] = generationOf[j]
          /\ entry'[KeyOf[t]] = entry[KeyOf[t]]
      BY <1>4, <1>5, <3>2, <3>3, <3>4 DEF Serves
    <3>6. state'[j] = state[j]
      <4>1. CASE state[j] # "armed"
        BY <1>7, <3>4, <4>1
      <4>2. CASE state[j] = "armed"
        <5>1. timer[KeyOf[t]] = j
          BY <1>1, <3>1, <3>3, <4>2 DEF Serves, SoleCallback, Live
        <5>2. timer[k] # j
          <6>1. CASE entry[k] = 0
            BY <1>1, <1>2, <3>4, <6>1 DEF CallsCounted, Scheduled
          <6>2. CASE entry[k] # 0
            <7>1. PICK g : Holds(k, g)
              BY <1>1, <1>2, <6>2, HasCallback
            <7>2. timer[k] = g /\ KeyOf[subject[g]] = k
              BY <7>1 DEF Holds
            <7>3. subject[j] = t
              BY <3>3 DEF Serves
            <7> QED BY <3>2, <7>2, <7>3
          <6> QED BY <6>1, <6>2
        <5> QED BY <1>7, <3>4, <5>2
      <4> QED BY <4>1, <4>2
    <3>7. Serves(j, t)'
      BY <3>3, <3>5, <3>6 DEF Serves, Current, Scheduled
    <3> QED BY <3>7
  <2> QED BY <2>1, <2>2
<1> QED BY <1>10, <1>11

LEMMA CallbackServes ==
  ASSUME EventInv, NEW i \in Scheduled, Fires(i) \/ Enter(i) \/ RunFn(i) \/ Cleanup(i)
  PROVE  SoleCallback' /\ EventHasCallback'
<1> DEFINE k == KeyOf[subject[i]]
<1>1. DebouncerTypeOK /\ CallsCounted /\ SoleCallback /\ EventHasCallback
  BY DEF EventInv, DebounceInv
<1>2. Live(i) /\ UNCHANGED <<calls, subject, generationOf, shutDown, overlapped>>
  BY DEF Live, Fires, Enter, RunFn, Cleanup
<1>3. \A j \in Scheduled : j # i => state'[j] = state[j]
  BY <1>1 DEF DebouncerTypeOK, Fires, Enter, RunFn, Cleanup
<1>4. subject[i] \in Subjects /\ k \in Keys
  BY <1>1, <1>2 DEF CallsCounted, Live, Keys
<1>5. \/ entry' = [entry EXCEPT ![k] = 0] /\ timer' = [timer EXCEPT ![k] = 0]
      \/ entry' = entry /\ timer' = timer
  BY DEF Fires, Enter, RunFn, Cleanup, Delete
<1>6. /\ Fires(i) => state[i] = "armed" /\ state'[i] = "fired" /\ UNCHANGED <<entry, timer>>
      /\ Enter(i) => \/ state[i] = "fired" /\ Current(i) /\ state'[i] = "run"
                     \/ state[i] = "fired" /\ ~Current(i) /\ state'[i] = "done"
      /\ RunFn(i) => state[i] = "run" /\ state'[i] = "cleanup"
      /\ Cleanup(i) => state[i] = "cleanup" /\ state'[i] = "done"
  BY <1>1 DEF DebouncerTypeOK, Fires, Enter, RunFn, Cleanup
<1> HIDE DEF k
<1>7. \A m \in Keys : m # k => entry'[m] = entry[m] /\ timer'[m] = timer[m]
  BY <1>1, <1>5 DEF DebouncerTypeOK
<1>8. ASSUME NEW j \in Scheduled, Live(j)' PROVE Live(j)
  BY <1>2, <1>3, <1>8 DEF Live
<1>9. ASSUME NEW j \in Scheduled, Live(j), j # i, KeyOf[subject[j]] \notin overlapped
      PROVE  /\ KeyOf[subject[j]] # k
             /\ entry'[KeyOf[subject[j]]] = entry[KeyOf[subject[j]]]
             /\ timer'[KeyOf[subject[j]]] = timer[KeyOf[subject[j]]]
  <2>1. KeyOf[subject[j]] # k
    BY <1>1, <1>2, <1>9 DEF SoleCallback, k
  <2>2. KeyOf[subject[j]] \in Keys
    BY <1>1, <1>9 DEF CallsCounted, Live, Keys
  <2> QED BY <1>7, <2>1, <2>2
<1>10. SoleCallback'
  <2> SUFFICES ASSUME NEW j \in Scheduled, Live(j)', KeyOf[subject'[j]] \notin overlapped'
               PROVE  /\ \A h \in Scheduled : Live(h)' /\ KeyOf[subject'[h]] = KeyOf[subject'[j]] => h = j
                      /\ state'[j] \in {"armed", "fired"}
                           => Current(j)' /\ timer'[KeyOf[subject'[j]]] = j
    BY DEF SoleCallback, Scheduled, Live, Current
  <2>1. Live(j) /\ KeyOf[subject[j]] \notin overlapped
    BY <1>2, <1>8
  <2>2. \A h \in Scheduled : Live(h)' /\ KeyOf[subject'[h]] = KeyOf[subject'[j]] => h = j
    BY <1>1, <1>2, <1>8, <2>1 DEF SoleCallback
  <2>3. ASSUME state'[j] \in {"armed", "fired"}
        PROVE  Current(j)' /\ timer'[KeyOf[subject'[j]]] = j
    <3>1. CASE j = i
      <4>1. Fires(i) /\ state[i] = "armed" /\ UNCHANGED <<entry, timer>>
        BY <1>6, <2>3, <3>1
      <4> QED BY <1>1, <1>2, <2>1, <3>1, <4>1 DEF SoleCallback, Current
    <3>2. CASE j # i
      <4>1. state[j] \in {"armed", "fired"}
        BY <1>3, <2>3, <3>2
      <4>2. Current(j) /\ timer[KeyOf[subject[j]]] = j
        BY <1>1, <2>1, <4>1 DEF SoleCallback
      <4> QED BY <1>2, <1>9, <2>1, <3>2, <4>2 DEF Current
    <3> QED BY <3>1, <3>2
  <2> QED BY <2>2, <2>3
<1>11. EventHasCallback'
  <2> SUFFICES ASSUME OwnKeys, ~shutDown, NEW t \in due', KeyOf[t] \notin overlapped
               PROVE  \E j : Serves(j, t)'
    BY <1>2 DEF EventHasCallback, OwnKeys
  <2>1. t \in due /\ (RunFn(i) => t # subject[i])
    BY DEF Fires, Enter, RunFn, Cleanup
  <2>2. PICK j : Serves(j, t)
    BY <1>1, <2>1 DEF EventHasCallback
  <2>3. j \in Scheduled /\ Live(j) /\ subject[j] = t
    BY <2>2 DEF Serves, Live
  <2>4. CASE j = i
    <3>1. state'[i] = "run" \/ (state'[i] = "fired" /\ UNCHANGED <<entry, timer>> /\ Current(i))
      BY <1>6, <2>1, <2>2, <2>4 DEF Serves
    <3>2. Serves(j, t)'
      BY <1>2, <2>3, <2>4, <3>1 DEF Serves, Current, Scheduled
    <3> QED BY <3>2
  <2>5. CASE j # i
    <3>1. state'[j] = state[j] /\ entry'[KeyOf[t]] = entry[KeyOf[t]]
      BY <1>3, <1>9, <2>3, <2>5
    <3>2. Serves(j, t)'
      BY <1>2, <2>2, <3>1 DEF Serves, Current, Scheduled
    <3> QED BY <3>2
  <2> QED BY <2>4, <2>5
<1> QED BY <1>10, <1>11

LEMMA EventStep ==
  ASSUME MaxCalls \in Nat, EventInv, [DebounceNext]_debounceVars
  PROVE  EventInv'
<1>1. DebounceInv'
  BY DebounceStep DEF EventInv
<1>2. SoleCallback' /\ EventHasCallback'
  <2>1. CASE ShutDown \/ UNCHANGED debounceVars
    <3>1. UNCHANGED <<entry, timer, subject, generationOf, state, due, overlapped>>
          /\ (shutDown => shutDown')
      BY <2>1 DEF ShutDown, debounceVars
    <3>2. SoleCallback'
      BY <3>1 DEF EventInv, SoleCallback, Live, Current, Scheduled
    <3>3. EventHasCallback'
      <4> SUFFICES ASSUME OwnKeys, ~shutDown, NEW t \in due, KeyOf[t] \notin overlapped
                   PROVE  \E j : Serves(j, t)'
        BY <3>1 DEF EventHasCallback, OwnKeys
      <4>1. PICK j : Serves(j, t)
        BY DEF EventInv, EventHasCallback
      <4>2. Serves(j, t)'
        BY <3>1, <4>1 DEF Serves, Current, Scheduled
      <4> QED BY <4>2
    <3> QED BY <3>2, <3>3
  <2>2. ASSUME NEW i \in Scheduled, Fires(i) \/ Enter(i) \/ RunFn(i) \/ Cleanup(i)
        PROVE  SoleCallback' /\ EventHasCallback'
    BY <2>2, CallbackServes
  <2>3. ASSUME NEW s \in Subjects, Schedule(s) PROVE SoleCallback' /\ EventHasCallback'
    BY <2>3, ScheduleServes
  <2> QED BY <2>1, <2>2, <2>3, DebounceSteps
<1> QED BY <1>1, <1>2 DEF EventInv

LEMMA EventInvInit ==
  ASSUME MaxCalls \in Nat, DebounceInit
  PROVE  EventInv
<1>1. DebounceInv
  BY DebounceInvInit
<1>2. SoleCallback
  BY DEF DebounceInit, SoleCallback, Live
<1>3. EventHasCallback
  BY DEF DebounceInit, EventHasCallback
<1> QED BY <1>1, <1>2, <1>3 DEF EventInv

(* However timers and events interleave, an event that no fn has looked at *)
(* always has a callback that will look at it: one that runs, or whose     *)
(* generation is still the entry's; unless it met a callback of its key    *)
(* past its timer or the daemon shuts down (webhook.go 70-113).  With that *)
(* only the timers' firing is left to ActedOnUnlessOverlapped.             *)
THEOREM EventsHaveCallbacks == DebounceSpec => []EventHasCallback
<1>1. EventInv => EventHasCallback
  BY DEF EventInv
<1>2. DebounceInit => EventInv
  BY EventInvInit, CallsAssumption
<1>3. EventInv /\ [DebounceNext]_debounceVars => EventInv'
  BY EventStep, CallsAssumption
<1> QED BY <1>1, <1>2, <1>3, PTL DEF DebounceSpec

(* When no timer is armed and no callback under way, the only events that  *)
(* nothing was done about are those of keys with an overlap: EveryEvent-   *)
(* ActedOn fails for no other reason than the one the findings name.       *)
QuietMeansActedOn ==
  OwnKeys /\ ~shutDown /\ (\A i \in Scheduled : ~Live(i))
    => \A s \in due : KeyOf[s] \in overlapped

(* The debouncer loses an event by an overlap or by shutting down, never   *)
(* otherwise.                                                              *)
THEOREM OnlyOverlapsLoseEvents == DebounceSpec => []QuietMeansActedOn
<1>1. EventInv => QuietMeansActedOn
  BY DEF EventInv, EventHasCallback, QuietMeansActedOn, Serves, Live
<1>2. DebounceInit => EventInv
  BY EventInvInit, CallsAssumption
<1>3. EventInv /\ [DebounceNext]_debounceVars => EventInv'
  BY EventStep, CallsAssumption
<1> QED BY <1>1, <1>2, <1>3, PTL DEF DebounceSpec
==============================================================================
