---------------------------- MODULE CachePruneProofs ----------------------------
(***************************************************************************)
(* One container prunes the shared volume at a time, its passes keep the   *)
(* interval, and a lock directory has a running maker or a killed one, for *)
(* any number of containers and directories, any policy and any faults.    *)
(***************************************************************************)
EXTENDS CachePrune, TLAPS

(* OnePruner is not inductive: what excludes a second container is the     *)
(* lock, so whoever is past mkdir still owns it, unless it was broken.     *)
HolderOwnsLock ==
  ~broken => \A c \in Containers :
               pc[c] \in LockedPcs => lockAge # None /\ lockOwner = c

(* What the argument needs of the types.                                   *)
LockTyped ==
  /\ pc \in [Containers -> Pcs]
  /\ lockAge \in Nat \cup {None}
  /\ broken \in BOOLEAN

LockInv == LockTyped /\ HolderOwnsLock

LEMMA InitLock == Init => LockInv
  BY DEF Init, LockInv, LockTyped, HolderOwnsLock, Pcs, LockedPcs, PassPcs

(* A container that goes to a place where it holds no lock, or stays       *)
(* where it holds one, with the lock left alone.                           *)
LEMMA MoveKeepsLock ==
  ASSUME LockInv, NEW c \in Containers, NEW label \in Pcs,
         Goto(c, label),
         label \in LockedPcs => pc[c] \in LockedPcs,
         UNCHANGED <<lockAge, lockOwner, broken>>
  PROVE  LockInv'
<1>1. LockTyped'
  BY DEF LockInv, LockTyped, Goto
<1>2. HolderOwnsLock'
  <2> SUFFICES ASSUME ~broken, NEW e \in Containers, pc'[e] \in LockedPcs
               PROVE  lockAge # None /\ lockOwner = e
    BY DEF HolderOwnsLock
  <2>1. pc[e] \in LockedPcs
    BY DEF LockInv, LockTyped, Goto
  <2> QED
    BY <2>1 DEF LockInv, HolderOwnsLock
<1> QED
  BY <1>1, <1>2 DEF LockInv

(* Steps that change neither a script's place nor the lock's existence.    *)
LEMMA QuietKeepsLock ==
  ASSUME LockInv, UNCHANGED <<pc, lockOwner, broken>>,
         lockAge' \in Nat \cup {None}, lockAge' = None <=> lockAge = None
  PROVE  LockInv'
  BY DEF LockInv, LockTyped, HolderOwnsLock

LEMMA PlacesNamed == LockedPcs \subseteq Pcs /\ PassPcs \subseteq LockedPcs
  BY DEF Pcs, LockedPcs, PassPcs

LEMMA BreakLockSafe ==
  ASSUME LockInv, NEW c \in Containers, BreakLock(c)
  PROVE  LockInv'
<1>1. LockTyped'
  BY DEF LockInv, LockTyped, BreakLock, Goto, Pcs
<1>2. HolderOwnsLock'
  <2> SUFFICES ASSUME ~broken', NEW e \in Containers, pc'[e] \in LockedPcs
               PROVE  FALSE
    BY DEF HolderOwnsLock
  <2>1. pc[e] \in LockedPcs
    BY DEF LockInv, LockTyped, BreakLock, Goto, LockedPcs, PassPcs
  <2>2. ~broken /\ ~(lockAge # None /\ lockOwner # Dead)
    BY DEF BreakLock, LockInv, LockTyped
  <2>3. lockAge # None /\ lockOwner = e
    BY <2>1, <2>2 DEF LockInv, HolderOwnsLock
  <2> QED
    BY <2>2, <2>3, PolicyAssumption
<1> QED
  BY <1>1, <1>2 DEF LockInv

LEMMA MakeLockSafe ==
  ASSUME LockInv, NEW c \in Containers, MakeLock(c)
  PROVE  LockInv'
<1>1. CASE lockAge # None
  <2>1. Goto(c, "idle") /\ UNCHANGED <<lockAge, lockOwner, broken>>
    BY <1>1 DEF MakeLock
  <2>2. "idle" \in Pcs /\ "idle" \notin LockedPcs
    BY DEF Pcs, LockedPcs, PassPcs
  <2> QED
    BY <2>1, <2>2, MoveKeepsLock
<1>2. CASE lockAge = None
  <2>1. Goto(c, "recheck") /\ lockAge' = 0 /\ lockOwner' = c /\ broken' = broken
    BY <1>2 DEF MakeLock
  <2>2. LockTyped'
    BY <2>1 DEF LockInv, LockTyped, Goto, Pcs, LockedPcs
  <2>3. ASSUME ~broken', NEW e \in Containers, pc'[e] \in LockedPcs
        PROVE  e = c
    BY <1>2, <2>1, <2>3 DEF LockInv, LockTyped, HolderOwnsLock, Goto
  <2> QED
    BY <2>1, <2>2, <2>3 DEF LockInv, HolderOwnsLock, None
<1> QED
  BY <1>1, <1>2

LEMMA ExitTrapSafe ==
  ASSUME LockInv, NEW c \in Containers, ExitTrap(c)
  PROVE  LockInv'
<1>1. LockTyped'
  BY DEF LockInv, LockTyped, ExitTrap, Goto, Pcs, history
<1>2. HolderOwnsLock'
  <2> SUFFICES ASSUME ~broken, NEW e \in Containers, pc'[e] \in LockedPcs
               PROVE  FALSE
    BY DEF HolderOwnsLock, ExitTrap, history
  <2>1. e # c /\ pc[e] \in LockedPcs
    BY DEF LockInv, LockTyped, ExitTrap, Goto, LockedPcs, PassPcs
  <2>2. pc[c] \in LockedPcs
    BY DEF ExitTrap, LockedPcs
  <2> QED
    BY <2>1, <2>2 DEF LockInv, HolderOwnsLock
<1> QED
  BY <1>1, <1>2 DEF LockInv

LEMMA KilledSafe ==
  ASSUME LockInv, NEW c \in Containers, Killed(c)
  PROVE  LockInv'
<1>1. LockTyped'
  BY DEF LockInv, LockTyped, Killed, Goto, Pcs, fileVars
<1>2. HolderOwnsLock'
  <2> SUFFICES ASSUME ~broken, NEW e \in Containers, pc'[e] \in LockedPcs
               PROVE  lockAge' # None /\ lockOwner' = e
    BY DEF HolderOwnsLock, Killed
  <2>1. e # c /\ pc[e] \in LockedPcs
    BY DEF LockInv, LockTyped, Killed, Goto, LockedPcs, PassPcs
  <2>2. lockAge # None /\ lockOwner = e
    BY <2>1 DEF LockInv, HolderOwnsLock
  <2> QED
    BY <2>1, <2>2 DEF Killed, fileVars
<1> QED
  BY <1>1, <1>2 DEF LockInv

(* The remaining steps of a container move it and leave the lock alone.    *)
LEMMA OtherStepsSafe ==
  ASSUME LockInv, NEW c \in Containers,
         \/ Begin(c) \/ CheckStamp(c) \/ TestLock(c) \/ Recheck(c)
         \/ SelectTemp(c) \/ SelectOld(c) \/ RemoveDoomed(c) \/ DeleteEmpty(c)
         \/ TruncateStamp(c) \/ WriteStamp(c) \/ CommandFails(c)
  PROVE  LockInv'
<1>1. UNCHANGED <<lockAge, lockOwner, broken>>
  BY DEF Begin, CheckStamp, TestLock, Recheck, SelectTemp, SelectOld, Collect,
         RemoveDoomed, DeleteEmpty, TruncateStamp, WriteStamp, CommandFails,
         fileVars, history
<1>2. \E label \in Pcs : Goto(c, label) /\ (label \in LockedPcs => pc[c] \in LockedPcs)
  <2>1. CASE Begin(c) \/ CheckStamp(c) \/ TestLock(c)
    BY <2>1 DEF Begin, CheckStamp, TestLock, Pcs, LockedPcs, PassPcs
  <2>2. CASE Recheck(c) \/ SelectTemp(c) \/ SelectOld(c) \/ RemoveDoomed(c)
    BY <2>2 DEF Recheck, SelectTemp, SelectOld, Collect, RemoveDoomed, Pcs,
                LockedPcs, PassPcs
  <2>3. CASE DeleteEmpty(c) \/ TruncateStamp(c) \/ WriteStamp(c) \/ CommandFails(c)
    BY <2>3 DEF DeleteEmpty, TruncateStamp, WriteStamp, CommandFails, Pcs,
                LockedPcs, PassPcs
  <2> QED
    BY <2>1, <2>2, <2>3
<1> QED
  BY <1>1, <1>2, MoveKeepsLock

LEMMA NextLock == LockInv /\ [Next]_vars => LockInv'
<1> SUFFICES ASSUME LockInv, [Next]_vars PROVE LockInv'
  OBVIOUS
<1>1. ASSUME NEW c \in Containers,
             Begin(c) \/ ScriptStep(c) \/ CommandFails(c) \/ Killed(c)
      PROVE  LockInv'
  BY <1>1, OtherStepsSafe, BreakLockSafe, MakeLockSafe, ExitTrapSafe, KilledSafe
     DEF ScriptStep
<1>2. ASSUME NEW d \in Dirs, JobWrites(d)
      PROVE  LockInv'
  <2>1. UNCHANGED <<pc, lockAge, lockOwner, broken>>
    BY <1>2 DEF JobWrites, history
  <2> QED
    BY <2>1, QuietKeepsLock DEF LockInv, LockTyped
<1>3. CASE Tick
  <2>1. UNCHANGED <<pc, lockOwner, broken>> /\ lockAge' = Older(lockAge, LockLimit + 1)
    BY <1>3 DEF Tick
  <2>2. lockAge' \in Nat \cup {None} /\ (lockAge' = None <=> lockAge = None)
    BY <2>1 DEF Older, None, LockInv, LockTyped
  <2> QED
    BY <2>1, <2>2, QuietKeepsLock
<1>4. CASE UNCHANGED vars
  BY <1>4, QuietKeepsLock DEF vars, fileVars, history, LockInv, LockTyped
<1> QED
  BY <1>1, <1>2, <1>3, <1>4 DEF Next

(* One container prunes at a time, as long as no running container loses   *)
(* its lock to another's rmdir, whether its lock was old or was made in    *)
(* place of the old one tested: through failing commands, killed           *)
(* containers, the locks they leave and the removal of these               *)
(* (cache.go 134-159).                                                     *)
THEOREM OneContainerPrunes == Spec => []OnePruner
<1>1. LockInv => OnePruner
  BY PlacesNamed DEF LockInv, HolderOwnsLock, OnePruner
<1> QED
  BY <1>1, InitLock, NextLock, PTL DEF Spec

(***************************************************************************)
(* The interval                                                            *)
(***************************************************************************)
NotRecent == passAge = None \/ passAge >= Interval

(* A finished pass is in the stamp for as long as it matters, and nobody   *)
(* is within a pass meanwhile, who would empty the stamp or overwrite it.  *)
StampRemembers ==
  ~broken => /\ NotRecent \/ stampAge = passAge
             /\ \A c \in Containers : pc[c] \in PassPcs => NotRecent

AgesTyped ==
  /\ passAge \in Nat \cup {None}
  /\ stampAge \in Nat \cup {None}
  /\ nowAge \in [Containers -> Nat]

SpacedInv == LockInv /\ AgesTyped /\ StampRemembers

LEMMA InitSpaced == Init => SpacedInv
  BY InitLock DEF Init, SpacedInv, AgesTyped, StampRemembers, NotRecent

(* A step that leaves the times alone and lets nobody into a pass.         *)
LEMMA StillSpaced ==
  ASSUME SpacedInv, LockInv', AgesTyped', UNCHANGED <<stampAge, passAge>>,
         broken => broken',
         \A c \in Containers : pc'[c] \in PassPcs => pc[c] \in PassPcs
  PROVE  SpacedInv'
  BY DEF SpacedInv, StampRemembers, NotRecent, LockInv, LockTyped

LEMMA RecheckSpaced ==
  ASSUME SpacedInv, LockInv', NEW c \in Containers, Recheck(c)
  PROVE  /\ SpacedInv'
         /\ pc'[c] \in PassPcs /\ ~broken => NotRecent
<1>1. AgesTyped'
  BY DEF SpacedInv, AgesTyped, Recheck, fileVars, history
<1>2. pc'[c] \in PassPcs /\ ~broken => NotRecent
  BY PolicyAssumption
     DEF SpacedInv, AgesTyped, StampRemembers, NotRecent, Recheck, Throttled, Goto,
         LockInv, LockTyped, PassPcs, None
<1>3. \A e \in Containers : pc'[e] \in PassPcs => e = c \/ pc[e] \in PassPcs
  BY DEF Recheck, Goto, SpacedInv, LockInv, LockTyped
<1>4. UNCHANGED <<stampAge, passAge, broken>>
  BY DEF Recheck, fileVars, history
<1>5. StampRemembers'
  BY <1>2, <1>3, <1>4 DEF SpacedInv, StampRemembers, NotRecent
<1> QED
  BY <1>1, <1>2, <1>5 DEF SpacedInv

LEMMA TruncateSpaced ==
  ASSUME SpacedInv, LockInv', NEW c \in Containers, TruncateStamp(c)
  PROVE  SpacedInv'
<1>1. AgesTyped'
  BY DEF SpacedInv, AgesTyped, TruncateStamp, history
<1>2. UNCHANGED <<passAge, broken>> /\ pc[c] \in PassPcs
  BY DEF TruncateStamp, history, PassPcs
<1>3. \A e \in Containers : pc'[e] \in PassPcs => pc[e] \in PassPcs
  BY <1>2 DEF TruncateStamp, Goto, SpacedInv, LockInv, LockTyped
<1> QED
  BY <1>1, <1>2, <1>3 DEF SpacedInv, StampRemembers, NotRecent

LEMMA WriteSpaced ==
  ASSUME SpacedInv, LockInv', NEW c \in Containers, WriteStamp(c)
  PROVE  SpacedInv'
<1>1. AgesTyped'
  BY DEF SpacedInv, AgesTyped, WriteStamp
<1>2. broken' = broken /\ pc[c] \in PassPcs /\ "exit" \notin PassPcs
  BY DEF WriteStamp, PassPcs
<1>3. ~broken => \A e \in Containers : pc'[e] \notin PassPcs
  BY <1>2, PlacesNamed
     DEF WriteStamp, Goto, SpacedInv, LockInv, LockTyped, HolderOwnsLock
<1>4. ~broken => NotRecent' \/ stampAge' = passAge'
  BY <1>2, PolicyAssumption
     DEF WriteStamp, SpacedInv, AgesTyped, StampRemembers, NotRecent, None
<1> QED
  BY <1>1, <1>2, <1>3, <1>4 DEF SpacedInv, StampRemembers

LEMMA TickSpaced ==
  ASSUME SpacedInv, LockInv', Tick
  PROVE  SpacedInv'
<1>1. \A age \in Nat \cup {None} :
        /\ Older(age, Interval) \in Nat \cup {None}
        /\ age # None => Older(age, Interval) >= age
        /\ Older(age, Interval) = None <=> age = None
  BY PolicyAssumption DEF Older, None
<1>2. \A age \in Nat : Older(age, Interval) \in Nat
  BY PolicyAssumption DEF Older, None
<1>3. AgesTyped'
  BY <1>1, <1>2 DEF Tick, SpacedInv, AgesTyped
<1>4. UNCHANGED <<pc, broken>> /\ stampAge' = Older(stampAge, Interval)
        /\ passAge' = Older(passAge, Interval)
  BY DEF Tick
<1>5. NotRecent => NotRecent'
  BY <1>1, <1>4, PolicyAssumption DEF NotRecent, SpacedInv, AgesTyped, None
<1>6. stampAge = passAge => stampAge' = passAge'
  BY <1>4
<1> QED
  BY <1>3, <1>4, <1>5, <1>6 DEF SpacedInv, StampRemembers

LEMMA OthersSpaced ==
  ASSUME SpacedInv, LockInv', NEW c \in Containers,
         \/ Begin(c) \/ CheckStamp(c) \/ TestLock(c) \/ BreakLock(c) \/ MakeLock(c)
         \/ SelectTemp(c) \/ SelectOld(c) \/ RemoveDoomed(c) \/ DeleteEmpty(c)
         \/ ExitTrap(c) \/ CommandFails(c) \/ Killed(c)
  PROVE  SpacedInv'
<1>1. UNCHANGED <<stampAge, passAge>>
  BY DEF Begin, CheckStamp, TestLock, BreakLock, MakeLock, SelectTemp, SelectOld,
         Collect, RemoveDoomed, DeleteEmpty, ExitTrap, CommandFails, Killed,
         fileVars, history
<1>2. broken => broken'
  <2>1. CASE BreakLock(c)
    BY <2>1, Zenon DEF BreakLock
  <2>2. CASE ~BreakLock(c)
    BY <2>2 DEF Begin, CheckStamp, TestLock, MakeLock, SelectTemp, SelectOld,
         Collect, RemoveDoomed, DeleteEmpty, ExitTrap, CommandFails, Killed, history
  <2> QED
    BY <2>1, <2>2
<1>3. AgesTyped'
  BY <1>1 DEF SpacedInv, AgesTyped, Begin, CheckStamp, TestLock, BreakLock, MakeLock,
         SelectTemp, SelectOld, Collect, RemoveDoomed, DeleteEmpty, ExitTrap,
         CommandFails, Killed
<1>4. \E label : Goto(c, label) /\ (label \in PassPcs => pc[c] \in PassPcs)
  <2>1. CASE Begin(c) \/ CheckStamp(c) \/ TestLock(c) \/ BreakLock(c) \/ MakeLock(c)
    BY <2>1 DEF Begin, CheckStamp, TestLock, BreakLock, MakeLock, PassPcs
  <2>2. CASE SelectTemp(c) \/ SelectOld(c) \/ RemoveDoomed(c) \/ DeleteEmpty(c)
    BY <2>2 DEF SelectTemp, SelectOld, Collect, RemoveDoomed, DeleteEmpty, PassPcs
  <2>3. CASE ExitTrap(c) \/ CommandFails(c) \/ Killed(c)
    BY <2>3 DEF ExitTrap, CommandFails, Killed, PassPcs
  <2> QED
    BY <2>1, <2>2, <2>3
<1>5. \A e \in Containers : pc'[e] \in PassPcs => pc[e] \in PassPcs
  BY <1>4 DEF Goto, SpacedInv, LockInv, LockTyped
<1> QED
  BY <1>1, <1>2, <1>3, <1>5, StillSpaced

LEMMA NextSpaced == SpacedInv /\ [Next]_vars => SpacedInv'
<1> SUFFICES ASSUME SpacedInv, [Next]_vars PROVE SpacedInv'
  OBVIOUS
<1>0. LockInv'
  BY NextLock DEF SpacedInv
<1>1. ASSUME NEW c \in Containers,
             Begin(c) \/ ScriptStep(c) \/ CommandFails(c) \/ Killed(c)
      PROVE  SpacedInv'
  BY <1>0, <1>1, OthersSpaced, RecheckSpaced, TruncateSpaced, WriteSpaced DEF ScriptStep
<1>2. ASSUME NEW d \in Dirs, JobWrites(d)
      PROVE  SpacedInv'
  BY <1>0, <1>2, StillSpaced DEF JobWrites, history, SpacedInv, AgesTyped
<1>3. CASE Tick
  BY <1>0, <1>3, TickSpaced
<1>4. CASE UNCHANGED vars
  BY <1>0, <1>4, StillSpaced DEF vars, fileVars, history, SpacedInv, AgesTyped
<1> QED
  BY <1>1, <1>2, <1>3, <1>4 DEF Next

(* A container leaves "recheck" for a pass by Recheck alone.               *)
LEMMA PassBegins ==
  ASSUME SpacedInv, [Next]_vars, NEW c \in Containers,
         pc[c] = "recheck", pc'[c] \in PassPcs
  PROVE  Recheck(c)
<1>1. ASSUME NEW e \in Containers,
             Begin(e) \/ ScriptStep(e) \/ CommandFails(e) \/ Killed(e)
      PROVE  e = c
  <2>1. \E label : Goto(e, label)
    BY <1>1 DEF ScriptStep, Begin, CheckStamp, TestLock, BreakLock, MakeLock, Recheck,
         SelectTemp, SelectOld, Collect, RemoveDoomed, DeleteEmpty, TruncateStamp,
         WriteStamp, ExitTrap, CommandFails, Killed
  <2>2. "recheck" \notin PassPcs
    BY DEF PassPcs
  <2> QED
    BY <2>1, <2>2 DEF Goto, SpacedInv, LockInv, LockTyped
<1>2. "recheck" \notin PassPcs /\ "idle" \notin PassPcs
  BY DEF PassPcs
<1>3. pc'[c] # pc[c]
  BY <1>2
<1>4. Begin(c) \/ ScriptStep(c) \/ CommandFails(c) \/ Killed(c)
  BY <1>1, <1>3 DEF Next, JobWrites, Tick, vars
<1>5. ~Killed(c) /\ ~CommandFails(c)
  BY <1>2 DEF Killed, CommandFails, Goto, SpacedInv, LockInv, LockTyped
<1> QED
  BY <1>4, <1>5 DEF ScriptStep, Begin, CheckStamp, TestLock, BreakLock, MakeLock,
     SelectTemp, SelectOld, Collect, RemoveDoomed, DeleteEmpty, TruncateStamp,
     WriteStamp, ExitTrap

(* A pass begins no sooner than the interval after the start of any pass   *)
(* that finished, as long as no running container loses its lock to        *)
(* another's rmdir, whether its lock was old or was made in place of the   *)
(* old one tested: though the stamp is first read without the lock, is     *)
(* empty while it is rewritten and stays so when the container is killed   *)
(* then (cache.go 134-159).                                                *)
THEOREM PassesKeepInterval == Spec => PassesSpaced
<1>1. SpacedInv /\ [Next]_vars =>
        [\A c \in Containers :
           pc[c] = "recheck" /\ pc'[c] \in PassPcs /\ ~broken
             => passAge = None \/ passAge >= Interval]_vars
  BY PassBegins, RecheckSpaced, NextLock DEF NotRecent, SpacedInv
<1> QED
  BY <1>1, InitSpaced, NextSpaced, PTL DEF Spec, PassesSpaced

(***************************************************************************)
(* Abandoned locks                                                         *)
(***************************************************************************)

(* A lock directory is there only while its maker's script is still before *)
(* its end, or because its maker was killed.                               *)
LockHasMaker ==
  lockAge # None =>
    lockOwner = Dead \/ (lockOwner \in Containers /\ pc[lockOwner] \in LockedPcs)

(* The lock of a killed container only ages until it is removed.           *)
AbandonedLockAges ==
  [][lockAge # None /\ lockOwner = Dead /\ lockAge' # None
       => lockOwner' = Dead /\ lockAge <= lockAge']_vars

MakerInv == LockTyped /\ LockHasMaker

LEMMA InitMaker == Init => MakerInv
  BY InitLock DEF Init, MakerInv, LockInv, LockHasMaker

(* A container that moves and leaves the lock alone: past mkdir it goes no *)
(* further than its trap.                                                  *)
LEMMA MoveKeepsMaker ==
  ASSUME MakerInv, LockTyped', NEW c \in Containers, NEW label,
         Goto(c, label),
         pc[c] \in LockedPcs => label \in LockedPcs,
         UNCHANGED <<lockAge, lockOwner>>
  PROVE  MakerInv'
<1>1. \A e \in Containers : pc[e] \in LockedPcs => pc'[e] \in LockedPcs
  BY DEF MakerInv, LockTyped, Goto
<1> QED
  BY <1>1 DEF MakerInv, LockHasMaker

LEMMA StepKeepsMaker ==
  ASSUME MakerInv, NEW c \in Containers,
         Begin(c) \/ ScriptStep(c) \/ CommandFails(c) \/ Killed(c)
  PROVE  MakerInv'
<1> USE DEF fileVars, history
<1>1. ASSUME LockTyped', lockAge' = None PROVE MakerInv'
  BY <1>1 DEF MakerInv, LockHasMaker
<1>2. \E label \in Pcs : Goto(c, label)
  BY DEF ScriptStep, Begin, CheckStamp, TestLock, BreakLock, MakeLock, Recheck,
         SelectTemp, SelectOld, Collect, RemoveDoomed, DeleteEmpty, TruncateStamp,
         WriteStamp, ExitTrap, CommandFails, Killed, Pcs, LockedPcs, PassPcs
<1>3. lockAge' \in Nat \cup {None}
  BY DEF ScriptStep, Begin, CheckStamp, TestLock, BreakLock, MakeLock, Recheck,
         SelectTemp, SelectOld, Collect, RemoveDoomed, DeleteEmpty, TruncateStamp,
         WriteStamp, ExitTrap, CommandFails, Killed, MakerInv, LockTyped
<1>4. broken' \in BOOLEAN
  <2>1. CASE BreakLock(c)
    BY <2>1 DEF BreakLock
  <2>2. CASE ~BreakLock(c)
    BY <2>2 DEF ScriptStep, Begin, CheckStamp, TestLock, MakeLock, Recheck,
         SelectTemp, SelectOld, Collect, RemoveDoomed, DeleteEmpty, TruncateStamp,
         WriteStamp, ExitTrap, CommandFails, Killed, MakerInv, LockTyped
  <2> QED
    BY <2>1, <2>2
<1>5. LockTyped'
  BY <1>2, <1>3, <1>4 DEF LockTyped, MakerInv, Goto
<1>6. CASE BreakLock(c) \/ ExitTrap(c)
  BY <1>1, <1>5, <1>6 DEF BreakLock, ExitTrap
<1>7. CASE MakeLock(c)
  <2>1. CASE lockAge = None
    BY <1>5, <1>7, <2>1 DEF MakeLock, Goto, MakerInv, LockTyped, LockHasMaker, LockedPcs
  <2>2. CASE lockAge # None
    <3>1. pc[c] \notin LockedPcs
      BY <1>7 DEF MakeLock, LockedPcs, PassPcs
    <3> QED
      BY <1>5, <1>7, <2>2, <3>1, MoveKeepsMaker DEF MakeLock
  <2> QED
    BY <2>1, <2>2
<1>8. CASE Killed(c)
  <2>1. /\ Goto(c, "idle") /\ lockAge' = lockAge
        /\ lockOwner' = IF pc[c] \in LockedPcs /\ lockOwner = c THEN Dead ELSE lockOwner
    BY <1>8 DEF Killed
  <2>2. CASE lockOwner = c
    BY <1>5, <2>1, <2>2, PolicyAssumption DEF MakerInv, LockHasMaker
  <2>3. CASE lockOwner # c
    BY <1>5, <2>1, <2>3 DEF MakerInv, LockTyped, LockHasMaker, Goto
  <2> QED
    BY <2>2, <2>3
<1>9. CASE Begin(c) \/ CheckStamp(c) \/ TestLock(c)
  <2>1. UNCHANGED <<lockAge, lockOwner>> /\ pc[c] \notin LockedPcs
    BY <1>9 DEF Begin, CheckStamp, TestLock, LockedPcs, PassPcs
  <2> QED
    BY <1>2, <1>5, <2>1, MoveKeepsMaker
<1>10. CASE \/ Recheck(c) \/ SelectTemp(c) \/ SelectOld(c) \/ RemoveDoomed(c)
            \/ DeleteEmpty(c) \/ TruncateStamp(c) \/ WriteStamp(c) \/ CommandFails(c)
  <2>1. UNCHANGED <<lockAge, lockOwner>>
    BY <1>10 DEF Recheck, SelectTemp, SelectOld, Collect, RemoveDoomed, DeleteEmpty,
         TruncateStamp, WriteStamp, CommandFails
  <2>2. \E label \in LockedPcs : Goto(c, label)
    BY <1>10 DEF Recheck, SelectTemp, SelectOld, Collect, RemoveDoomed, DeleteEmpty,
         TruncateStamp, WriteStamp, CommandFails, LockedPcs, PassPcs
  <2> QED
    BY <1>5, <2>1, <2>2, MoveKeepsMaker
<1> QED
  BY <1>6, <1>7, <1>8, <1>9, <1>10 DEF ScriptStep

LEMMA NextMaker == MakerInv /\ [Next]_vars => MakerInv'
<1> SUFFICES ASSUME MakerInv, [Next]_vars PROVE MakerInv'
  OBVIOUS
<1>1. ASSUME NEW d \in Dirs, JobWrites(d)
      PROVE  MakerInv'
  BY <1>1 DEF JobWrites, history, MakerInv, LockTyped, LockHasMaker
<1>2. CASE Tick
  <2>1. UNCHANGED <<pc, lockOwner, broken>> /\ lockAge' = Older(lockAge, LockLimit + 1)
    BY <1>2 DEF Tick
  <2>2. lockAge' \in Nat \cup {None} /\ (lockAge' = None <=> lockAge = None)
    BY <2>1 DEF Older, None, MakerInv, LockTyped
  <2> QED
    BY <2>1, <2>2 DEF MakerInv, LockTyped, LockHasMaker
<1>3. CASE UNCHANGED vars
  BY <1>3 DEF vars, fileVars, history, MakerInv, LockTyped, LockHasMaker
<1> QED
  BY <1>1, <1>2, <1>3, StepKeepsMaker DEF Next

LEMMA LockAges ==
  ASSUME MakerInv, [Next]_vars, lockAge # None, lockOwner = Dead, lockAge' # None
  PROVE  lockOwner' = Dead /\ lockAge <= lockAge'
<1> USE DEF fileVars, history
<1>0. lockAge \in Nat
  BY DEF MakerInv, LockTyped
<1>1. ASSUME NEW c \in Containers,
             Begin(c) \/ ScriptStep(c) \/ CommandFails(c) \/ Killed(c)
      PROVE  lockOwner' = Dead /\ lockAge' = lockAge
  BY <1>1 DEF ScriptStep, Begin, CheckStamp, TestLock, BreakLock, MakeLock, Recheck,
         SelectTemp, SelectOld, Collect, RemoveDoomed, DeleteEmpty, TruncateStamp,
         WriteStamp, ExitTrap, CommandFails, Killed
<1>2. CASE Tick
  <2>1. lockOwner' = lockOwner /\ lockAge' = Older(lockAge, LockLimit + 1)
    BY <1>2 DEF Tick
  <2> QED
    BY <1>0, <2>1 DEF Older
<1>3. CASE (\E d \in Dirs : JobWrites(d)) \/ UNCHANGED vars
  BY <1>0, <1>3 DEF JobWrites, vars
<1> QED
  BY <1>0, <1>1, <1>2, <1>3 DEF Next

(* A lock directory never outlives its maker's script unless the maker was *)
(* killed, and then nothing renews it until the age test removes it: also  *)
(* after a running container lost its lock and its trap removed another's  *)
(* (cache.go 139-141).                                                     *)
THEOREM OnlyKilledAbandonLocks == Spec => []LockHasMaker /\ AbandonedLockAges
<1> DEFINE Ages == lockAge # None /\ lockOwner = Dead /\ lockAge' # None
                     => lockOwner' = Dead /\ lockAge <= lockAge'
<1>1. MakerInv /\ [Next]_vars => [Ages]_vars
  BY LockAges
<1>2. MakerInv => LockHasMaker
  BY DEF MakerInv
<1>3. [][Ages]_vars <=> AbandonedLockAges
  BY DEF AbandonedLockAges
<1> HIDE DEF Ages
<1> QED
  BY <1>1, <1>2, <1>3, InitMaker, NextMaker, PTL DEF Spec
================================================================================
