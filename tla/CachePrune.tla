------------------------------ MODULE CachePrune ------------------------------
(***************************************************************************)
(* Pruning of the shared cache volume: the shell script PruneCache runs in *)
(* every container that starts with the volume attached                    *)
(* (provider/lxd/cache.go).  Containers run it at the same time on one     *)
(* file system.  A stamp file throttles them, a lock directory excludes    *)
(* them, and a lock left by a container that died is removed by age, by a  *)
(* test and then an rmdir, which takes whatever lock is there by then.     *)
(* Jobs create and fill cache directories meanwhile.                       *)
(*                                                                         *)
(* Times are ages in ticks of a second, capped where they no longer        *)
(* matter.  A container that was killed is replaced by one of its name.    *)
(* The volume is attached and the symlinks are set up: if either fails,    *)
(* the container does not prune the volume.  The pruned paths are taken    *)
(* together, as one.                                                       *)
(***************************************************************************)
EXTENDS Integers

CONSTANTS
  Containers,      \* containers that may prune at the same time
  Dirs,            \* cache directories, three levels under a pruned path
  TempDirs,        \* the ones named *-next
  Interval,        \* policy.Interval
  MaxAge,          \* policy.MaxAge
  TempMaxAge,      \* policy.TempMaxAge
  TicksPerMinute,
  MaxFaults,       \* bound: failing commands and killed containers
  MaxJobSteps      \* bound: directories created or filled by jobs

None == -1
Dead == "dead"

ASSUME PolicyAssumption ==
  /\ Dead \notin Containers
  /\ TempDirs \subseteq Dirs
  /\ Interval \in Nat \ {0} /\ MaxAge \in Nat \ {0} /\ TempMaxAge \in Nat \ {0}
  /\ TicksPerMinute \in Nat \ {0}
  /\ MaxFaults \in Nat /\ MaxJobSteps \in Nat

VARIABLES
  pc,        \* where each container's script is
  nowAge,    \* age of the script's $now
  doomed,    \* directories find has collected for rm
  stampAge,  \* age of the time in the stamp file, None if it holds none
  lockAge,   \* age of the lock directory, None if there is none
  dirAge,    \* age of each cache directory, None if there is none
  isEmpty,   \* the empty ones
  faults,    \* faults so far
  jobSteps,  \* job steps so far
  lockOwner, \* history: who made the lock; Dead once it was killed
  passAge,   \* history: age of the latest $now of a finished pass, or None
  broken     \* history: a running container lost its lock to another's rmdir

fileVars == <<stampAge, lockAge, dirAge, isEmpty>>
history == <<lockOwner, passAge, broken>>
vars == <<pc, nowAge, doomed, fileVars, faults, jobSteps, history>>

(* minutes: whole minutes, at least one, here in ticks; find -mmin +n      *)
(* selects what is older.                                                  *)
Minutes(ticks) ==
  TicksPerMinute * (IF ticks \div TicksPerMinute < 1 THEN 1 ELSE ticks \div TicksPerMinute)

LockLimit == Minutes(Interval)
OldLimit == Minutes(MaxAge)
TempLimit == Minutes(TempMaxAge)

(* Past this, a directory's age no longer matters.                         *)
DirCap == 1 + IF OldLimit < TempLimit THEN TempLimit ELSE OldLimit

(* The script between making the lock and leaving, and its pruning part.   *)
PassPcs == {"selectTemp", "removeTemp", "selectOld", "removeOld", "empty",
            "truncate", "write"}
LockedPcs == {"recheck", "exit"} \cup PassPcs
Pcs == {"idle", "check", "lock", "break", "mkdir"} \cup LockedPcs

UpTo(limit) == 0 .. limit \cup {None}

TypeOK ==
  /\ pc \in [Containers -> Pcs]
  /\ nowAge \in [Containers -> 0 .. Interval]
  /\ doomed \in [Containers -> SUBSET Dirs]
  /\ stampAge \in UpTo(Interval)
  /\ lockAge \in UpTo(LockLimit + 1)
  /\ dirAge \in [Dirs -> UpTo(DirCap)]
  /\ isEmpty \in SUBSET Dirs
  /\ faults \in 0 .. MaxFaults
  /\ jobSteps \in 0 .. MaxJobSteps
  /\ lockOwner \in Containers \cup {Dead}
  /\ passAge \in UpTo(Interval)
  /\ broken \in BOOLEAN

Init ==
  /\ pc = [c \in Containers |-> "idle"]
  /\ nowAge = [c \in Containers |-> 0]
  /\ doomed = [c \in Containers |-> {}]
  /\ stampAge = None
  /\ lockAge = None
  /\ dirAge = [d \in Dirs |-> None]
  /\ isEmpty = {}
  /\ faults = 0
  /\ jobSteps = 0
  /\ lockOwner = Dead
  /\ passAge = None
  /\ broken = FALSE

CanFail == faults < MaxFaults /\ faults' = faults + 1

Goto(c, label) == pc' = [pc EXCEPT ![c] = label]

(***************************************************************************)
(* cachePruneScript                                                        *)
(***************************************************************************)

(* PruneCache starts the script in a new container.                        *)
Begin(c) ==
  /\ pc[c] = "idle"
  /\ Goto(c, "check")
  /\ UNCHANGED <<nowAge, doomed, fileVars, faults, jobSteps, history>>

(* The stamp holds a time less than the interval ago.  A missing, empty or *)
(* unreadable stamp counts as none.                                        *)
Throttled == stampAge # None /\ stampAge < Interval

(* The first look at the stamp, before the lock.                           *)
CheckStamp(c) ==
  /\ pc[c] = "check"
  /\ Goto(c, IF Throttled THEN "idle" ELSE "lock")
  /\ UNCHANGED <<nowAge, doomed, fileVars, faults, jobSteps, history>>

(* Mutant: a lock never goes stale.                                        *)
TestLockNeverStale(c) ==
  /\ pc[c] = "lock"
  /\ Goto(c, "mkdir")
  /\ UNCHANGED <<nowAge, doomed, fileVars, faults, jobSteps, history>>

(* find's test of the lock's age, and then its rmdir, of a lock that may   *)
(* have been made in the meantime.                                         *)
TestLock(c) ==
  /\ pc[c] = "lock"
  /\ Goto(c, IF lockAge > LockLimit THEN "break" ELSE "mkdir")
  /\ UNCHANGED <<nowAge, doomed, fileVars, faults, jobSteps, history>>

BreakLock(c) ==
  /\ pc[c] = "break"
  /\ Goto(c, "mkdir")
  /\ lockAge' = None
  /\ broken' = (broken \/ (lockAge # None /\ lockOwner # Dead))
  /\ UNCHANGED <<nowAge, doomed, stampAge, dirAge, isEmpty, faults, jobSteps,
                 lockOwner, passAge>>

(* Mutant: the trap is set before the mkdir, for its loser too.            *)
MakeLockTrapFirst(c) ==
  /\ pc[c] = "mkdir"
  /\ \/ /\ lockAge # None
        /\ Goto(c, "exit")
        /\ UNCHANGED <<lockAge, lockOwner>>
     \/ /\ lockAge = None
        /\ Goto(c, "recheck")
        /\ lockAge' = 0
        /\ lockOwner' = c
  /\ UNCHANGED <<nowAge, doomed, stampAge, dirAge, isEmpty, faults, jobSteps,
                 passAge, broken>>

(* mkdir: whoever finds a lock leaves, and leaves the lock alone, for the  *)
(* trap is only set after.                                                 *)
MakeLock(c) ==
  /\ pc[c] = "mkdir"
  /\ \/ /\ lockAge # None
        /\ Goto(c, "idle")
        /\ UNCHANGED <<lockAge, lockOwner>>
     \/ /\ lockAge = None
        /\ Goto(c, "recheck")
        /\ lockAge' = 0
        /\ lockOwner' = c
  /\ UNCHANGED <<nowAge, doomed, stampAge, dirAge, isEmpty, faults, jobSteps,
                 passAge, broken>>

(* Mutant: the stamp read before the lock is good enough.                  *)
RecheckTrusting(c) ==
  /\ pc[c] = "recheck"
  /\ nowAge' = [nowAge EXCEPT ![c] = 0]
  /\ Goto(c, "selectTemp")
  /\ UNCHANGED <<doomed, fileVars, faults, jobSteps, history>>

(* The second look at the clock and the stamp, under the lock.             *)
Recheck(c) ==
  /\ pc[c] = "recheck"
  /\ nowAge' = [nowAge EXCEPT ![c] = 0]
  /\ Goto(c, IF Throttled THEN "exit" ELSE "selectTemp")
  /\ UNCHANGED <<doomed, fileVars, faults, jobSteps, history>>

(* A find collects directories for one rm at its end.                      *)
Collect(c, from, ds, to) ==
  /\ pc[c] = from
  /\ doomed' = [doomed EXCEPT ![c] = ds]
  /\ Goto(c, to)
  /\ UNCHANGED <<nowAge, fileVars, faults, jobSteps, history>>

RemoveDirs(ds) ==
  /\ dirAge' = [d \in Dirs |-> IF d \in ds THEN None ELSE dirAge[d]]
  /\ isEmpty' = isEmpty \ ds

(* Abandoned exports, then stale directories of any name.                  *)
SelectTemp(c) ==
  Collect(c, "selectTemp", {d \in TempDirs : dirAge[d] > TempLimit}, "removeTemp")

SelectOld(c) ==
  Collect(c, "selectOld", {d \in Dirs : dirAge[d] > OldLimit}, "removeOld")

RemoveDoomed(c) ==
  /\ pc[c] \in {"removeTemp", "removeOld"}
  /\ RemoveDirs(doomed[c])
  /\ doomed' = [doomed EXCEPT ![c] = {}]
  /\ Goto(c, IF pc[c] = "removeTemp" THEN "selectOld" ELSE "empty")
  /\ UNCHANGED <<nowAge, stampAge, lockAge, faults, jobSteps, history>>

(* find -empty -delete, whatever the age.                                  *)
DeleteEmpty(c) ==
  /\ pc[c] = "empty"
  /\ RemoveDirs(isEmpty)
  /\ Goto(c, "truncate")
  /\ UNCHANGED <<nowAge, doomed, stampAge, lockAge, faults, jobSteps, history>>

(* printf > "$stamp": the file is empty before it has the time.            *)
TruncateStamp(c) ==
  /\ pc[c] = "truncate"
  /\ stampAge' = None
  /\ Goto(c, "write")
  /\ UNCHANGED <<nowAge, doomed, lockAge, dirAge, isEmpty, faults, jobSteps, history>>

WriteStamp(c) ==
  /\ pc[c] = "write"
  /\ stampAge' = nowAge[c]
  /\ passAge' = IF passAge = None \/ nowAge[c] < passAge THEN nowAge[c] ELSE passAge
  /\ Goto(c, "exit")
  /\ UNCHANGED <<nowAge, doomed, lockAge, dirAge, isEmpty, faults, jobSteps,
                 lockOwner, broken>>

(* The trap removes the lock directory, whoever made it.                   *)
ExitTrap(c) ==
  /\ pc[c] = "exit"
  /\ lockAge' = None
  /\ nowAge' = [nowAge EXCEPT ![c] = 0]
  /\ doomed' = [doomed EXCEPT ![c] = {}]
  /\ Goto(c, "idle")
  /\ UNCHANGED <<stampAge, dirAge, isEmpty, faults, jobSteps, history>>

(* set -e: a failing find or write ends the script, by way of the trap.    *)
CommandFails(c) ==
  /\ pc[c] \in PassPcs
  /\ CanFail
  /\ Goto(c, "exit")
  /\ UNCHANGED <<nowAge, doomed, fileVars, jobSteps, history>>

(***************************************************************************)
(* Environment                                                             *)
(***************************************************************************)

(* The container is stopped by force: no trap runs.                        *)
Killed(c) ==
  /\ pc[c] # "idle"
  /\ CanFail
  /\ Goto(c, "idle")
  /\ nowAge' = [nowAge EXCEPT ![c] = 0]
  /\ doomed' = [doomed EXCEPT ![c] = {}]
  /\ lockOwner' = IF pc[c] \in LockedPcs /\ lockOwner = c THEN Dead ELSE lockOwner
  /\ UNCHANGED <<fileVars, jobSteps, passAge, broken>>

(* A job creates a cache directory, or puts something in one.              *)
JobWrites(d) ==
  /\ jobSteps < MaxJobSteps
  /\ jobSteps' = jobSteps + 1
  /\ dirAge' = [dirAge EXCEPT ![d] = 0]
  /\ isEmpty' = IF dirAge[d] = None THEN isEmpty \cup {d} ELSE isEmpty \ {d}
  /\ UNCHANGED <<pc, nowAge, doomed, stampAge, lockAge, faults, history>>

Older(age, limit) == IF age = None \/ age >= limit THEN age ELSE age + 1

Tick ==
  /\ nowAge' = [c \in Containers |->
                  IF pc[c] \in PassPcs THEN Older(nowAge[c], Interval) ELSE nowAge[c]]
  /\ stampAge' = Older(stampAge, Interval)
  /\ lockAge' = Older(lockAge, LockLimit + 1)
  /\ dirAge' = [d \in Dirs |-> Older(dirAge[d], DirCap)]
  /\ passAge' = Older(passAge, Interval)
  /\ UNCHANGED <<pc, doomed, isEmpty, faults, jobSteps, lockOwner, broken>>

ScriptStep(c) ==
  \/ CheckStamp(c) \/ TestLock(c) \/ BreakLock(c) \/ MakeLock(c) \/ Recheck(c)
  \/ SelectTemp(c) \/ SelectOld(c) \/ RemoveDoomed(c) \/ DeleteEmpty(c)
  \/ TruncateStamp(c) \/ WriteStamp(c) \/ ExitTrap(c)

Next ==
  \/ \E c \in Containers : Begin(c) \/ ScriptStep(c) \/ CommandFails(c) \/ Killed(c)
  \/ \E d \in Dirs : JobWrites(d)
  \/ Tick

Spec == Init /\ [][Next]_vars

(* Scripts run on, runners keep being started, time passes.                *)
FairSpec ==
  /\ Spec
  /\ \A c \in Containers : WF_vars(Begin(c)) /\ WF_vars(ScriptStep(c))
  /\ WF_vars(Tick)

(***************************************************************************)
(* Properties                                                              *)
(***************************************************************************)

(* One container prunes at a time, also after a killed container's lock    *)
(* was removed by age.  It is said only until a running container loses    *)
(* its lock to another's rmdir: because its pass took longer than the      *)
(* interval, or because it made its lock between another's test of an old  *)
(* one and the rmdir (cache.go 139-141).                                   *)
OnePruner ==
  ~broken => \A c, e \in Containers :
               pc[c] \in PassPcs /\ pc[e] \in PassPcs => c = e

(* README.md:494: interval is the "minimum time between real prune         *)
(* passes".  A pass begins no sooner than that after the start of any pass *)
(* that finished, though the stamp was read before the lock was taken and  *)
(* is empty for a moment when it is rewritten (cache.go 134-146, 159).     *)
(* Like OnePruner it is said only until a running container loses its      *)
(* lock, after which two may pass the second look at the stamp together.   *)
PassesSpaced ==
  [][\A c \in Containers :
       pc[c] = "recheck" /\ pc'[c] \in PassPcs /\ ~broken
         => passAge = None \/ passAge >= Interval]_vars

(* A stale directory goes in the end: failing passes, killed containers    *)
(* and the locks they leave do not stop pruning for good                   *)
(* (cache.go 139-141).                                                     *)
StaleDirsGo ==
  \A d \in Dirs : dirAge[d] > OldLimit ~> dirAge[d] <= OldLimit

(* README.md:705: pruning "only removes stale directories".  What is       *)
(* removed was too old.                                                    *)
OnlyStaleRemoved ==
  [][\A d \in Dirs : dirAge[d] # None /\ dirAge'[d] = None
       => dirAge[d] > IF d \in TempDirs THEN TempLimit ELSE OldLimit]_vars
================================================================================
