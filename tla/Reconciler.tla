------------------------------- MODULE Reconciler -------------------------------
(***************************************************************************)
(* One runner class's reconciler (internal/engine/reconciler.go): a pass   *)
(* of ReconcileDemand, with ensureBaseline, scaleDown, scaleUp and the     *)
(* clone and configure sequences, against the three things it drives and   *)
(* cannot lock: the LXD host (provider/lxd/runtime.go), GitHub's runner    *)
(* registrations, and the last-active files (provider/fsstate/store.go).   *)
(* Each call to one of them may fail, runners take and finish jobs and     *)
(* containers stop between any two calls, and the daemon may crash.        *)
(*                                                                         *)
(* Containers and runners carry the same name.  Name 0 is the baseline,    *)
(* name i > 0 is "<prefix>-i".  Only runners with the class's labels are   *)
(* modelled; others are never counted.  Time is counted in ticks, a        *)
(* last-active file is its age, capped where no comparison tells more.     *)
(***************************************************************************)
EXTENDS Integers, FiniteSets

CONSTANTS
  MaxAutoRunners,     \* cfg.MaxAutoRunners
  HasBaseline,        \* cfg.Baseline
  IdleTimeout,        \* cfg.IdleTimeout, in ticks
  AvailabilityGrace,  \* runnerAvailabilityGrace, in ticks
  MaxDemand,          \* bound: largest queued-job count handed to a pass
  MaxPassTicks,       \* bound: ticks that may pass within one pass
  MaxFaults,          \* bound: failing calls, crashes, outside deletions
  MaxForeign,         \* bound: containers others create under the prefix
  MaxDisturbances     \* bound: faults and such containers together

ASSUME ConfigAssumption ==
  /\ MaxAutoRunners \in Nat
  /\ HasBaseline \in BOOLEAN
  /\ IdleTimeout \in Nat \ {0}
  /\ AvailabilityGrace \in Nat \ {0}
ASSUME BoundAssumption ==
  /\ MaxDemand \in Nat
  /\ MaxPassTicks \in Nat
  /\ MaxFaults \in Nat
  /\ MaxForeign \in Nat
  /\ MaxDisturbances \in Nat

Baseline == 0

(* pendingAvailabilityGrace()                                              *)
Grace == IF IdleTimeout < AvailabilityGrace THEN IdleTimeout ELSE AvailabilityGrace

(* Ages beyond this are told apart by no comparison of a pass.             *)
AgeCap == MaxPassTicks + (IF Grace < IdleTimeout THEN IdleTimeout ELSE IdleTimeout + 1)

VARIABLES
  container,       \* LXD: existing name -> "stopped" or "running"
  runner,          \* GitHub: registered name -> state of the registration
  lastActive,      \* state files: name -> age of the timestamp
  pc,              \* the reconciler's place in the pass
  demand,          \* demand.QueuedJobs
  snap,            \* runners: the listing the pass decides from
  basePending,     \* baselinePending
  seen,            \* containers: listed name -> status
  todo,            \* listed names the scale-down loop has still to visit
  known,           \* filterRemovedContainers(containers, removed)
  removed,         \* removed: names torn down in this pass
  autoCount,       \* autoCount
  pendingCapacity, \* pendingCapacity
  needed,          \* needed
  elapsed,         \* ticks since the pass read its clock
  cur,             \* the container being torn down or provisioned
  after,           \* where that one's caller continues
  names,           \* cloneWithFreshName's snapshot
  attempt,         \* cloneWithFreshName's attempt
  faults,          \* faults so far
  foreign,         \* history: containers others created, ever
  foreignSince     \* history: the same, since the pass listed containers

world == <<container, runner, lastActive>>
loopVars == <<demand, snap, basePending, seen, todo, known, removed, autoCount,
              pendingCapacity, needed>>
stepVars == <<cur, after, names, attempt>>
bounds == <<faults, foreign, foreignSince>>
vars == <<world, pc, loopVars, elapsed, stepVars, bounds>>

ContainerStates == {"stopped", "running"}

(* "registered": no service runs behind the registration; "offline": one   *)
(* does, but GitHub does not see it online; "idle" and "busy" are online.  *)
RunnerStates == {"registered", "offline", "idle", "busy"}
Online == {"idle", "busy"}

Statuses == ContainerStates \cup {"unknown"}
Pcs == {"idle", "baseline", "list", "loop", "deregister", "destroy",
        "cloneBaseline", "up", "clone", "boot", "register", "service"}

TypeOK ==
  /\ DOMAIN container \subseteq Nat
  /\ \A n \in DOMAIN container : container[n] \in ContainerStates
  /\ DOMAIN runner \subseteq Nat
  /\ \A n \in DOMAIN runner : runner[n] \in RunnerStates
  /\ DOMAIN lastActive \subseteq Nat
  /\ \A n \in DOMAIN lastActive : lastActive[n] \in 0 .. AgeCap
  /\ pc \in Pcs
  /\ demand \in 0 .. MaxDemand
  /\ DOMAIN snap \subseteq Nat
  /\ \A n \in DOMAIN snap : snap[n] \in RunnerStates
  /\ basePending \in {0, 1}
  /\ DOMAIN seen \subseteq Nat
  /\ \A n \in DOMAIN seen : seen[n] \in Statuses
  /\ todo \subseteq DOMAIN seen
  /\ known \subseteq Nat
  /\ removed \subseteq Nat
  /\ autoCount \in Int
  /\ pendingCapacity \in Nat
  /\ needed \in Int
  /\ elapsed \in 0 .. MaxPassTicks
  /\ cur \in Nat
  /\ after \in {"loop", "up", "baseline"}
  /\ names \subseteq Nat
  /\ attempt \in 0 .. 2
  /\ faults \in 0 .. MaxFaults
  /\ foreign \in 0 .. MaxForeign
  /\ foreignSince \in 0 .. foreign

(***************************************************************************)
(* Helpers                                                                 *)
(***************************************************************************)
With(f, k, v) == [n \in DOMAIN f \cup {k} |-> IF n = k THEN v ELSE f[n]]
Without(f, k) == [n \in DOMAIN f \ {k} |-> f[n]]
Empty == [n \in {} |-> "none"]

(* ListContainers(prefix): config validation keeps the baseline's name     *)
(* from starting with the prefix.                                          *)
AutoContainers == DOMAIN container \ {Baseline}

(* A registration whose container no longer runs has no service.           *)
Detached(f, n) == IF n \in DOMAIN f THEN With(f, n, "registered") ELSE f

(* AvailableRunnerCountForLabels counts these.                             *)
AvailableOnline == {n \in DOMAIN snap : snap[n] = "idle"}

(* nextName: the least unused index.                                       *)
IsNextName(name, used) ==
  /\ name \in 1 .. Cardinality(used) + 1
  /\ name \notin used
  /\ \A i \in 1 .. name - 1 : i \in used

Disturbable == faults + foreign < MaxDisturbances
CanFail == faults < MaxFaults /\ Disturbable /\ faults' = faults + 1

Init ==
  /\ container = Empty
  /\ runner = Empty
  /\ lastActive = Empty
  /\ pc = "idle"
  /\ demand = 0
  /\ snap = Empty
  /\ basePending = 0
  /\ seen = Empty
  /\ todo = {}
  /\ known = {}
  /\ removed = {}
  /\ autoCount = 0
  /\ pendingCapacity = 0
  /\ needed = 0
  /\ elapsed = 0
  /\ cur = Baseline
  /\ after = "loop"
  /\ names = {}
  /\ attempt = 0
  /\ faults = 0
  /\ foreign = 0
  /\ foreignSince = 0

(***************************************************************************)
(* Entering and leaving a pass                                             *)
(***************************************************************************)

(* ListRunners answered (a failing ListRunners ends the pass unchanged).   *)
StartPass(d) ==
  /\ pc = "idle"
  /\ demand' = d
  /\ snap' = runner
  /\ pc' = IF HasBaseline THEN "baseline" ELSE "list"
  /\ UNCHANGED <<world, basePending, seen, todo, known, removed, autoCount,
                 pendingCapacity, needed, elapsed, stepVars, bounds>>

(* The pass returns or the process dies: its local state is gone.          *)
EndPass ==
  /\ pc' = "idle"
  /\ demand' = 0
  /\ snap' = Empty
  /\ basePending' = 0
  /\ seen' = Empty
  /\ todo' = {}
  /\ known' = {}
  /\ removed' = {}
  /\ autoCount' = 0
  /\ pendingCapacity' = 0
  /\ needed' = 0
  /\ elapsed' = 0
  /\ cur' = Baseline
  /\ after' = "loop"
  /\ names' = {}
  /\ attempt' = 0
  /\ foreignSince' = 0
  /\ UNCHANGED foreign

Crash ==
  /\ pc # "idle"
  /\ CanFail
  /\ EndPass
  /\ UNCHANGED world

(***************************************************************************)
(* ensureBaseline                                                          *)
(***************************************************************************)

(* ensureBaseline returned p (an error is logged and counts as 0).         *)
BaselineDone(p) ==
  /\ pc' = "list"
  /\ basePending' = p
  /\ cur' = Baseline
  /\ after' = "loop"
  /\ UNCHANGED <<demand, snap, seen, todo, known, removed, autoCount,
                 pendingCapacity, needed, elapsed, names, attempt, foreign, foreignSince>>

BaselineOnline ==
  /\ pc = "baseline"
  /\ Baseline \in DOMAIN snap /\ snap[Baseline] \in Online
  /\ BaselineDone(0)
  /\ UNCHANGED <<world, faults>>

BaselineOffline ==
  /\ pc = "baseline"
  /\ ~(Baseline \in DOMAIN snap /\ snap[Baseline] \in Online)

BaselineListFails ==
  /\ BaselineOffline
  /\ CanFail
  /\ BaselineDone(0)
  /\ UNCHANGED world

(* Mutant: a running baseline is waited for without end.                   *)
BaselineFreshForEver ==
  /\ Baseline \in DOMAIN container
  /\ container[Baseline] = "running"

(* A running baseline that is not online yet is waited for: until the      *)
(* grace is over, or from now on when it has no state file.                *)
BaselineFresh ==
  /\ Baseline \in DOMAIN container
  /\ container[Baseline] = "running"
  /\ Baseline \in DOMAIN lastActive => lastActive[Baseline] < Grace

BaselineStarting ==
  /\ BaselineOffline
  /\ BaselineFresh
  /\ \/ /\ lastActive' = IF Baseline \in DOMAIN lastActive THEN lastActive
                         ELSE With(lastActive, Baseline, 0)
        /\ UNCHANGED faults
     \/ /\ Baseline \notin DOMAIN lastActive
        /\ UNCHANGED lastActive
        /\ CanFail
  /\ BaselineDone(1)
  /\ UNCHANGED <<container, runner>>

(* Any other existing baseline container is torn down first; so is a fresh *)
(* one that LXD lists in a transitional state.                             *)
BaselineStale ==
  /\ BaselineOffline
  /\ Baseline \in DOMAIN container
  /\ \/ ~BaselineFresh /\ UNCHANGED faults
     \/ BaselineFresh /\ CanFail
  /\ pc' = "deregister"
  /\ cur' = Baseline
  /\ after' = "baseline"
  /\ UNCHANGED <<world, loopVars, elapsed, names, attempt, foreign, foreignSince>>

BaselineMissing ==
  /\ BaselineOffline
  /\ Baseline \notin DOMAIN container
  /\ pc' = "cloneBaseline"
  /\ UNCHANGED <<world, loopVars, elapsed, stepVars, bounds>>

(* The registration token, then CloneFromTemplate(BaselineName).           *)
CloneBaseline ==
  /\ pc = "cloneBaseline"
  /\ \/ /\ Baseline \notin DOMAIN container
        /\ container' = With(container, Baseline, "stopped")
        /\ pc' = "boot"
        /\ cur' = Baseline
        /\ after' = "baseline"
        /\ UNCHANGED <<loopVars, elapsed, names, attempt, bounds>>
     \/ /\ CanFail
        /\ container' \in {container, With(container, Baseline, "stopped")}
        /\ BaselineDone(0)
  /\ UNCHANGED <<runner, lastActive>>

(***************************************************************************)
(* ReconcileDemand: listing and the scale-down loop                        *)
(***************************************************************************)

(* ListContainers and the reading of the pass's clock.  With no runner     *)
(* available every status is read again, and is unknown where that fails;  *)
(* otherwise the listed ones are kept, which may be out of date.           *)
ListAuto ==
  /\ pc = "list"
  /\ \E wrong \in SUBSET AutoContainers, s \in {"stopped", "unknown"} :
        /\ s = "stopped" => AvailableOnline # {}
        /\ IF wrong = {} THEN UNCHANGED faults ELSE CanFail
        /\ seen' = [n \in AutoContainers |-> IF n \in wrong THEN s ELSE container[n]]
  /\ todo' = AutoContainers
  /\ known' = AutoContainers
  /\ removed' = {}
  /\ autoCount' = Cardinality(AutoContainers)
  /\ elapsed' = 0
  /\ foreignSince' = 0
  /\ pc' = "loop"
  /\ UNCHANGED <<world, demand, snap, basePending, pendingCapacity, needed,
                 stepVars, foreign>>

ListFails ==
  /\ pc = "list"
  /\ CanFail
  /\ EndPass
  /\ UNCHANGED world

(* Mutant: a listed "stopped" is trusted.                                  *)
NeedsRefreshUnknown(c) == seen[c] = "unknown"

(* A status the loop reads again before it goes by it.                     *)
NeedsRefresh(c) ==
  seen[c] = "unknown" \/ (AvailableOnline # {} /\ seen[c] = "stopped")

(* status is what the loop body goes by for c: the listed one or, where    *)
(* that is not trusted, one read again, which may be a transitional state. *)
StatusOf(c, status) ==
  /\ pc = "loop"
  /\ c \in todo
  /\ IF NeedsRefresh(c)
     THEN c \in DOMAIN container /\ status \in {container[c], "unknown"}
     ELSE status = seen[c]

Transitional(c, status) == NeedsRefresh(c) /\ status = "unknown"

(* SetLastActive, whose failure is ignored.                                *)
Saved(c, status, files) ==
  \/ /\ lastActive' = files
     /\ IF Transitional(c, status) THEN CanFail ELSE UNCHANGED faults
  \/ /\ UNCHANGED lastActive
     /\ CanFail

(* continue with the next container                                        *)
Visited(c) ==
  /\ todo' = todo \ {c}
  /\ UNCHANGED <<pc, cur, after>>

(* handleScaleDown(c)                                                      *)
BeginScaleDown(c) ==
  /\ todo' = todo \ {c}
  /\ pc' = "deregister"
  /\ cur' = c
  /\ after' = "loop"

LoopFrame == UNCHANGED <<container, runner, demand, snap, basePending, seen,
                         known, removed, autoCount, needed, elapsed, names,
                         attempt, foreign, foreignSince>>

(* A status that cannot be read leaves the container for a later pass.     *)
SkipUnreadable(c) ==
  /\ pc = "loop"
  /\ c \in todo
  /\ NeedsRefresh(c)
  /\ IF c \in DOMAIN container THEN CanFail ELSE UNCHANGED faults
  /\ Visited(c)
  /\ UNCHANGED <<lastActive, pendingCapacity>>
  /\ LoopFrame

VisitStopped(c, status) ==
  /\ StatusOf(c, status)
  /\ status = "stopped"
  /\ BeginScaleDown(c)
  /\ UNCHANGED <<lastActive, pendingCapacity, faults>>
  /\ LoopFrame

VisitBusy(c, status) ==
  /\ StatusOf(c, status)
  /\ status # "stopped"
  /\ c \in DOMAIN snap /\ snap[c] = "busy"
  /\ Saved(c, status, With(lastActive, c, elapsed))
  /\ Visited(c)
  /\ UNCHANGED pendingCapacity
  /\ LoopFrame

(* Mutant: every look at a container refreshes its timestamp.              *)
TouchedAlways(c) == With(lastActive, c, elapsed)

(* GetLastActive, initialising a missing file with the pass's clock.       *)
Touched(c) == IF c \in DOMAIN lastActive THEN lastActive
              ELSE With(lastActive, c, elapsed)
IdleDur(c) == IF c \in DOMAIN lastActive THEN lastActive[c] - elapsed ELSE 0

(* Running, no runner registered: torn down once the grace is over.        *)
VisitOrphan(c, status) ==
  /\ StatusOf(c, status)
  /\ status # "stopped"
  /\ c \notin DOMAIN snap
  /\ Saved(c, status, Touched(c))
  /\ IF IdleDur(c) < Grace THEN Visited(c) ELSE BeginScaleDown(c)
  /\ UNCHANGED pendingCapacity
  /\ LoopFrame

(* Mutant: off by one at the end of the grace period.                      *)
PendingRunnerCapacityStrict(c, status) ==
  /\ status = "running"
  /\ snap[c] \notin Online
  /\ IdleDur(c) < Grace

(* pendingRunnerCapacity                                                   *)
PendingRunnerCapacity(c, status) ==
  /\ status = "running"
  /\ snap[c] \notin Online
  /\ IdleDur(c) <= Grace

(* Running, registered, not busy: perhaps capacity about to come online,   *)
(* torn down at the idle timeout.                                          *)
VisitIdle(c, status) ==
  /\ StatusOf(c, status)
  /\ status # "stopped"
  /\ c \in DOMAIN snap /\ snap[c] # "busy"
  /\ Saved(c, status, Touched(c))
  /\ pendingCapacity' = IF PendingRunnerCapacity(c, status)
                        THEN pendingCapacity + 1 ELSE pendingCapacity
  /\ IF IdleDur(c) >= IdleTimeout THEN BeginScaleDown(c) ELSE Visited(c)
  /\ LoopFrame

(***************************************************************************)
(* scaleDown                                                               *)
(***************************************************************************)

(* Stop and uninstall the service, config.sh remove, API delete.  The      *)
(* container must run for the first two, the listing must show the runner  *)
(* and not busy for the last.  A failure may leave the registration, with  *)
(* or without its service; nothing stops the teardown.                     *)
Deregister ==
  /\ pc = "deregister"
  /\ \/ /\ runner' = IF \/ cur \in DOMAIN container /\ container[cur] = "running"
                        \/ cur \in DOMAIN snap /\ snap[cur] # "busy"
                     THEN Without(runner, cur) ELSE runner
        /\ UNCHANGED faults
     \/ /\ cur \in DOMAIN runner
        /\ CanFail
        /\ runner' \in {runner, Detached(runner, cur)}
  /\ pc' = "destroy"
  /\ UNCHANGED <<container, lastActive, loopVars, elapsed, stepVars, foreign,
                 foreignSince>>

(* Mutant: the count drops, the name is not marked removed.                *)
CountRemovedOnly == autoCount' = autoCount - 1 /\ UNCHANGED <<known, removed>>

(* handleScaleDown's accounting for a deleted container.                   *)
CountRemoved ==
  /\ autoCount' = autoCount - 1
  /\ removed' = removed \cup {cur}
  /\ known' = known \ {cur}

(* result.deleted: back to the caller.                                     *)
ScaleDownDeleted ==
  \/ /\ after = "loop"
     /\ pc' = "loop"
     /\ CountRemoved
     /\ cur' = Baseline
     /\ UNCHANGED <<demand, snap, basePending, seen, todo, pendingCapacity,
                    needed, elapsed, after, names, attempt, foreign, foreignSince>>
  \/ /\ after = "baseline"
     /\ pc' = "cloneBaseline"
     /\ UNCHANGED <<loopVars, elapsed, stepVars, foreign, foreignSince>>

(* Not deleted: the loop goes on with its count, ensureBaseline gives up.  *)
ScaleDownKept ==
  \/ /\ after = "loop"
     /\ pc' = "loop"
     /\ cur' = Baseline
     /\ UNCHANGED <<loopVars, elapsed, after, names, attempt, foreign, foreignSince>>
  \/ /\ after = "baseline"
     /\ BaselineDone(0)

(* StopContainer, DeleteContainer and, whatever they answered, the removal *)
(* of the state file (which may fail to go).                               *)
Destroy ==
  /\ pc = "destroy"
  /\ \/ /\ cur \in DOMAIN container
        /\ container' = Without(container, cur)
        /\ runner' = Detached(runner, cur)
        /\ \/ lastActive' = Without(lastActive, cur) /\ UNCHANGED faults
           \/ cur \in DOMAIN lastActive /\ UNCHANGED lastActive /\ CanFail
        /\ ScaleDownDeleted
     \/ /\ IF cur \in DOMAIN container THEN CanFail ELSE UNCHANGED faults
        /\ \/ UNCHANGED <<container, runner>>
           \/ /\ cur \in DOMAIN container
              /\ container' = With(container, cur, "stopped")
              /\ runner' = Detached(runner, cur)
        /\ lastActive' = Without(lastActive, cur)
        /\ ScaleDownKept

(***************************************************************************)
(* ReconcileDemand: scaling up                                             *)
(***************************************************************************)

(* The loop is over: what does the queued demand lack?                     *)
EndLoop ==
  /\ pc = "loop"
  /\ todo = {}
  /\ needed' = demand - Cardinality(AvailableOnline) - pendingCapacity - basePending
  /\ pc' = "up"
  /\ demand' = 0
  /\ snap' = Empty
  /\ basePending' = 0
  /\ seen' = Empty
  /\ pendingCapacity' = 0
  /\ UNCHANGED <<world, todo, known, removed, autoCount, elapsed, stepVars, bounds>>

(* Mutant: off by one at the maximum.                                      *)
WantsRunnerAtMax == needed > 0 /\ autoCount <= MaxAutoRunners

(* The condition of the scale-up loop.                                     *)
WantsRunner == needed > 0 /\ autoCount < MaxAutoRunners

NoScaleUp ==
  /\ pc = "up"
  /\ ~WantsRunner
  /\ EndPass
  /\ UNCHANGED <<world, faults>>

(* scaleUp: the registration token, then cloneWithFreshName.               *)
RequestScaleUp ==
  /\ pc = "up"
  /\ WantsRunner
  /\ \/ /\ pc' = "clone"
        /\ after' = "up"
        /\ names' = known
        /\ attempt' = 0
        /\ UNCHANGED <<loopVars, elapsed, cur, bounds>>
     \/ /\ CanFail
        /\ EndPass
  /\ UNCHANGED world

CloneSucceeds(name) ==
  /\ pc = "clone"
  /\ IsNextName(name, names)
  /\ name \notin DOMAIN container
  /\ container' = With(container, name, "stopped")
  /\ cur' = name
  /\ names' = {}
  /\ attempt' = 0
  /\ pc' = "boot"
  /\ UNCHANGED <<runner, lastActive, loopVars, elapsed, after, bounds>>

(* A failing clone may leave the copy behind; the scale-up loop breaks.    *)
CloneFails(name) ==
  /\ pc = "clone"
  /\ IsNextName(name, names)
  /\ name \notin DOMAIN container
  /\ CanFail
  /\ container' \in {container, With(container, name, "stopped")}
  /\ EndPass
  /\ UNCHANGED <<runner, lastActive>>

(* Mutant: the retry goes by the listing the conflict has just disproved.  *)
CloneConflictUnlisted(name) ==
  /\ pc = "clone"
  /\ IsNextName(name, names)
  /\ name \in DOMAIN container
  /\ \/ /\ Cardinality(AutoContainers) < MaxAutoRunners
        /\ attempt < 2
        /\ attempt' = attempt + 1
        /\ UNCHANGED <<pc, loopVars, elapsed, cur, after, names, bounds>>
     \/ /\ Cardinality(AutoContainers) >= MaxAutoRunners \/ attempt = 2
        /\ EndPass
        /\ UNCHANGED faults
  /\ UNCHANGED world

(* Mutant: and it is not counted either.                                   *)
CloneConflictUncounted(name) ==
  /\ pc = "clone"
  /\ IsNextName(name, names)
  /\ name \in DOMAIN container
  /\ UNCHANGED vars

(* The name is taken: list again and retry, at most three attempts in all, *)
(* unless listing fails or the class is full by now.                       *)
CloneConflict(name) ==
  /\ pc = "clone"
  /\ IsNextName(name, names)
  /\ name \in DOMAIN container
  /\ \/ /\ Cardinality(AutoContainers) < MaxAutoRunners
        /\ attempt < 2
        /\ names' = AutoContainers
        /\ attempt' = attempt + 1
        /\ UNCHANGED <<pc, loopVars, elapsed, cur, after, bounds>>
     \/ /\ Cardinality(AutoContainers) >= MaxAutoRunners \/ attempt = 2
        /\ EndPass
        /\ UNCHANGED faults
     \/ /\ CanFail
        /\ EndPass
  /\ UNCHANGED world

(***************************************************************************)
(* configureClonedRunner.  The optional steps whose failure is only logged *)
(* (cache attach, symlinks, prune, observability) change nothing here.     *)
(***************************************************************************)

(* Back to the caller with an error: scale-up breaks off the pass,         *)
(* ensureBaseline's error is logged.                                       *)
ProvisionFailed ==
  \/ after = "up" /\ EndPass
  \/ after = "baseline" /\ BaselineDone(0)

(* A step that did not work: cleanupFailedScaleUp stops and deletes the    *)
(* container, or fails to.                                                 *)
StepFails(working) ==
  /\ IF working THEN CanFail ELSE UNCHANGED faults
  /\ \/ container' = Without(container, cur)
     \/ /\ working
        /\ container' \in {container, With(container, cur, "stopped")}
  /\ ProvisionFailed

(* StartContainer and WaitForReady                                         *)
BootRunner ==
  /\ pc = "boot"
  /\ \/ /\ cur \in DOMAIN container
        /\ container' = With(container, cur, "running")
        /\ pc' = "register"
        /\ UNCHANGED <<loopVars, elapsed, stepVars, bounds>>
     \/ StepFails(cur \in DOMAIN container)
  /\ UNCHANGED <<runner, lastActive>>

CurRunning == cur \in DOMAIN container /\ container[cur] = "running"

(* config.sh --replace; it may register the runner and fail after that.    *)
RegisterRunner ==
  /\ pc = "register"
  /\ \/ /\ CurRunning
        /\ runner' = With(runner, cur, "registered")
        /\ pc' = "service"
        /\ UNCHANGED <<container, loopVars, elapsed, stepVars, bounds>>
     \/ /\ StepFails(CurRunning)
        /\ \/ UNCHANGED runner
           \/ CurRunning /\ runner' = With(runner, cur, "registered")
  /\ UNCHANGED lastActive

(* svc.sh install and start, then the state file (which may fail to be     *)
(* written).  The caller counts the new runner and appends its name, which *)
(* filterRemovedContainers takes out again if the pass had removed it.  A  *)
(* failing service leaves the registration behind.                         *)
StartService ==
  /\ pc = "service"
  /\ \/ /\ CurRunning
        /\ runner' = IF cur \in DOMAIN runner THEN With(runner, cur, "offline")
                                              ELSE runner
        /\ \/ lastActive' = With(lastActive, cur, 0) /\ UNCHANGED faults
           \/ UNCHANGED lastActive /\ CanFail
        /\ UNCHANGED container
        /\ \/ /\ after = "up"
              /\ known' = known \cup ({cur} \ removed)
              /\ autoCount' = autoCount + 1
              /\ needed' = needed - 1
              /\ pc' = "up"
              /\ cur' = Baseline
              /\ after' = "loop"
              /\ UNCHANGED <<demand, snap, basePending, seen, todo, removed,
                             pendingCapacity, elapsed, names, attempt, foreign,
                             foreignSince>>
           \/ after = "baseline" /\ BaselineDone(1)
     \/ /\ StepFails(CurRunning)
        /\ UNCHANGED <<runner, lastActive>>

(***************************************************************************)
(* The world outside the reconciler                                        *)
(***************************************************************************)
PassVars == <<pc, loopVars, stepVars>>

Aged(age) == IF age < AgeCap THEN age + 1 ELSE AgeCap

(* Time passes; a pass lasts at most MaxPassTicks.                         *)
Tick ==
  /\ pc = "idle" \/ elapsed < MaxPassTicks
  /\ elapsed' = IF pc = "idle" THEN elapsed ELSE elapsed + 1
  /\ lastActive' = [n \in DOMAIN lastActive |-> Aged(lastActive[n])]
  /\ UNCHANGED <<container, runner, PassVars, bounds>>

RunnerMoves(n, from, to) ==
  /\ n \in DOMAIN runner
  /\ runner[n] = from
  /\ runner' = With(runner, n, to)
  /\ UNCHANGED <<container, lastActive, PassVars, elapsed, bounds>>

RunnerConnects(n) == RunnerMoves(n, "offline", "idle")
RunnerDisconnects(n) == RunnerMoves(n, "idle", "offline")
JobAssigned(n) == RunnerMoves(n, "idle", "busy")

(* An ephemeral runner deregisters itself after its one job.               *)
JobFinished(n) ==
  \/ n = Baseline /\ RunnerMoves(n, "busy", "idle")
  \/ /\ n # Baseline
     /\ n \in DOMAIN runner
     /\ runner[n] = "busy"
     /\ runner' = Without(runner, n)
     /\ UNCHANGED <<container, lastActive, PassVars, elapsed, bounds>>

(* A container stops by itself when its ephemeral runner is done with it;  *)
(* any other container only by a fault.                                    *)
ContainerStops(n) ==
  /\ n \in DOMAIN container
  /\ container[n] = "running"
  /\ IF n \in DOMAIN runner \/ n = Baseline \/ (n = cur /\ pc = "register")
     THEN CanFail ELSE UNCHANGED faults
  /\ container' = With(container, n, "stopped")
  /\ runner' = Detached(runner, n)
  /\ UNCHANGED <<lastActive, PassVars, elapsed, foreign, foreignSince>>

(* An operator or another scaler creates a container under the prefix,     *)
(* cloneWithFreshName's "concurrent scale-up", or deletes one.             *)
ForeignCreate(n) ==
  /\ foreign < MaxForeign
  /\ Disturbable
  /\ n \notin DOMAIN container
  /\ container' = With(container, n, "running")
  /\ foreign' = foreign + 1
  /\ foreignSince' = foreignSince + 1
  /\ UNCHANGED <<runner, lastActive, PassVars, elapsed, faults>>

ForeignDelete(n) ==
  /\ n \in AutoContainers
  /\ CanFail
  /\ container' = Without(container, n)
  /\ runner' = Detached(runner, n)
  /\ UNCHANGED <<lastActive, PassVars, elapsed, foreign, foreignSince>>

(* A last-active file is deleted or becomes unreadable.                    *)
StateFileLost(n) ==
  /\ n \in DOMAIN lastActive
  /\ CanFail
  /\ lastActive' = Without(lastActive, n)
  /\ UNCHANGED <<container, runner, PassVars, elapsed, foreign, foreignSince>>

BaselineStep ==
  \/ BaselineOnline \/ BaselineListFails \/ BaselineStarting
  \/ BaselineStale \/ BaselineMissing \/ CloneBaseline

LoopStep ==
  \/ ListAuto \/ ListFails \/ EndLoop
  \/ \E c \in todo :
       \/ SkipUnreadable(c)
       \/ \E status \in Statuses :
            \/ VisitStopped(c, status) \/ VisitBusy(c, status)
            \/ VisitOrphan(c, status) \/ VisitIdle(c, status)

UpStep ==
  \/ NoScaleUp \/ RequestScaleUp
  \/ \E name \in 1 .. Cardinality(names) + 1 :
       CloneSucceeds(name) \/ CloneFails(name) \/ CloneConflict(name)
  \/ BootRunner \/ RegisterRunner \/ StartService

PassStep ==
  \/ \E d \in 0 .. MaxDemand : StartPass(d)
  \/ BaselineStep \/ LoopStep \/ Deregister \/ Destroy \/ UpStep

WorldStep ==
  \/ Tick
  \/ \E n \in DOMAIN runner :
       RunnerConnects(n) \/ RunnerDisconnects(n) \/ JobAssigned(n) \/ JobFinished(n)
  \/ \E n \in DOMAIN container : ContainerStops(n) \/ ForeignDelete(n)
  \/ \E n \in DOMAIN lastActive : StateFileLost(n)
  \/ \E n \in 1 .. MaxAutoRunners + MaxForeign : ForeignCreate(n)

Next == PassStep \/ Crash \/ WorldStep

Spec == Init /\ [][Next]_vars

(* The daemon keeps running passes (poll ticker) and time goes on.         *)
FairSpec == Spec /\ WF_vars(PassStep) /\ SF_vars(Tick)

(***************************************************************************)
(* Properties                                                              *)
(***************************************************************************)

(* The class never holds more than max_auto_runners containers, but for    *)
(* those others created: not across passes, partial clones, failed         *)
(* cleanups, crashes in the middle of provisioning, or outside deletions   *)
(* (reconciler.go 111-212, 372-396).                                       *)
CapRespected == Cardinality(AutoContainers) <= MaxAutoRunners + foreign

(* The two views of the class a pass keeps do not part: the count compared *)
(* with the maximum covers the list new names are chosen from, through     *)
(* teardowns that do and do not delete, and names that are created again   *)
(* after the pass removed them, which filterRemovedContainers goes on      *)
(* leaving out (reconciler.go 127-136, 202-212, 508-521).                  *)
CountCoversKnown == Cardinality(known) <= autoCount

(* A job the pass's runner listing shows running is never killed: whenever *)
(* a teardown is about to stop the service or the container of a runner    *)
(* that is busy in a running container, the listing did not show it busy.  *)
(* A listed "stopped" that is out of date must not lead there              *)
(* (reconciler.go 139-157, 118-120).                                       *)
NoKnownJobKilled ==
  /\ pc \in {"deregister", "destroy"}
  /\ cur \in DOMAIN runner /\ runner[cur] = "busy"
  /\ cur \in DOMAIN container /\ container[cur] = "running"
  => ~(cur \in DOMAIN snap /\ snap[cur] = "busy")

(* A runner still coming online is not provisioned again by the next pass: *)
(* young, live, not busy runners never outnumber the queued jobs any pass  *)
(* was told of (pendingRunnerCapacity and availableOnline together cover   *)
(* them, reconciler.go 106, 187-202, 570-578).                             *)
NoDoubleProvisioning ==
  faults = 0 =>
  Cardinality({n \in AutoContainers :
                 /\ container[n] = "running"
                 /\ n \in DOMAIN runner /\ runner[n] \in {"offline", "idle"}
                 /\ n \in DOMAIN lastActive /\ lastActive[n] <= Grace})
    <= MaxDemand

(* A pass nothing disturbs scales up as far as the demand and the maximum  *)
(* let it.  It may meet a name conflict all the same, of its own making: a *)
(* name it removed and created again is still left out of the list it      *)
(* chooses the next one from.  The fresh listing of the retry has it       *)
(* (reconciler.go 202-212, 376-395).                                       *)
ScaleUpCarriedThrough ==
  [][pc # "idle" /\ pc' = "idle" /\ faults' = 0 /\ foreign = 0
       => needed <= 0 \/ autoCount >= MaxAutoRunners]_vars

(* Every pass ends, with a failing call, a crash, an outside deletion or   *)
(* an outside creation anywhere in it: the scale-up loop and its clone     *)
(* retries come to an end.                                                 *)
PassTerminates == pc # "idle" ~> pc = "idle"

(* Leftovers are collected: a stopped container does not stay, and neither *)
(* does a running one whose runner is not registered, whichever crash,     *)
(* or failure left it (reconciler.go 149-176).                             *)
LeftoversCollected ==
  \A n \in 1 .. MaxAutoRunners + MaxForeign + 1 :
    /\ (n \in DOMAIN container /\ container[n] = "stopped")
         ~> ~(n \in DOMAIN container /\ container[n] = "stopped")
    /\ (n \in DOMAIN container /\ n \notin DOMAIN runner)
         ~> ~(n \in DOMAIN container /\ n \notin DOMAIN runner)

(* The baseline comes back: whenever no service stands behind its          *)
(* registration, it is provisioned again, whichever crash, failed cleanup  *)
(* or half-done provisioning it is in (reconciler.go 312-370).             *)
BaselineServing == Baseline \in DOMAIN runner /\ runner[Baseline] # "registered"
BaselineRestored == ~BaselineServing ~> BaselineServing

(* README.md:211: "Running containers with no registered runner --         *)
(* orphaned, immediate cleanup".                                           *)
OrphanCleanedAtOnce ==
  [][\A c \in todo : c \notin todo' /\ seen[c] = "running" /\ c \notin DOMAIN snap
       => pc' # "loop"]_vars

(* README.md:215: a torn-down runner is "removed for capacity and          *)
(* next-name decisions, so a replacement can still be created": no runner  *)
(* the pass counts as available when it computes what is needed has been   *)
(* removed by it.                                                          *)
RemovedNotCounted ==
  pc = "loop" /\ todo = {} => \A n \in AvailableOnline \cap DOMAIN seen : n \in known
================================================================================
