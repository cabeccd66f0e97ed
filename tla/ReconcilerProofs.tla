--------------------------- MODULE ReconcilerProofs ---------------------------
(***************************************************************************)
(* Proofs about Reconciler, for any cap, timeouts, demand and number of    *)
(* faults and outside creations: the type invariant, that the cap holds,   *)
(* that the pass's count covers its names, that no job the listing shows   *)
(* running is killed, that runners coming online are not provisioned a     *)
(* second time, that a pass is a bounded number of steps, and that its     *)
(* loop leaves no container it listed as stopped.                          *)
(***************************************************************************)
EXTENDS Reconciler, FiniteSetTheorems, TLAPS

(***************************************************************************)
(* The inductive invariant                                                 *)
(***************************************************************************)
Teardown == {"deregister", "destroy"}
Provisioning == {"boot", "register", "service"}

(* Everything a pass counts is finite.                                     *)
FiniteInv ==
  /\ IsFiniteSet(DOMAIN container)
  /\ IsFiniteSet(DOMAIN runner)
  /\ IsFiniteSet(DOMAIN snap)
  /\ IsFiniteSet(known)
  /\ IsFiniteSet(names)

(* Where a teardown or a provisioning came from tells what it works on.    *)
PlaceInv ==
  /\ pc = "clone" => after = "up"
  /\ pc \in Teardown => \/ after = "loop" /\ cur # Baseline
                        \/ after = "baseline" /\ cur = Baseline
  /\ pc \in Provisioning => \/ after = "up" /\ cur # Baseline
                            \/ after = "baseline" /\ cur = Baseline
  /\ pc = "cloneBaseline" => Baseline \notin DOMAIN container

(* The pass works on a listing of the class.                               *)
Counting == pc \in {"loop", "up", "clone"} \/ (pc \in Teardown /\ after = "loop")

(* A runner of the class is being provisioned and not counted yet.         *)
Creating == pc \in Provisioning /\ after = "up"

ClassSize == Cardinality(AutoContainers)

(* The class is covered by the count, but for the container being          *)
(* provisioned and for what others created since the listing.              *)
CountInv ==
  /\ Counting => ClassSize <= autoCount + foreignSince
  /\ Creating => ClassSize <= autoCount + 1 + foreignSince
  /\ pc = "clone" \/ Creating => autoCount < MaxAutoRunners

(* The names are the listed ones, less removed, plus created; what is torn *)
(* down is one of them, and not visited again.                             *)
KnownInv ==
  /\ todo \subseteq known
  /\ Baseline \notin known
  /\ pc \in Teardown /\ after = "loop" => cur \in known /\ cur \notin todo

(* A service stands behind the registration.                               *)
Active(n) == n \in DOMAIN runner /\ runner[n] # "registered"

Runs(n) == n \in DOMAIN container /\ container[n] = "running"

(* Services live in running containers, and one being provisioned has none *)
(* yet, even where a registration of that name was left behind.            *)
Serving == \A n \in DOMAIN runner : Active(n) => Runs(n)
ServiceInv == Serving /\ (pc \in Provisioning => ~Active(cur))

(* What the loop takes for stopped has no service.  A listed "stopped" is  *)
(* trusted only when every status was read again.                          *)
Looping == pc = "loop" \/ (pc \in Teardown /\ after = "loop")

StoppedInv ==
  /\ pc \in Teardown /\ cur \in DOMAIN snap /\ snap[cur] = "busy" => ~Active(cur)
  /\ Looping /\ AvailableOnline = {} =>
       \A c \in todo : seen[c] = "stopped" => ~Active(c)

(* The three layers: types come first (FullType below), the cap rests on   *)
(* them, and the jobs on both.                                             *)
PassInv == PlaceInv /\ CountInv /\ KnownInv /\ CountCoversKnown
CapInv == PassInv /\ CapRespected
JobInv == ServiceInv /\ StoppedInv

(***************************************************************************)
(* Facts about the tables of LXD, GitHub and the state files               *)
(***************************************************************************)

(* f maps names to members of S.                                           *)
Table(f, S) == DOMAIN f \subseteq Nat /\ \A n \in DOMAIN f : f[n] \in S

(* Removing one.                                                           *)
LEMMA WithoutFacts ==
  ASSUME NEW f, NEW k
  PROVE  /\ DOMAIN Without(f, k) = DOMAIN f \ {k}
         /\ \A n \in DOMAIN f : n # k => Without(f, k)[n] = f[n]
BY DEF Without

(* Taking the service away from a registration.                            *)
LEMMA DetachedFacts ==
  ASSUME NEW f, NEW k
  PROVE  /\ DOMAIN Detached(f, k) = DOMAIN f
         /\ k \in DOMAIN f => Detached(f, k)[k] = "registered"
         /\ \A n \in DOMAIN f : n # k => Detached(f, k)[n] = f[n]
<1>1. CASE k \in DOMAIN f
  BY <1>1 DEF Detached, With
<1>2. CASE k \notin DOMAIN f
  BY <1>2 DEF Detached
<1>3. QED
  BY <1>1, <1>2

(* Setting, removing and detaching entries keeps a table a table,          *)
LEMMA TableWith ==
  ASSUME NEW f, NEW S, Table(f, S), NEW k \in Nat, NEW v \in S
  PROVE  Table(With(f, k, v), S)
BY DEF Table, With

LEMMA TableWithout ==
  ASSUME NEW f, NEW S, Table(f, S), NEW k
  PROVE  Table(Without(f, k), S)
BY DEF Table, Without

LEMMA TableDetached ==
  ASSUME NEW f, Table(f, RunnerStates), NEW k
  PROVE  Table(Detached(f, k), RunnerStates)
BY DetachedFacts DEF Table, RunnerStates

(* and so does the empty one.                                              *)
LEMMA TableEmpty == \A S : Table(Empty, S)
BY DEF Table, Empty

(* The same for the finiteness of its domain.                              *)
LEMMA FiniteWith ==
  ASSUME NEW f, IsFiniteSet(DOMAIN f), NEW k, NEW v
  PROVE  IsFiniteSet(DOMAIN With(f, k, v))
<1>1. IsFiniteSet(DOMAIN f \cup {k})
  BY FS_AddElement
<1>2. DOMAIN With(f, k, v) = DOMAIN f \cup {k}
  BY DEF With
<1>3. QED
  BY <1>1, <1>2

LEMMA FiniteWithout ==
  ASSUME NEW f, IsFiniteSet(DOMAIN f), NEW k
  PROVE  IsFiniteSet(DOMAIN Without(f, k))
<1>1. IsFiniteSet(DOMAIN f \ {k})
  BY FS_RemoveElement
<1>2. DOMAIN Without(f, k) = DOMAIN f \ {k}
  BY DEF Without
<1>3. QED
  BY <1>1, <1>2

LEMMA FiniteDetached ==
  ASSUME NEW f, IsFiniteSet(DOMAIN f), NEW k
  PROVE  IsFiniteSet(DOMAIN Detached(f, k))
BY DetachedFacts

LEMMA FiniteEmpty == IsFiniteSet(DOMAIN Empty) /\ IsFiniteSet({}) /\ DOMAIN Empty = {}
BY FS_EmptySet DEF Empty

(* The cardinalities the pass computes with are numbers.                   *)
LEMMA CountsAreNumbers ==
  ASSUME FiniteInv
  PROVE  /\ IsFiniteSet(AutoContainers) /\ Cardinality(AutoContainers) \in Nat
         /\ Cardinality(AvailableOnline) \in Nat
         /\ Cardinality(names) \in Nat /\ Cardinality(known) \in Nat
<1>1. IsFiniteSet(AutoContainers)
  BY FS_RemoveElement DEF FiniteInv, AutoContainers
<1>2. IsFiniteSet(AvailableOnline)
  <2>1. AvailableOnline \subseteq DOMAIN snap
    BY DEF AvailableOnline
  <2>2. QED
    BY <2>1, FS_Subset DEF FiniteInv
<1>3. QED
  BY <1>1, <1>2, FS_CardinalityType DEF FiniteInv

(***************************************************************************)
(* Type correctness, with the finiteness of what is counted                *)
(***************************************************************************)
WorldType ==
  /\ Table(container, ContainerStates) /\ IsFiniteSet(DOMAIN container)
  /\ Table(runner, RunnerStates) /\ IsFiniteSet(DOMAIN runner)
  /\ Table(lastActive, 0 .. AgeCap)

LoopType ==
  /\ pc \in Pcs
  /\ demand \in 0 .. MaxDemand
  /\ Table(snap, RunnerStates) /\ IsFiniteSet(DOMAIN snap)
  /\ basePending \in {0, 1}
  /\ Table(seen, Statuses)
  /\ todo \subseteq DOMAIN seen
  /\ known \subseteq Nat /\ IsFiniteSet(known)
  /\ removed \subseteq Nat
  /\ autoCount \in Int
  /\ pendingCapacity \in Nat
  /\ needed \in Int
  /\ elapsed \in 0 .. MaxPassTicks

StepType ==
  /\ cur \in Nat
  /\ after \in {"loop", "up", "baseline"}
  /\ names \subseteq Nat /\ IsFiniteSet(names)
  /\ attempt \in 0 .. 2

BoundType ==
  /\ faults \in 0 .. MaxFaults
  /\ foreign \in 0 .. MaxForeign
  /\ foreignSince \in 0 .. foreign

FullType == WorldType /\ LoopType /\ StepType /\ BoundType

(* The parts together are the type invariant and the finiteness.           *)
LEMMA FullTypeIsTypeOK == FullType <=> TypeOK /\ FiniteInv
BY DEF FullType, WorldType, LoopType, StepType, BoundType, TypeOK, FiniteInv, Table

(* The constants are numbers, and no age exceeds the largest one.          *)
LEMMA AgesOrdered ==
  /\ AgeCap \in Nat /\ Grace \in Nat
  /\ 0 \in 0 .. AgeCap
  /\ 0 .. MaxPassTicks \subseteq 0 .. AgeCap
  /\ \A a \in 0 .. AgeCap : Aged(a) \in 0 .. AgeCap
BY ConfigAssumption, BoundAssumption DEF AgeCap, Grace, Aged

(* The initial state is well typed.                                        *)
LEMMA FullTypeInit == Init => FullType
<1> SUFFICES ASSUME Init PROVE FullType
  OBVIOUS
<1>1. WorldType
  BY TableEmpty, FiniteEmpty DEF Init, WorldType
<1>2. LoopType
  BY TableEmpty, FiniteEmpty, BoundAssumption DEF Init, LoopType, Pcs
<1>3. StepType
  BY FiniteEmpty DEF Init, StepType, Baseline
<1>4. BoundType
  BY BoundAssumption DEF Init, BoundType
<1>5. QED
  BY <1>1, <1>2, <1>3, <1>4 DEF FullType

(* A counted fault stays within the bound.                                 *)
LEMMA CanFailType ==
  ASSUME BoundType, CanFail
  PROVE  faults' \in 0 .. MaxFaults
BY BoundAssumption DEF BoundType, CanFail

(* What the end of a pass leaves.                                          *)
LEMMA EndPassType ==
  ASSUME BoundType, EndPass, faults' \in 0 .. MaxFaults
  PROVE  LoopType' /\ StepType' /\ BoundType'
<1>1. LoopType'
  BY TableEmpty, FiniteEmpty, BoundAssumption DEF EndPass, LoopType, Pcs
<1>2. StepType'
  BY FiniteEmpty DEF EndPass, StepType, Baseline
<1>3. BoundType'
  BY BoundAssumption DEF EndPass, BoundType
<1>4. QED
  BY <1>1, <1>2, <1>3

(* What ensureBaseline's return leaves.                                    *)
LEMMA BaselineDoneType ==
  ASSUME FullType, NEW p \in {0, 1}, BaselineDone(p), faults' \in 0 .. MaxFaults
  PROVE  LoopType' /\ StepType' /\ BoundType'
<1>1. LoopType'
  BY DEF BaselineDone, FullType, LoopType, Pcs
<1>2. StepType'
  BY DEF BaselineDone, FullType, StepType, Baseline
<1>3. BoundType'
  BY DEF BaselineDone, FullType, BoundType
<1>4. QED
  BY <1>1, <1>2, <1>3

(* What an untouched part leaves.                                          *)
LEMMA Untouched ==
  ASSUME FullType
  PROVE  /\ UNCHANGED world => WorldType'
         /\ UNCHANGED <<pc, loopVars, elapsed>> => LoopType'
         /\ UNCHANGED stepVars => StepType'
         /\ UNCHANGED bounds => BoundType'
BY DEF FullType, WorldType, LoopType, StepType, BoundType, world, loopVars, stepVars, bounds

(* What a new status of a container leaves, with or without its service.   *)
LEMMA SetContainer ==
  ASSUME FullType, NEW n \in Nat, NEW s \in ContainerStates
  PROVE  /\ container' = With(container, n, s)
              => Table(container, ContainerStates)' /\ IsFiniteSet(DOMAIN container)'
         /\ container' = Without(container, n)
              => Table(container, ContainerStates)' /\ IsFiniteSet(DOMAIN container)'
         /\ container' = container
              => Table(container, ContainerStates)' /\ IsFiniteSet(DOMAIN container)'
<1>1. Table(container, ContainerStates) /\ IsFiniteSet(DOMAIN container)
  BY DEF FullType, WorldType
<1>2. /\ Table(With(container, n, s), ContainerStates)
      /\ IsFiniteSet(DOMAIN With(container, n, s))
  BY <1>1, TableWith, FiniteWith
<1>3. /\ Table(Without(container, n), ContainerStates)
      /\ IsFiniteSet(DOMAIN Without(container, n))
  BY <1>1, TableWithout, FiniteWithout
<1>4. QED
  BY <1>1, <1>2, <1>3

(* The same for a registration,                                            *)
LEMMA SetRunner ==
  ASSUME FullType, NEW n \in Nat, NEW s \in RunnerStates
  PROVE  /\ runner' = With(runner, n, s)
              => Table(runner, RunnerStates)' /\ IsFiniteSet(DOMAIN runner)'
         /\ runner' = Without(runner, n)
              => Table(runner, RunnerStates)' /\ IsFiniteSet(DOMAIN runner)'
         /\ runner' = Detached(runner, n)
              => Table(runner, RunnerStates)' /\ IsFiniteSet(DOMAIN runner)'
         /\ runner' = runner
              => Table(runner, RunnerStates)' /\ IsFiniteSet(DOMAIN runner)'
<1>1. Table(runner, RunnerStates) /\ IsFiniteSet(DOMAIN runner)
  BY DEF FullType, WorldType
<1>2. Table(With(runner, n, s), RunnerStates) /\ IsFiniteSet(DOMAIN With(runner, n, s))
  BY <1>1, TableWith, FiniteWith
<1>3. Table(Without(runner, n), RunnerStates) /\ IsFiniteSet(DOMAIN Without(runner, n))
  BY <1>1, TableWithout, FiniteWithout
<1>4. Table(Detached(runner, n), RunnerStates) /\ IsFiniteSet(DOMAIN Detached(runner, n))
  BY <1>1, TableDetached, FiniteDetached
<1>5. QED
  BY <1>1, <1>2, <1>3, <1>4

(* and for a state file.                                                   *)
LEMMA SetLastActive ==
  ASSUME FullType, NEW n \in Nat, NEW a \in 0 .. AgeCap
  PROVE  /\ lastActive' = With(lastActive, n, a) => Table(lastActive, 0 .. AgeCap)'
         /\ lastActive' = Without(lastActive, n) => Table(lastActive, 0 .. AgeCap)'
         /\ lastActive' = lastActive => Table(lastActive, 0 .. AgeCap)'
<1>1. Table(lastActive, 0 .. AgeCap)
  BY DEF FullType, WorldType
<1>2. Table(With(lastActive, n, a), 0 .. AgeCap) /\ Table(Without(lastActive, n), 0 .. AgeCap)
  BY <1>1, TableWith, TableWithout
<1>3. QED
  BY <1>1, <1>2

(* A step is one of these.                                                 *)
LEMMA StepCases ==
  ASSUME [Next]_vars,
         NEW P,
         UNCHANGED vars => P,
         \A d \in 0 .. MaxDemand : StartPass(d) => P,
         Crash => P,
         BaselineOnline \/ BaselineListFails => P,
         BaselineStarting => P,
         BaselineStale \/ BaselineMissing => P,
         CloneBaseline => P,
         ListAuto => P,
         ListFails => P,
         EndLoop => P,
         \A c \in todo : SkipUnreadable(c) => P,
         \A c \in todo, status \in Statuses : VisitStopped(c, status) => P,
         \A c \in todo, status \in Statuses : VisitBusy(c, status) => P,
         \A c \in todo, status \in Statuses : VisitOrphan(c, status) => P,
         \A c \in todo, status \in Statuses : VisitIdle(c, status) => P,
         Deregister => P,
         Destroy => P,
         NoScaleUp => P,
         RequestScaleUp => P,
         \A name \in 1 .. Cardinality(names) + 1 : CloneSucceeds(name) => P,
         \A name \in 1 .. Cardinality(names) + 1 : CloneFails(name) => P,
         \A name \in 1 .. Cardinality(names) + 1 : CloneConflict(name) => P,
         BootRunner => P,
         RegisterRunner => P,
         StartService => P,
         Tick => P,
         \A n \in DOMAIN runner :
           RunnerConnects(n) \/ RunnerDisconnects(n) \/ JobAssigned(n) \/ JobFinished(n) => P,
         \A n \in DOMAIN container : ContainerStops(n) => P,
         \A n \in DOMAIN container : ForeignDelete(n) => P,
         \A n \in DOMAIN lastActive : StateFileLost(n) => P,
         \A n \in 1 .. MaxAutoRunners + MaxForeign : ForeignCreate(n) => P
  PROVE  P
<1>1. BaselineStep => P
  BY DEF BaselineStep
<1>2. LoopStep => P
  BY DEF LoopStep
<1>3. UpStep => P
  BY DEF UpStep
<1>4. PassStep => P
  BY <1>1, <1>2, <1>3 DEF PassStep
<1>5. WorldStep => P
  BY DEF WorldStep
<1>6. QED
  BY <1>4, <1>5 DEF Next

(* The loop's view of c changes only in these ways.                        *)
LEMMA VisitType ==
  ASSUME FullType, NEW c \in todo, LoopFrame, Visited(c) \/ BeginScaleDown(c),
         pendingCapacity' \in Nat, faults' \in 0 .. MaxFaults,
         Table(lastActive, 0 .. AgeCap)'
  PROVE  FullType'
<1>1. WorldType'
  BY DEF LoopFrame, FullType, WorldType
<1>2. LoopType'
  BY DEF LoopFrame, Visited, BeginScaleDown, FullType, LoopType, Pcs
<1>3. c \in Nat
  BY DEF FullType, LoopType, Table
<1>4. StepType'
  BY <1>3 DEF LoopFrame, Visited, BeginScaleDown, FullType, StepType
<1>5. BoundType'
  BY DEF LoopFrame, FullType, BoundType
<1>6. QED
  BY <1>1, <1>2, <1>4, <1>5 DEF FullType

(* What SetLastActive writes for c, or fails to.                           *)
LEMMA SavedType ==
  ASSUME FullType, NEW c \in todo, NEW status,
         Saved(c, status, With(lastActive, c, elapsed)) \/ Saved(c, status, Touched(c))
  PROVE  Table(lastActive, 0 .. AgeCap)' /\ faults' \in 0 .. MaxFaults
<1>1. c \in Nat /\ elapsed \in 0 .. AgeCap
  BY AgesOrdered DEF FullType, LoopType, Table
<1>2. faults' \in 0 .. MaxFaults
  BY CanFailType DEF Saved, FullType, BoundType
<1>3. \/ lastActive' = lastActive
      \/ lastActive' = With(lastActive, c, elapsed)
  BY DEF Saved, Touched
<1>4. QED
  BY <1>1, <1>2, <1>3, SetLastActive

(* What cleanupFailedScaleUp leaves.                                       *)
LEMMA StepFailsType ==
  ASSUME FullType, NEW working, StepFails(working)
  PROVE  /\ Table(container, ContainerStates)' /\ IsFiniteSet(DOMAIN container)'
         /\ LoopType' /\ StepType' /\ BoundType'
<1>1. faults' \in 0 .. MaxFaults
  BY CanFailType DEF StepFails, FullType, BoundType
<1>2. LoopType' /\ StepType' /\ BoundType'
  BY <1>1, EndPassType, BaselineDoneType DEF StepFails, ProvisionFailed, FullType
<1>3. Table(container, ContainerStates)' /\ IsFiniteSet(DOMAIN container)'
  <2>1. cur \in Nat /\ "stopped" \in ContainerStates
    BY DEF FullType, StepType, ContainerStates
  <2>2. \/ container' = container
        \/ container' = With(container, cur, "stopped")
        \/ container' = Without(container, cur)
    BY DEF StepFails
  <2>3. QED
    BY <2>1, <2>2, SetContainer
<1>4. QED
  BY <1>2, <1>3

(* Every step keeps the types.                                             *)
LEMMA FullTypeStep == FullType /\ [Next]_vars => FullType'
<1> SUFFICES ASSUME FullType, [Next]_vars PROVE FullType'
  OBVIOUS
<1> USE AgesOrdered
<1>0. /\ "stopped" \in ContainerStates /\ "running" \in ContainerStates
      /\ RunnerStates = {"registered", "offline", "idle", "busy"}
      /\ Baseline \in Nat /\ cur \in Nat
      /\ faults \in 0 .. MaxFaults /\ faults' \in {faults} => faults' \in 0 .. MaxFaults
      /\ DOMAIN container \subseteq Nat /\ DOMAIN runner \subseteq Nat
      /\ DOMAIN lastActive \subseteq Nat
  BY DEF ContainerStates, RunnerStates, Baseline, FullType, WorldType, StepType,
         BoundType, Table
<1>1. UNCHANGED vars => FullType'
  BY Untouched DEF vars, FullType
<1>2. \A d \in 0 .. MaxDemand : StartPass(d) => FullType'
  <2> SUFFICES ASSUME NEW d \in 0 .. MaxDemand, StartPass(d) PROVE FullType'
    OBVIOUS
  <2>1. WorldType' /\ StepType' /\ BoundType'
    BY Untouched DEF StartPass
  <2>2. LoopType'
    BY DEF StartPass, FullType, WorldType, LoopType, Pcs
  <2>3. QED
    BY <2>1, <2>2 DEF FullType
<1>3. Crash => FullType'
  BY Untouched, CanFailType, EndPassType DEF Crash, FullType
<1>4. BaselineOnline \/ BaselineListFails => FullType'
  <2>1. BaselineOnline => FullType'
    BY Untouched, BaselineDoneType DEF BaselineOnline, FullType, BoundType
  <2>2. BaselineListFails => FullType'
    BY Untouched, BaselineDoneType, CanFailType DEF BaselineListFails, FullType
  <2>3. QED
    BY <2>1, <2>2
<1>5. BaselineStarting => FullType'
  <2> SUFFICES ASSUME BaselineStarting PROVE FullType'
    OBVIOUS
  <2>1. faults' \in 0 .. MaxFaults
    BY CanFailType DEF BaselineStarting, FullType, BoundType
  <2>2. LoopType' /\ StepType' /\ BoundType'
    BY <2>1, BaselineDoneType DEF BaselineStarting
  <2>3. Table(lastActive, 0 .. AgeCap)'
    <3>1. lastActive' = lastActive \/ lastActive' = With(lastActive, Baseline, 0)
      BY DEF BaselineStarting
    <3>2. QED
      BY <1>0, <3>1, SetLastActive
  <2>4. QED
    BY <2>2, <2>3 DEF BaselineStarting, FullType, WorldType
<1>6. BaselineStale \/ BaselineMissing => FullType'
  <2> SUFFICES ASSUME BaselineStale \/ BaselineMissing PROVE FullType'
    OBVIOUS
  <2>1. faults' \in 0 .. MaxFaults
    BY CanFailType DEF BaselineStale, BaselineMissing, FullType, BoundType, bounds
  <2>2. WorldType'
    BY Untouched DEF BaselineStale, BaselineMissing
  <2>3. LoopType'
    BY DEF BaselineStale, BaselineMissing, FullType, LoopType, Pcs, loopVars
  <2>4. StepType' /\ BoundType'
    <3>1. /\ cur' \in {cur, Baseline} /\ after' \in {after, "baseline"}
          /\ names' = names /\ attempt' = attempt
      BY DEF BaselineStale, BaselineMissing, stepVars
    <3>2. foreign' = foreign /\ foreignSince' = foreignSince
      BY DEF BaselineStale, BaselineMissing, bounds
    <3>3. QED
      BY <2>1, <3>1, <3>2 DEF FullType, StepType, BoundType, Baseline
  <2>5. QED
    BY <2>2, <2>3, <2>4 DEF FullType
<1>7. CloneBaseline => FullType'
  <2> SUFFICES ASSUME CloneBaseline PROVE FullType'
    OBVIOUS
  <2>1. container' = container \/ container' = With(container, Baseline, "stopped")
    BY DEF CloneBaseline
  <2>2. WorldType'
    BY <1>0, <2>1, SetContainer DEF CloneBaseline, FullType, WorldType
  <2>3. CASE UNCHANGED <<loopVars, elapsed, names, attempt, bounds>>
    <3>1. pc' \in Pcs /\ cur' \in Nat /\ after' \in {"loop", "up", "baseline"}
      BY DEF CloneBaseline, BaselineDone, Pcs, Baseline
    <3>2. LoopType' /\ StepType' /\ BoundType'
      BY <2>3, <3>1 DEF FullType, LoopType, StepType, BoundType, loopVars, bounds
    <3>3. QED
      BY <2>2, <3>2 DEF FullType
  <2>4. CASE CanFail /\ BaselineDone(0)
    BY <2>2, <2>4, CanFailType, BaselineDoneType DEF FullType
  <2>5. QED
    BY <2>3, <2>4 DEF CloneBaseline
<1>8. ListAuto => FullType'
  <2> SUFFICES ASSUME ListAuto PROVE FullType'
    OBVIOUS
  <2>1. faults' \in 0 .. MaxFaults
    BY CanFailType DEF ListAuto, FullType, BoundType
  <2>2. WorldType' /\ StepType'
    BY Untouched DEF ListAuto
  <2>3. IsFiniteSet(AutoContainers) /\ Cardinality(AutoContainers) \in Nat
    BY CountsAreNumbers, FullTypeIsTypeOK
  <2>4. AutoContainers \subseteq Nat
    BY <1>0 DEF AutoContainers
  <2>5. Table(seen, Statuses)' /\ DOMAIN seen' = AutoContainers
    <3>1. PICK wrong \in SUBSET AutoContainers, s \in {"stopped", "unknown"} :
            seen' = [n \in AutoContainers |-> IF n \in wrong THEN s ELSE container[n]]
      BY DEF ListAuto
    <3>2. \A n \in AutoContainers : container[n] \in Statuses
      BY DEF AutoContainers, FullType, WorldType, Table, Statuses
    <3>3. QED
      BY <3>1, <3>2, <2>4 DEF Table, Statuses, ContainerStates
  <2>6. LoopType'
    BY <2>3, <2>4, <2>5, BoundAssumption DEF ListAuto, FullType, LoopType, Pcs
  <2>7. BoundType'
    BY <2>1 DEF ListAuto, FullType, BoundType
  <2>8. QED
    BY <2>2, <2>6, <2>7 DEF FullType
<1>9. ListFails => FullType'
  BY Untouched, CanFailType, EndPassType DEF ListFails, FullType
<1>10. EndLoop => FullType'
  <2> SUFFICES ASSUME EndLoop PROVE FullType'
    OBVIOUS
  <2>1. WorldType' /\ StepType' /\ BoundType'
    BY Untouched DEF EndLoop
  <2>2. Cardinality(AvailableOnline) \in Nat
    BY CountsAreNumbers, FullTypeIsTypeOK
  <2>3. needed' \in Int
    BY <2>2 DEF EndLoop, FullType, LoopType
  <2>4. LoopType'
    BY <2>3, TableEmpty, FiniteEmpty, BoundAssumption DEF EndLoop, FullType, LoopType, Pcs
  <2>5. QED
    BY <2>1, <2>4 DEF FullType
<1>11. \A c \in todo : SkipUnreadable(c) => FullType'
  <2> SUFFICES ASSUME NEW c \in todo, SkipUnreadable(c) PROVE FullType'
    OBVIOUS
  <2>1. faults' \in 0 .. MaxFaults
    BY CanFailType DEF SkipUnreadable, FullType, BoundType
  <2>2. QED
    BY <2>1, VisitType DEF SkipUnreadable, FullType, WorldType, LoopType
<1>12. \A c \in todo, status \in Statuses : VisitStopped(c, status) => FullType'
  <2> SUFFICES ASSUME NEW c \in todo, NEW status \in Statuses, VisitStopped(c, status)
               PROVE  FullType'
    OBVIOUS
  <2>1. QED
    BY VisitType DEF VisitStopped, FullType, WorldType, LoopType, BoundType
<1>13. \A c \in todo, status \in Statuses : VisitBusy(c, status) => FullType'
  <2> SUFFICES ASSUME NEW c \in todo, NEW status \in Statuses, VisitBusy(c, status)
               PROVE  FullType'
    OBVIOUS
  <2>1. QED
    BY VisitType, SavedType DEF VisitBusy, FullType, LoopType
<1>14. \A c \in todo, status \in Statuses : VisitOrphan(c, status) => FullType'
  <2> SUFFICES ASSUME NEW c \in todo, NEW status \in Statuses, VisitOrphan(c, status)
               PROVE  FullType'
    OBVIOUS
  <2>1. QED
    BY VisitType, SavedType DEF VisitOrphan, FullType, LoopType
<1>15. \A c \in todo, status \in Statuses : VisitIdle(c, status) => FullType'
  <2> SUFFICES ASSUME NEW c \in todo, NEW status \in Statuses, VisitIdle(c, status)
               PROVE  FullType'
    OBVIOUS
  <2>1. pendingCapacity' \in Nat
    BY DEF VisitIdle, FullType, LoopType
  <2>2. QED
    BY <2>1, VisitType, SavedType DEF VisitIdle
<1>16. Deregister => FullType'
  <2> SUFFICES ASSUME Deregister PROVE FullType'
    OBVIOUS
  <2>1. faults' \in 0 .. MaxFaults
    BY CanFailType DEF Deregister, FullType, BoundType
  <2>2. \/ runner' = runner \/ runner' = Without(runner, cur)
        \/ runner' = Detached(runner, cur)
    BY DEF Deregister
  <2>3. WorldType'
    BY <1>0, <2>2, SetRunner DEF Deregister, FullType, WorldType
  <2>4. LoopType'
    BY DEF Deregister, FullType, LoopType, Pcs, loopVars
  <2>5. StepType' /\ BoundType'
    BY <2>1, Untouched DEF Deregister, FullType, BoundType
  <2>6. QED
    BY <2>3, <2>4, <2>5 DEF FullType
<1>17. Destroy => FullType'
  <2> SUFFICES ASSUME Destroy PROVE FullType'
    OBVIOUS
  <2>1. faults' \in 0 .. MaxFaults
    BY CanFailType DEF Destroy, FullType, BoundType
  <2>2. /\ \/ container' = container \/ container' = Without(container, cur)
           \/ container' = With(container, cur, "stopped")
        /\ runner' = runner \/ runner' = Detached(runner, cur)
        /\ lastActive' = lastActive \/ lastActive' = Without(lastActive, cur)
    BY DEF Destroy
  <2>3. WorldType'
    BY <1>0, <2>2, SetContainer, SetRunner, SetLastActive DEF WorldType
  <2>4. ScaleDownDeleted => LoopType' /\ StepType' /\ BoundType'
    <3> SUFFICES ASSUME ScaleDownDeleted PROVE LoopType' /\ StepType' /\ BoundType'
      OBVIOUS
    <3>1. IsFiniteSet(known \ {cur})
      BY FS_RemoveElement DEF FullType, LoopType
    <3>2. CASE after = "loop"
      <4>1. /\ pc' = "loop" /\ CountRemoved /\ cur' = Baseline
            /\ UNCHANGED <<demand, snap, basePending, seen, todo, pendingCapacity, needed,
                           elapsed, after, names, attempt, foreign, foreignSince>>
        BY <3>2 DEF ScaleDownDeleted
      <4>2. /\ known' = known \ {cur} /\ autoCount' = autoCount - 1
            /\ removed' = removed \cup {cur}
        BY <4>1 DEF CountRemoved
      <4>5. LoopType'
        <5>1. known \subseteq Nat /\ autoCount \in Int
          BY DEF FullType, LoopType
        <5>2. IsFiniteSet(known')
          BY <3>1, <4>2, Zenon
        <5>3. known' \subseteq Nat
          BY <4>2, <5>1
        <5>4. autoCount' \in Int
          BY <4>2, <5>1
        <5>5. removed' \subseteq Nat
          BY <4>2 DEF FullType, LoopType, StepType
        <5>6. QED
          BY <4>1, <5>2, <5>3, <5>4, <5>5 DEF FullType, LoopType, Pcs
      <4>3. StepType' /\ BoundType'
        BY <2>1, <4>1 DEF FullType, StepType, BoundType, Baseline
      <4>4. QED
        BY <4>3, <4>5
    <3>3. CASE after # "loop"
      <4>1. /\ pc' = "cloneBaseline"
            /\ UNCHANGED <<loopVars, elapsed, stepVars, foreign, foreignSince>>
        BY <3>3 DEF ScaleDownDeleted
      <4>2. LoopType' /\ StepType'
        BY <4>1, Untouched DEF FullType, LoopType, Pcs, loopVars
      <4>3. BoundType'
        BY <2>1, <4>1 DEF FullType, BoundType
      <4>4. QED
        BY <4>2, <4>3
    <3>4. QED
      BY <3>2, <3>3
  <2>5. ScaleDownKept => LoopType' /\ StepType' /\ BoundType'
    <3>1. CASE after = "loop" /\ pc' = "loop" /\ cur' = Baseline /\
               UNCHANGED <<loopVars, elapsed, after, names, attempt, foreign, foreignSince>>
      BY <2>1, <3>1 DEF FullType, LoopType, StepType, BoundType, Pcs, Baseline, loopVars
    <3>2. CASE BaselineDone(0)
      BY <2>1, <3>2, BaselineDoneType
    <3>3. QED
      BY <3>1, <3>2 DEF ScaleDownKept
  <2>6. QED
    BY <2>3, <2>4, <2>5 DEF Destroy, FullType
<1>18. NoScaleUp => FullType'
  BY Untouched, EndPassType DEF NoScaleUp, FullType, BoundType
<1>19. RequestScaleUp => FullType'
  <2> SUFFICES ASSUME RequestScaleUp PROVE FullType'
    OBVIOUS
  <2>1. WorldType'
    BY Untouched DEF RequestScaleUp
  <2>2. CASE CanFail /\ EndPass
    BY <2>1, <2>2, CanFailType, EndPassType DEF FullType
  <2>3. CASE /\ pc' = "clone" /\ after' = "up" /\ names' = known /\ attempt' = 0
             /\ UNCHANGED <<loopVars, elapsed, cur, bounds>>
    <3>1. LoopType' /\ StepType' /\ BoundType'
      BY <2>3 DEF FullType, LoopType, StepType, BoundType, Pcs, loopVars, bounds
    <3>2. QED
      BY <2>1, <3>1 DEF FullType
  <2>4. QED
    BY <2>2, <2>3 DEF RequestScaleUp
<1>20. \A name \in 1 .. Cardinality(names) + 1 : CloneSucceeds(name) => FullType'
  <2> SUFFICES ASSUME NEW name \in 1 .. Cardinality(names) + 1, CloneSucceeds(name)
               PROVE  FullType'
    OBVIOUS
  <2>1. name \in Nat
    BY CountsAreNumbers, FullTypeIsTypeOK
  <2>2. WorldType'
    BY <1>0, <2>1, SetContainer DEF CloneSucceeds, FullType, WorldType
  <2>3. LoopType' /\ StepType' /\ BoundType'
    BY <2>1, FiniteEmpty DEF CloneSucceeds, FullType, LoopType, StepType, BoundType, Pcs,
                             loopVars, bounds
  <2>4. QED
    BY <2>2, <2>3 DEF FullType
<1>21. \A name \in 1 .. Cardinality(names) + 1 : CloneFails(name) => FullType'
  <2> SUFFICES ASSUME NEW name \in 1 .. Cardinality(names) + 1, CloneFails(name)
               PROVE  FullType'
    OBVIOUS
  <2>1. name \in Nat
    BY CountsAreNumbers, FullTypeIsTypeOK
  <2>2. container' = container \/ container' = With(container, name, "stopped")
    BY DEF CloneFails
  <2>3. WorldType'
    BY <1>0, <2>1, <2>2, SetContainer DEF CloneFails, FullType, WorldType
  <2>4. QED
    BY <2>3, CanFailType, EndPassType DEF CloneFails, FullType
<1>22. \A name \in 1 .. Cardinality(names) + 1 : CloneConflict(name) => FullType'
  <2> SUFFICES ASSUME NEW name \in 1 .. Cardinality(names) + 1, CloneConflict(name)
               PROVE  FullType'
    OBVIOUS
  <2>1. WorldType'
    BY Untouched DEF CloneConflict
  <2>2. CASE EndPass
    <3>1. faults' \in 0 .. MaxFaults
      BY <2>2, CanFailType DEF CloneConflict, FullType, BoundType, bounds
    <3>2. QED
      BY <2>1, <2>2, <3>1, EndPassType DEF FullType
  <2>3. CASE /\ attempt < 2 /\ names' = AutoContainers /\ attempt' = attempt + 1
             /\ UNCHANGED <<pc, loopVars, elapsed, cur, after, bounds>>
    <3>1. IsFiniteSet(AutoContainers) /\ AutoContainers \subseteq Nat
      BY <1>0, CountsAreNumbers, FullTypeIsTypeOK DEF AutoContainers
    <3>2. StepType'
      BY <2>3, <3>1 DEF FullType, StepType
    <3>3. LoopType' /\ BoundType'
      BY <2>3, Untouched
    <3>4. QED
      BY <2>1, <3>2, <3>3 DEF FullType
  <2>4. QED
    BY <2>2, <2>3 DEF CloneConflict
<1>23. BootRunner => FullType'
  <2> SUFFICES ASSUME BootRunner PROVE FullType'
    OBVIOUS
  <2>1. CASE StepFails(cur \in DOMAIN container)
    BY <2>1, StepFailsType DEF BootRunner, FullType, WorldType
  <2>2. CASE /\ container' = With(container, cur, "running") /\ pc' = "register"
             /\ UNCHANGED <<loopVars, elapsed, stepVars, bounds>>
    <3>1. WorldType'
      BY <1>0, <2>2, SetContainer DEF BootRunner, FullType, WorldType
    <3>2. LoopType' /\ StepType' /\ BoundType'
      BY <2>2, Untouched DEF FullType, LoopType, Pcs, loopVars
    <3>3. QED
      BY <3>1, <3>2 DEF FullType
  <2>3. QED
    BY <2>1, <2>2 DEF BootRunner
<1>24. RegisterRunner => FullType'
  <2> SUFFICES ASSUME RegisterRunner PROVE FullType'
    OBVIOUS
  <2>1. runner' = runner \/ runner' = With(runner, cur, "registered")
    BY DEF RegisterRunner
  <2>2. Table(runner, RunnerStates)' /\ IsFiniteSet(DOMAIN runner)'
    BY <1>0, <2>1, SetRunner
  <2>3. CASE StepFails(CurRunning)
    BY <2>2, <2>3, StepFailsType DEF RegisterRunner, FullType, WorldType
  <2>4. CASE pc' = "service" /\ UNCHANGED <<container, loopVars, elapsed, stepVars, bounds>>
    <3>1. WorldType'
      BY <2>2, <2>4 DEF RegisterRunner, FullType, WorldType
    <3>2. LoopType' /\ StepType' /\ BoundType'
      BY <2>4, Untouched DEF FullType, LoopType, Pcs, loopVars
    <3>3. QED
      BY <3>1, <3>2 DEF FullType
  <2>5. QED
    BY <2>3, <2>4 DEF RegisterRunner
<1>25. StartService => FullType'
  <2> SUFFICES ASSUME StartService PROVE FullType'
    OBVIOUS
  <2>1. CASE StepFails(CurRunning) /\ UNCHANGED <<runner, lastActive>>
    BY <2>1, StepFailsType DEF FullType, WorldType
  <2>2. CASE ~(StepFails(CurRunning) /\ UNCHANGED <<runner, lastActive>>)
    <3>1. /\ runner' = runner \/ runner' = With(runner, cur, "offline")
          /\ lastActive' = lastActive \/ lastActive' = With(lastActive, cur, 0)
          /\ container' = container
      BY <2>2 DEF StartService
    <3>2. WorldType'
      BY <1>0, <3>1, SetRunner, SetLastActive DEF FullType, WorldType
    <3>3. faults' \in 0 .. MaxFaults
      BY <2>2, CanFailType DEF StartService, FullType, BoundType
    <3>4. CASE BaselineDone(1)
      BY <3>2, <3>3, <3>4, BaselineDoneType DEF FullType
    <3>5. CASE ~BaselineDone(1)
      <4>1. IsFiniteSet(known \cup {cur}) /\ known \cup ({cur} \ removed) \subseteq known \cup {cur}
        BY FS_AddElement DEF FullType, LoopType
      <4>5. IsFiniteSet(known \cup ({cur} \ removed))
        BY <4>1, FS_Subset, Zenon
      <4>6. /\ known' = known \cup ({cur} \ removed) /\ autoCount' = autoCount + 1
            /\ needed' = needed - 1 /\ pc' = "up"
            /\ UNCHANGED <<demand, snap, basePending, seen, todo, removed, pendingCapacity, elapsed>>
        BY <2>2, <3>5 DEF StartService
      <4>7. IsFiniteSet(known')
        BY <4>5, <4>6, Zenon
      <4>8. known' \subseteq Nat
        BY <4>6 DEF FullType, LoopType, StepType
      <4>2. LoopType'
        BY <4>6, <4>7, <4>8 DEF FullType, LoopType, Pcs
      <4>3. StepType' /\ BoundType'
        <5>1. /\ cur' = Baseline /\ after' = "loop"
              /\ UNCHANGED <<names, attempt, foreign, foreignSince>>
          BY <2>2, <3>5 DEF StartService
        <5>2. QED
          BY <3>3, <5>1 DEF FullType, StepType, BoundType, Baseline
      <4>4. QED
        BY <3>2, <4>2, <4>3 DEF FullType
    <3>6. QED
      BY <3>4, <3>5
  <2>3. QED
    BY <2>1, <2>2
<1>26. Tick => FullType'
  <2> SUFFICES ASSUME Tick PROVE FullType'
    OBVIOUS
  <2>1. Table(lastActive, 0 .. AgeCap)'
    BY DEF Tick, FullType, WorldType, Table
  <2>2. WorldType'
    BY <2>1 DEF Tick, FullType, WorldType
  <2>3. StepType' /\ BoundType'
    BY Untouched DEF Tick, PassVars
  <2>4. elapsed' \in 0 .. MaxPassTicks
    BY BoundAssumption DEF Tick, FullType, LoopType
  <2>5. LoopType'
    BY <2>4 DEF Tick, PassVars, FullType, LoopType, loopVars
  <2>6. QED
    BY <2>2, <2>3, <2>5 DEF FullType
<1>27. \A n \in DOMAIN runner :
         RunnerConnects(n) \/ RunnerDisconnects(n) \/ JobAssigned(n) \/ JobFinished(n) => FullType'
  <2> SUFFICES ASSUME NEW n \in DOMAIN runner,
                      RunnerConnects(n) \/ RunnerDisconnects(n) \/ JobAssigned(n) \/ JobFinished(n)
               PROVE  FullType'
    OBVIOUS
  <2>1. /\ \/ runner' = With(runner, n, "idle") \/ runner' = With(runner, n, "offline")
           \/ runner' = With(runner, n, "busy") \/ runner' = Without(runner, n)
        /\ UNCHANGED <<container, lastActive, PassVars, elapsed, bounds>>
    BY DEF RunnerConnects, RunnerDisconnects, JobAssigned, JobFinished, RunnerMoves
  <2>2. Table(runner, RunnerStates)' /\ IsFiniteSet(DOMAIN runner)'
    BY <1>0, <2>1, SetRunner
  <2>3. WorldType' /\ LoopType' /\ StepType' /\ BoundType'
    BY <2>1, <2>2, Untouched DEF FullType, WorldType, PassVars
  <2>4. QED
    BY <2>3 DEF FullType
<1>28. \A n \in DOMAIN container : ContainerStops(n) => FullType'
  <2> SUFFICES ASSUME NEW n \in DOMAIN container, ContainerStops(n) PROVE FullType'
    OBVIOUS
  <2>1. Table(runner, RunnerStates)' /\ IsFiniteSet(DOMAIN runner)'
    BY <1>0, SetRunner DEF ContainerStops
  <2>2. Table(container, ContainerStates)' /\ IsFiniteSet(DOMAIN container)'
    BY <1>0, SetContainer DEF ContainerStops
  <2>3. faults' \in 0 .. MaxFaults
    BY CanFailType DEF ContainerStops, FullType, BoundType
  <2>4. WorldType' /\ LoopType' /\ StepType' /\ BoundType'
    BY <2>1, <2>2, <2>3, Untouched DEF ContainerStops, FullType, WorldType, BoundType, PassVars
  <2>5. QED
    BY <2>4 DEF FullType
<1>29. \A n \in DOMAIN container : ForeignDelete(n) => FullType'
  <2> SUFFICES ASSUME NEW n \in DOMAIN container, ForeignDelete(n) PROVE FullType'
    OBVIOUS
  <2>1. Table(runner, RunnerStates)' /\ IsFiniteSet(DOMAIN runner)'
    BY <1>0, SetRunner DEF ForeignDelete
  <2>2. Table(container, ContainerStates)' /\ IsFiniteSet(DOMAIN container)'
    BY <1>0, SetContainer DEF ForeignDelete
  <2>3. faults' \in 0 .. MaxFaults
    BY CanFailType DEF ForeignDelete, FullType
  <2>4. WorldType' /\ LoopType' /\ StepType' /\ BoundType'
    BY <2>1, <2>2, <2>3, Untouched DEF ForeignDelete, FullType, WorldType, BoundType, PassVars
  <2>5. QED
    BY <2>4 DEF FullType
<1>30. \A n \in DOMAIN lastActive : StateFileLost(n) => FullType'
  <2> SUFFICES ASSUME NEW n \in DOMAIN lastActive, StateFileLost(n) PROVE FullType'
    OBVIOUS
  <2>1. Table(lastActive, 0 .. AgeCap)'
    BY <1>0, SetLastActive DEF StateFileLost
  <2>2. faults' \in 0 .. MaxFaults
    BY CanFailType DEF StateFileLost, FullType
  <2>3. WorldType' /\ LoopType' /\ StepType' /\ BoundType'
    BY <2>1, <2>2, Untouched DEF StateFileLost, FullType, WorldType, BoundType, PassVars
  <2>4. QED
    BY <2>3 DEF FullType
<1>31. \A n \in 1 .. MaxAutoRunners + MaxForeign : ForeignCreate(n) => FullType'
  <2> SUFFICES ASSUME NEW n \in 1 .. MaxAutoRunners + MaxForeign, ForeignCreate(n)
               PROVE  FullType'
    OBVIOUS
  <2>1. n \in Nat
    BY ConfigAssumption, BoundAssumption
  <2>2. Table(container, ContainerStates)' /\ IsFiniteSet(DOMAIN container)'
    BY <1>0, <2>1, SetContainer DEF ForeignCreate
  <2>3. BoundType'
    BY BoundAssumption DEF ForeignCreate, FullType, BoundType
  <2>4. WorldType' /\ LoopType' /\ StepType'
    BY <2>2, Untouched DEF ForeignCreate, FullType, WorldType, PassVars
  <2>5. QED
    BY <2>3, <2>4 DEF FullType
<1>32. QED
  BY <1>1, <1>2, <1>3, <1>4, <1>5, <1>6, <1>7, <1>8, <1>9, <1>10, <1>11, <1>12, <1>13,
     <1>14, <1>15, <1>16, <1>17, <1>18, <1>19, <1>20, <1>21, <1>22, <1>23, <1>24, <1>25,
     <1>26, <1>27, <1>28, <1>29, <1>30, <1>31, StepCases

(* Every reachable state is well typed, and the class and everything the   *)
(* pass counts stay finite, so its comparisons are between numbers.        *)
THEOREM ReconcilerTypeCorrect == Spec => []TypeOK
<1>1. FullType => TypeOK
  BY FullTypeIsTypeOK
<1>2. QED
  BY <1>1, FullTypeInit, FullTypeStep, PTL DEF Spec

(***************************************************************************)
(* The cap                                                                 *)
(***************************************************************************)
(* The sizes compared are numbers, before and after a step.                *)
SizesOK ==
  /\ ClassSize \in Nat /\ IsFiniteSet(AutoContainers)
  /\ Cardinality(known) \in Nat /\ IsFiniteSet(known)
  /\ autoCount \in Int /\ foreign \in Nat /\ foreignSince \in 0 .. foreign
  /\ MaxAutoRunners \in Nat /\ MaxForeign \in Nat

LEMMA Sizes == FullType => SizesOK
<1> SUFFICES ASSUME FullType PROVE SizesOK
  OBVIOUS
<1>1. foreign \in Nat /\ foreignSince \in 0 .. foreign /\ autoCount \in Int
  BY BoundAssumption DEF FullType, BoundType, LoopType
<1>2. QED
  BY <1>1, CountsAreNumbers, FullTypeIsTypeOK, ConfigAssumption, BoundAssumption
     DEF SizesOK, ClassSize, FullType, LoopType

(* The same of the next state.                                             *)
LEMMA SizesNext == FullType' => SizesOK'
BY Sizes, PTL

(* The cap in terms of the size of the class.                              *)
LEMMA CapIsClassSize ==
  /\ CapRespected <=> ClassSize <= MaxAutoRunners + foreign
  /\ CapRespected' <=> ClassSize' <= MaxAutoRunners + foreign'
BY DEF CapRespected, ClassSize

(* Changing the status of a container keeps the class, creating one of the *)
(* class adds one, deleting one never adds.                                *)
LEMMA ClassKept ==
  ASSUME NEW n, NEW s, n \in DOMAIN container \/ n = Baseline,
         container' = With(container, n, s)
  PROVE  ClassSize' = ClassSize
<1>1. DOMAIN container' = DOMAIN container \cup {n}
  BY DEF With
<1>2. AutoContainers' = AutoContainers
  BY <1>1 DEF AutoContainers
<1>3. QED
  BY <1>2 DEF ClassSize

LEMMA ClassGrows ==
  ASSUME FullType, NEW n, NEW s, n \notin DOMAIN container, n # Baseline,
         container' = With(container, n, s)
  PROVE  ClassSize' = ClassSize + 1
<1>1. DOMAIN container' = DOMAIN container \cup {n}
  BY DEF With
<1>2. AutoContainers' = AutoContainers \cup {n} /\ n \notin AutoContainers
  BY <1>1 DEF AutoContainers
<1>3. IsFiniteSet(AutoContainers)
  BY Sizes DEF SizesOK
<1>4. Cardinality(AutoContainers \cup {n}) = Cardinality(AutoContainers) + 1
  BY <1>2, <1>3, FS_AddElement
<1>5. QED
  BY <1>2, <1>4 DEF ClassSize

LEMMA ClassShrinks ==
  ASSUME FullType, NEW n, container' = Without(container, n)
  PROVE  /\ ClassSize' <= ClassSize
         /\ n \in AutoContainers => ClassSize' = ClassSize - 1
<1>1. DOMAIN container' = DOMAIN container \ {n}
  BY DEF Without
<1>2. AutoContainers' = AutoContainers \ {n}
  BY <1>1 DEF AutoContainers
<1>3. IsFiniteSet(AutoContainers) /\ ClassSize \in Nat
  BY Sizes DEF SizesOK
<1>4. Cardinality(AutoContainers \ {n})
        = IF n \in AutoContainers THEN Cardinality(AutoContainers) - 1
                                   ELSE Cardinality(AutoContainers)
  BY <1>3, FS_RemoveElement
<1>5. QED
  BY <1>2, <1>3, <1>4 DEF ClassSize

(* No change of the containers, no change of the class.                    *)
LEMMA ClassSame ==
  ASSUME container' = container
  PROVE  ClassSize' = ClassSize
BY DEF ClassSize, AutoContainers

(* Ending the pass leaves nothing to keep.                                 *)
LEMMA EndPassInv ==
  ASSUME EndPass
  PROVE  PassInv'
<1>1. Cardinality({}) = 0
  BY FS_EmptySet
<1>2. CountCoversKnown'
  BY <1>1 DEF EndPass, CountCoversKnown
<1>3. PlaceInv' /\ CountInv' /\ KnownInv'
  BY DEF EndPass, PlaceInv, CountInv, KnownInv, Counting, Creating, Teardown, Provisioning
<1>4. QED
  BY <1>2, <1>3 DEF PassInv

(* The same for ensureBaseline's return.                                   *)
LEMMA BaselineDoneInv ==
  ASSUME PassInv, NEW p, BaselineDone(p)
  PROVE  PassInv'
<1>1. CountCoversKnown'
  BY DEF PassInv, BaselineDone, CountCoversKnown
<1>2. PlaceInv' /\ CountInv' /\ KnownInv'
  BY DEF PassInv, BaselineDone, PlaceInv, CountInv, KnownInv, Counting, Creating, Teardown,
         Provisioning
<1>3. QED
  BY <1>1, <1>2 DEF PassInv

(* A step outside the pass that creates nothing of the class, or counts    *)
(* what it creates, keeps the pass's view.                                 *)
LEMMA OutsideInv ==
  ASSUME FullType, FullType', PassInv, CapRespected, UNCHANGED PassVars,
         ClassSize' + foreignSince <= ClassSize + foreignSince',
         ClassSize' + foreign <= ClassSize + foreign',
         Baseline \in DOMAIN container' => Baseline \in DOMAIN container
  PROVE  PassInv' /\ CapRespected'
<1> USE Sizes, SizesNext
<1>1. UNCHANGED <<pc, cur, after, known, todo, autoCount>>
  BY DEF PassVars, loopVars, stepVars
<1>2. ClassSize' \in Nat /\ foreign' \in Nat /\ foreignSince' \in Nat
  BY DEF SizesOK
<1>3. CapRespected'
  BY <1>2, CapIsClassSize DEF SizesOK
<1>4. CountInv'
  BY <1>1, <1>2 DEF SizesOK, PassInv, CountInv, Counting, Creating
<1>5. PlaceInv' /\ KnownInv' /\ CountCoversKnown'
  BY <1>1 DEF PassInv, PlaceInv, KnownInv, CountCoversKnown
<1>6. QED
  BY <1>3, <1>4, <1>5 DEF PassInv

(* A visit of the scale-down loop counts nothing.                          *)
LEMMA VisitInv ==
  ASSUME FullType, PassInv, CapRespected, pc = "loop", NEW c \in todo, LoopFrame,
         Visited(c) \/ BeginScaleDown(c)
  PROVE  PassInv' /\ CapRespected'
<1>1. ClassSize' = ClassSize
  BY ClassSame DEF LoopFrame
<1>2. UNCHANGED <<container, known, autoCount, foreign, foreignSince>> /\ todo' = todo \ {c}
  BY DEF LoopFrame, Visited, BeginScaleDown
<1>3. \/ pc' = "loop" /\ cur' = cur /\ after' = after
      \/ pc' = "deregister" /\ cur' = c /\ after' = "loop"
  BY DEF Visited, BeginScaleDown
<1>4. CapRespected' /\ CountCoversKnown'
  BY <1>1, <1>2 DEF CapRespected, ClassSize, PassInv, CountCoversKnown
<1>5. c \in known /\ c # Baseline
  BY DEF PassInv, KnownInv
<1>6. PlaceInv'
  BY <1>3, <1>5 DEF PlaceInv, Teardown, Provisioning
<1>7. CountInv'
  BY <1>1, <1>2, <1>3 DEF PassInv, CountInv, Counting, Creating, Teardown, Provisioning
<1>8. KnownInv'
  BY <1>2, <1>3, <1>5 DEF PassInv, KnownInv, Teardown
<1>9. QED
  BY <1>4, <1>6, <1>7, <1>8 DEF PassInv

(* A failed provisioning step never leaves more than there was.            *)
LEMMA StepFailsInv ==
  ASSUME FullType, FullType', PassInv, CapRespected, NEW working, StepFails(working),
         working => cur \in DOMAIN container
  PROVE  PassInv' /\ CapRespected'
<1> USE Sizes, SizesNext
<1>1. PassInv'
  BY EndPassInv, BaselineDoneInv DEF StepFails, ProvisionFailed
<1>2. ClassSize' <= ClassSize
  <2>1. CASE container' = Without(container, cur)
    BY <2>1, ClassShrinks
  <2>2. CASE container' = container
    BY <2>2, ClassSame DEF SizesOK
  <2>3. CASE container' = With(container, cur, "stopped") /\ working
    BY <2>3, ClassKept DEF SizesOK
  <2>4. QED
    BY <2>1, <2>2, <2>3 DEF StepFails
<1>3. foreign' = foreign
  BY DEF StepFails, ProvisionFailed, EndPass, BaselineDone
<1>4. CapRespected'
  BY <1>2, <1>3, CapIsClassSize DEF SizesOK
<1>5. QED
  BY <1>1, <1>4

(* Nothing exists at first.                                                *)
LEMMA CapInit == Init => CapInv
<1> SUFFICES ASSUME Init PROVE CapInv
  OBVIOUS
<1>1. Cardinality({}) = 0 /\ AutoContainers = {}
  BY FS_EmptySet, FiniteEmpty DEF Init, AutoContainers
<1>2. CapRespected /\ CountCoversKnown
  BY <1>1, ConfigAssumption DEF Init, CapRespected, CountCoversKnown
<1>3. PlaceInv /\ CountInv /\ KnownInv
  BY DEF Init, PlaceInv, CountInv, KnownInv, Counting, Creating, Teardown, Provisioning
<1>4. QED
  BY <1>2, <1>3 DEF CapInv, PassInv

(* Every step keeps the cap and the pass's view of the class.              *)
LEMMA CapStep == FullType /\ FullType' /\ CapInv /\ [Next]_vars => CapInv'
<1> SUFFICES ASSUME FullType, FullType', CapInv, [Next]_vars PROVE CapInv'
  OBVIOUS
<1> USE Sizes, SizesNext, CapIsClassSize
<1>0. PassInv /\ CapRespected
  BY DEF CapInv
<1>1. UNCHANGED vars => CapInv'
  <2> SUFFICES ASSUME UNCHANGED vars PROVE CapInv'
    OBVIOUS
  <2>1. UNCHANGED <<PassVars, container, foreign, foreignSince>>
    BY DEF vars, world, bounds, PassVars
  <2>2. QED
    BY <1>0, <2>1, ClassSame, OutsideInv DEF CapInv, SizesOK
<1>2. \A d \in 0 .. MaxDemand : StartPass(d) => CapInv'
  <2> SUFFICES ASSUME NEW d \in 0 .. MaxDemand, StartPass(d) PROVE CapInv'
    OBVIOUS
  <2>1. /\ UNCHANGED <<container, foreign, foreignSince, known, todo, autoCount>>
        /\ pc' \in {"baseline", "list"}
    BY DEF StartPass, world, bounds
  <2>2. CapRespected' /\ CountCoversKnown'
    BY <1>0, <2>1, ClassSame DEF PassInv, CountCoversKnown
  <2>3. PlaceInv' /\ CountInv' /\ KnownInv'
    BY <1>0, <2>1 DEF PassInv, PlaceInv, CountInv, KnownInv, Counting, Creating, Teardown,
                      Provisioning
  <2>4. QED
    BY <2>2, <2>3 DEF CapInv, PassInv
<1>3. EndPass /\ container' = container => CapInv'
  <2> SUFFICES ASSUME EndPass, container' = container PROVE CapInv'
    OBVIOUS
  <2>1. foreign' = foreign /\ ClassSize' = ClassSize
    BY ClassSame DEF EndPass
  <2>2. QED
    BY <1>0, <2>1, EndPassInv DEF CapInv
<1>4. \A p : BaselineDone(p) /\ container' = container => CapInv'
  <2> SUFFICES ASSUME NEW p, BaselineDone(p), container' = container PROVE CapInv'
    OBVIOUS
  <2>1. foreign' = foreign /\ ClassSize' = ClassSize
    BY ClassSame DEF BaselineDone
  <2>2. QED
    BY <1>0, <2>1, BaselineDoneInv DEF CapInv
<1>5. Crash => CapInv'
  BY <1>3 DEF Crash, world
<1>6. BaselineOnline \/ BaselineListFails => CapInv'
  BY <1>4 DEF BaselineOnline, BaselineListFails, world
<1>7. BaselineStarting => CapInv'
  BY <1>4 DEF BaselineStarting
<1>8. BaselineStale \/ BaselineMissing => CapInv'
  <2> SUFFICES ASSUME BaselineStale \/ BaselineMissing PROVE CapInv'
    OBVIOUS
  <2>1. /\ UNCHANGED <<container, foreign, foreignSince, known, todo, autoCount>>
        /\ \/ pc' = "deregister" /\ cur' = Baseline /\ after' = "baseline"
           \/ pc' = "cloneBaseline" /\ Baseline \notin DOMAIN container
    BY DEF BaselineStale, BaselineMissing, world, loopVars, bounds
  <2>2. CapRespected' /\ CountCoversKnown'
    BY <1>0, <2>1, ClassSame DEF PassInv, CountCoversKnown
  <2>3. PlaceInv' /\ CountInv' /\ KnownInv'
    BY <1>0, <2>1 DEF PassInv, PlaceInv, CountInv, KnownInv, Counting, Creating, Teardown,
                      Provisioning
  <2>4. QED
    BY <2>2, <2>3 DEF CapInv, PassInv
<1>9. CloneBaseline => CapInv'
  <2> SUFFICES ASSUME CloneBaseline PROVE CapInv'
    OBVIOUS
  <2>1. ClassSize' = ClassSize
    BY ClassSame, ClassKept DEF CloneBaseline
  <2>2. CASE CanFail /\ BaselineDone(0)
    BY <1>0, <2>1, <2>2, BaselineDoneInv DEF CapInv, BaselineDone
  <2>3. CASE /\ pc' = "boot" /\ cur' = Baseline /\ after' = "baseline"
             /\ UNCHANGED <<loopVars, elapsed, names, attempt, bounds>>
    <3>1. UNCHANGED <<foreign, foreignSince, known, todo, autoCount>>
      BY <2>3 DEF loopVars, bounds
    <3>2. CapRespected' /\ CountCoversKnown'
      BY <1>0, <2>1, <3>1 DEF PassInv, CountCoversKnown
    <3>3. PlaceInv' /\ CountInv' /\ KnownInv'
      BY <1>0, <2>3, <3>1 DEF PassInv, PlaceInv, CountInv, KnownInv, Counting, Creating,
                              Teardown, Provisioning
    <3>4. QED
      BY <3>2, <3>3 DEF CapInv, PassInv
  <2>4. QED
    BY <2>2, <2>3 DEF CloneBaseline
<1>10. ListAuto => CapInv'
  <2> SUFFICES ASSUME ListAuto PROVE CapInv'
    OBVIOUS
  <2>1. /\ pc' = "loop" /\ todo' = AutoContainers /\ known' = AutoContainers
        /\ autoCount' = ClassSize /\ foreign' = foreign /\ foreignSince' = 0
        /\ container' = container
    BY DEF ListAuto, world, ClassSize
  <2>2. ClassSize' = ClassSize
    BY <2>1, ClassSame
  <2>3. CapRespected' /\ CountCoversKnown'
    BY <1>0, <2>1, <2>2 DEF CountCoversKnown, ClassSize, SizesOK
  <2>4. PlaceInv' /\ KnownInv'
    BY <2>1 DEF PlaceInv, KnownInv, Teardown, Provisioning, AutoContainers
  <2>5. CountInv'
    BY <2>1, <2>2 DEF CountInv, Counting, Creating, Teardown, Provisioning, SizesOK
  <2>6. QED
    BY <2>3, <2>4, <2>5 DEF CapInv, PassInv
<1>11. ListFails => CapInv'
  BY <1>3 DEF ListFails, world
<1>12. EndLoop => CapInv'
  <2> SUFFICES ASSUME EndLoop PROVE CapInv'
    OBVIOUS
  <2>1. /\ UNCHANGED <<container, foreign, foreignSince, known, todo, autoCount>>
        /\ pc = "loop" /\ pc' = "up"
    BY DEF EndLoop, world, bounds
  <2>2. ClassSize' = ClassSize
    BY <2>1, ClassSame
  <2>3. CapRespected' /\ CountCoversKnown'
    BY <1>0, <2>1, <2>2 DEF PassInv, CountCoversKnown
  <2>4. PlaceInv' /\ CountInv' /\ KnownInv'
    BY <1>0, <2>1, <2>2 DEF PassInv, PlaceInv, CountInv, KnownInv, Counting, Creating,
                            Teardown, Provisioning
  <2>5. QED
    BY <2>3, <2>4 DEF CapInv, PassInv
<1>13. \A c \in todo : SkipUnreadable(c) => CapInv'
  BY <1>0, VisitInv DEF SkipUnreadable, CapInv
<1>14. \A c \in todo, status \in Statuses : VisitStopped(c, status) => CapInv'
  BY <1>0, VisitInv DEF VisitStopped, StatusOf, CapInv
<1>15. \A c \in todo, status \in Statuses : VisitBusy(c, status) => CapInv'
  BY <1>0, VisitInv DEF VisitBusy, StatusOf, CapInv
<1>16. \A c \in todo, status \in Statuses : VisitOrphan(c, status) => CapInv'
  BY <1>0, VisitInv DEF VisitOrphan, StatusOf, CapInv
<1>17. \A c \in todo, status \in Statuses : VisitIdle(c, status) => CapInv'
  BY <1>0, VisitInv DEF VisitIdle, StatusOf, CapInv
<1>18. Deregister => CapInv'
  <2> SUFFICES ASSUME Deregister PROVE CapInv'
    OBVIOUS
  <2>1. /\ UNCHANGED <<container, foreign, foreignSince, known, todo, autoCount, cur, after>>
        /\ pc = "deregister" /\ pc' = "destroy"
    BY DEF Deregister, loopVars, stepVars
  <2>2. ClassSize' = ClassSize
    BY <2>1, ClassSame
  <2>3. CapRespected' /\ CountCoversKnown'
    BY <1>0, <2>1, <2>2 DEF PassInv, CountCoversKnown
  <2>4. PlaceInv' /\ CountInv' /\ KnownInv'
    BY <1>0, <2>1, <2>2 DEF PassInv, PlaceInv, CountInv, KnownInv, Counting, Creating,
                            Teardown, Provisioning
  <2>5. QED
    BY <2>3, <2>4 DEF CapInv, PassInv
<1>19. Destroy => CapInv'
  <2> SUFFICES ASSUME Destroy PROVE CapInv'
    OBVIOUS
  <2>1. CASE /\ cur \in DOMAIN container /\ container' = Without(container, cur)
             /\ ScaleDownDeleted /\ after = "loop"
    <3>1. /\ pc' = "loop" /\ known' = known \ {cur} /\ autoCount' = autoCount - 1
          /\ UNCHANGED <<todo, foreign, foreignSince>>
      BY <2>1 DEF ScaleDownDeleted, CountRemoved
    <3>2. cur # Baseline /\ cur \in known /\ cur \notin todo /\ Counting
      BY <1>0, <2>1 DEF Destroy, PassInv, PlaceInv, KnownInv, Counting, Teardown
    <3>3. ClassSize' = ClassSize - 1
      BY <2>1, <3>2, ClassShrinks DEF AutoContainers
    <3>4. Cardinality(known \ {cur}) = Cardinality(known) - 1
      BY <3>2, FS_RemoveElement DEF SizesOK
    <3>5. CapRespected' /\ CountCoversKnown'
      <4>1. CapRespected'
        BY <1>0, <3>1, <3>3 DEF SizesOK
      <4>2. Cardinality(known') = Cardinality(known) - 1
        BY <3>1, <3>4, Zenon
      <4>3. CountCoversKnown'
        BY <1>0, <3>1, <4>2 DEF PassInv, CountCoversKnown, SizesOK
      <4>4. QED
        BY <4>1, <4>3
    <3>6. PlaceInv' /\ KnownInv'
      BY <1>0, <3>1, <3>2 DEF PassInv, PlaceInv, KnownInv, Teardown, Provisioning
    <3>7. CountInv'
      BY <1>0, <3>1, <3>2, <3>3 DEF PassInv, CountInv, Counting, Creating, Teardown,
                                    Provisioning, SizesOK
    <3>8. QED
      BY <3>5, <3>6, <3>7 DEF CapInv, PassInv
  <2>2. CASE /\ cur \in DOMAIN container /\ container' = Without(container, cur)
             /\ ScaleDownDeleted /\ after = "baseline"
    <3>1. /\ pc' = "cloneBaseline" /\ cur = Baseline
          /\ UNCHANGED <<known, autoCount, todo, cur, after, foreign, foreignSince>>
      BY <1>0, <2>2 DEF ScaleDownDeleted, Destroy, PassInv, PlaceInv, Teardown, loopVars, stepVars
    <3>2. Baseline \notin DOMAIN container'
      BY <2>2, <3>1 DEF Without
    <3>3. ClassSize' <= ClassSize
      BY <2>2, ClassShrinks
    <3>4. CapRespected'
      BY <1>0, <3>1, <3>3 DEF SizesOK
    <3>5. CountCoversKnown'
      BY <1>0, <3>1 DEF PassInv, CountCoversKnown
    <3>6. PlaceInv' /\ KnownInv' /\ CountInv'
      BY <1>0, <3>1, <3>2 DEF PassInv, PlaceInv, KnownInv, CountInv, Counting, Creating,
                              Teardown, Provisioning
    <3>7. QED
      BY <3>4, <3>5, <3>6 DEF CapInv, PassInv
  <2>3. CASE /\ container' = container \/ (cur \in DOMAIN container
                                            /\ container' = With(container, cur, "stopped"))
             /\ ScaleDownKept
    <3>1. ClassSize' = ClassSize
      BY <2>3, ClassSame, ClassKept
    <3>2. CASE BaselineDone(0)
      BY <1>0, <3>1, <3>2, BaselineDoneInv DEF CapInv, BaselineDone
    <3>3. CASE ~BaselineDone(0)
      <4>1. /\ after = "loop" /\ pc' = "loop" /\ after' = after
            /\ UNCHANGED <<known, autoCount, todo, foreign, foreignSince>>
        BY <2>3, <3>3 DEF ScaleDownKept, loopVars
      <4>2. Counting
        BY <4>1 DEF Destroy, Counting, Teardown
      <4>3. CapRespected' /\ CountCoversKnown'
        BY <1>0, <3>1, <4>1 DEF PassInv, CountCoversKnown
      <4>4. PlaceInv' /\ KnownInv' /\ CountInv'
        BY <1>0, <3>1, <4>1, <4>2 DEF PassInv, PlaceInv, KnownInv, CountInv, Counting,
                                      Creating, Teardown, Provisioning
      <4>5. QED
        BY <4>3, <4>4 DEF CapInv, PassInv
    <3>4. QED
      BY <3>2, <3>3
  <2>4. QED
    BY <2>1, <2>2, <2>3 DEF Destroy, ScaleDownDeleted
<1>20. NoScaleUp => CapInv'
  BY <1>3 DEF NoScaleUp, world
<1>21. RequestScaleUp => CapInv'
  <2> SUFFICES ASSUME RequestScaleUp PROVE CapInv'
    OBVIOUS
  <2>1. container' = container
    BY DEF RequestScaleUp, world
  <2>2. CASE EndPass
    BY <1>3, <2>1, <2>2
  <2>3. CASE ~EndPass
    <3>1. /\ pc = "up" /\ pc' = "clone" /\ after' = "up" /\ autoCount < MaxAutoRunners
          /\ UNCHANGED <<known, autoCount, todo, foreign, foreignSince>>
      BY <2>3 DEF RequestScaleUp, WantsRunner, loopVars, bounds
    <3>2. ClassSize' = ClassSize
      BY <2>1, ClassSame
    <3>3. CapRespected' /\ CountCoversKnown'
      BY <1>0, <3>1, <3>2 DEF PassInv, CountCoversKnown
    <3>4. PlaceInv' /\ CountInv' /\ KnownInv'
      BY <1>0, <3>1, <3>2 DEF PassInv, PlaceInv, CountInv, KnownInv, Counting, Creating,
                              Teardown, Provisioning
    <3>5. QED
      BY <3>3, <3>4 DEF CapInv, PassInv
  <2>4. QED
    BY <2>2, <2>3
<1>22. \A name \in 1 .. Cardinality(names) + 1 : CloneSucceeds(name) => CapInv'
  <2> SUFFICES ASSUME NEW name \in 1 .. Cardinality(names) + 1, CloneSucceeds(name)
               PROVE  CapInv'
    OBVIOUS
  <2>1. name # Baseline
    BY CountsAreNumbers, FullTypeIsTypeOK DEF Baseline
  <2>2. ClassSize' = ClassSize + 1
    BY <2>1, ClassGrows DEF CloneSucceeds
  <2>3. /\ pc = "clone" /\ pc' = "boot" /\ cur' = name /\ after' = after
        /\ UNCHANGED <<known, autoCount, todo, foreign, foreignSince>>
    BY DEF CloneSucceeds, loopVars, bounds
  <2>4. /\ after = "up" /\ autoCount < MaxAutoRunners
        /\ ClassSize <= autoCount + foreignSince
    BY <1>0, <2>3 DEF PassInv, PlaceInv, CountInv, Counting
  <2>5. CapRespected'
    BY <2>2, <2>3, <2>4 DEF SizesOK
  <2>6. CountInv'
    BY <2>2, <2>3, <2>4 DEF CountInv, Counting, Creating, Teardown, Provisioning, SizesOK
  <2>7. PlaceInv' /\ KnownInv' /\ CountCoversKnown'
    BY <1>0, <2>1, <2>3, <2>4 DEF PassInv, PlaceInv, KnownInv, CountCoversKnown, Teardown,
                                  Provisioning
  <2>8. QED
    BY <2>5, <2>6, <2>7 DEF CapInv, PassInv
<1>23. \A name \in 1 .. Cardinality(names) + 1 : CloneFails(name) => CapInv'
  <2> SUFFICES ASSUME NEW name \in 1 .. Cardinality(names) + 1, CloneFails(name)
               PROVE  CapInv'
    OBVIOUS
  <2>1. name # Baseline
    BY CountsAreNumbers, FullTypeIsTypeOK DEF Baseline
  <2>2. ClassSize' \in {ClassSize, ClassSize + 1}
    BY <2>1, ClassSame, ClassGrows DEF CloneFails
  <2>3. autoCount < MaxAutoRunners /\ ClassSize <= autoCount + foreignSince
    BY <1>0 DEF CloneFails, PassInv, CountInv, Counting
  <2>4. foreign' = foreign
    BY DEF CloneFails, EndPass
  <2>5. CapRespected'
    BY <2>2, <2>3, <2>4 DEF SizesOK
  <2>6. QED
    BY <2>5, EndPassInv DEF CloneFails, CapInv
<1>24. \A name \in 1 .. Cardinality(names) + 1 : CloneConflict(name) => CapInv'
  <2> SUFFICES ASSUME NEW name \in 1 .. Cardinality(names) + 1, CloneConflict(name)
               PROVE  CapInv'
    OBVIOUS
  <2>1. container' = container
    BY DEF CloneConflict, world
  <2>2. CASE EndPass
    BY <1>3, <2>1, <2>2
  <2>3. CASE ~EndPass
    <3>1. UNCHANGED <<pc, cur, after, known, autoCount, todo, foreign, foreignSince>>
      BY <2>3 DEF CloneConflict, loopVars, bounds
    <3>2. ClassSize' = ClassSize
      BY <2>1, ClassSame
    <3>3. CapRespected' /\ CountCoversKnown'
      BY <1>0, <3>1, <3>2 DEF PassInv, CountCoversKnown
    <3>4. PlaceInv' /\ CountInv' /\ KnownInv'
      BY <1>0, <2>1, <3>1, <3>2 DEF PassInv, PlaceInv, CountInv, KnownInv, Counting, Creating
    <3>5. QED
      BY <3>3, <3>4 DEF CapInv, PassInv
  <2>4. QED
    BY <2>2, <2>3
<1>25. /\ cur \in DOMAIN container
       /\ container' = container \/ container' = With(container, cur, "running")
       /\ pc \in Provisioning /\ pc' \in Provisioning
       /\ UNCHANGED <<loopVars, stepVars, bounds>>
       => CapInv'
  <2> SUFFICES ASSUME cur \in DOMAIN container,
                      container' = container \/ container' = With(container, cur, "running"),
                      pc \in Provisioning, pc' \in Provisioning,
                      UNCHANGED <<loopVars, stepVars, bounds>>
               PROVE  CapInv'
    OBVIOUS
  <2>1. UNCHANGED <<cur, after, known, autoCount, todo, foreign, foreignSince>>
    BY DEF loopVars, stepVars, bounds
  <2>2. ClassSize' = ClassSize
    BY ClassSame, ClassKept
  <2>3. CapRespected' /\ CountCoversKnown'
    BY <1>0, <2>1, <2>2 DEF PassInv, CountCoversKnown
  <2>4. PlaceInv' /\ CountInv' /\ KnownInv'
    BY <1>0, <2>1, <2>2 DEF PassInv, PlaceInv, CountInv, KnownInv, Counting, Creating,
                            Teardown, Provisioning
  <2>5. QED
    BY <2>3, <2>4 DEF CapInv, PassInv
<1>26. BootRunner => CapInv'
  <2> SUFFICES ASSUME BootRunner PROVE CapInv'
    OBVIOUS
  <2>1. CASE StepFails(cur \in DOMAIN container)
    BY <1>0, <2>1, StepFailsInv DEF CapInv
  <2>2. CASE ~StepFails(cur \in DOMAIN container)
    BY <1>25, <2>2 DEF BootRunner, Provisioning
  <2>3. QED
    BY <2>1, <2>2
<1>27. RegisterRunner => CapInv'
  <2> SUFFICES ASSUME RegisterRunner PROVE CapInv'
    OBVIOUS
  <2>1. CASE StepFails(CurRunning)
    BY <1>0, <2>1, StepFailsInv DEF CapInv, CurRunning
  <2>2. CASE ~StepFails(CurRunning)
    BY <1>25, <2>2 DEF RegisterRunner, Provisioning, CurRunning
  <2>3. QED
    BY <2>1, <2>2
<1>28. StartService => CapInv'
  <2> SUFFICES ASSUME StartService PROVE CapInv'
    OBVIOUS
  <2>1. CASE StepFails(CurRunning)
    BY <1>0, <2>1, StepFailsInv DEF CapInv, CurRunning
  <2>2. CASE container' = container /\ BaselineDone(1)
    BY <1>4, <2>2
  <2>3. CASE ~StepFails(CurRunning) /\ ~BaselineDone(1)
    <3>1. /\ pc = "service" /\ after = "up" /\ pc' = "up" /\ container' = container
          /\ known' = known \cup ({cur} \ removed) /\ autoCount' = autoCount + 1
          /\ UNCHANGED <<todo, foreign, foreignSince>>
      BY <2>3 DEF StartService
    <3>2. Creating /\ cur # Baseline
      BY <1>0, <3>1 DEF Creating, Provisioning, PassInv, PlaceInv
    <3>3. ClassSize' = ClassSize
      BY <3>1, ClassSame
    <3>4. Cardinality(known \cup ({cur} \ removed)) <= Cardinality(known) + 1
      <4>1. IsFiniteSet(known) /\ Cardinality(known) \in Nat
        BY DEF SizesOK
      <4>2. Cardinality(known \cup {cur})
              = IF cur \in known THEN Cardinality(known) ELSE Cardinality(known) + 1
        BY <4>1, FS_AddElement
      <4>3. CASE cur \in removed
        <5>1. known \cup ({cur} \ removed) = known
          BY <4>3
        <5>2. Cardinality(known \cup ({cur} \ removed)) = Cardinality(known)
          BY <5>1, Zenon
        <5>3. QED
          BY <4>1, <5>2
      <4>4. CASE cur \notin removed
        <5>1. known \cup ({cur} \ removed) = known \cup {cur}
          BY <4>4
        <5>2. Cardinality(known \cup ({cur} \ removed)) = Cardinality(known \cup {cur})
          BY <5>1, Zenon
        <5>3. QED
          BY <4>1, <4>2, <5>2
      <4>5. QED
        BY <4>3, <4>4
    <3>5. Cardinality(known') <= Cardinality(known) + 1
      BY <3>1, <3>4, Zenon
    <3>6. CapRespected' /\ CountCoversKnown'
      BY <1>0, <3>1, <3>3, <3>5 DEF PassInv, CountCoversKnown, SizesOK
    <3>7. PlaceInv' /\ KnownInv'
      BY <1>0, <3>1, <3>2 DEF PassInv, PlaceInv, KnownInv, Teardown, Provisioning
    <3>8. CountInv'
      BY <1>0, <3>1, <3>2, <3>3 DEF PassInv, CountInv, Counting, Creating, Teardown,
                                    Provisioning, SizesOK
    <3>9. QED
      BY <3>6, <3>7, <3>8 DEF CapInv, PassInv
  <2>4. QED
    BY <2>1, <2>2, <2>3 DEF StartService
<1>29. UNCHANGED <<container, PassVars, foreign, foreignSince>> => CapInv'
  BY <1>0, ClassSame, OutsideInv DEF CapInv, SizesOK
<1>30. Tick => CapInv'
  BY <1>29 DEF Tick, bounds
<1>31. \A n \in DOMAIN runner :
         RunnerConnects(n) \/ RunnerDisconnects(n) \/ JobAssigned(n) \/ JobFinished(n)
           => CapInv'
  BY <1>29 DEF RunnerConnects, RunnerDisconnects, JobAssigned, JobFinished, RunnerMoves, bounds
<1>32. \A n \in DOMAIN container : ContainerStops(n) => CapInv'
  <2> SUFFICES ASSUME NEW n \in DOMAIN container, ContainerStops(n) PROVE CapInv'
    OBVIOUS
  <2>1. ClassSize' = ClassSize
    BY ClassKept DEF ContainerStops
  <2>2. DOMAIN container' = DOMAIN container
    BY DEF ContainerStops, With
  <2>3. QED
    BY <1>0, <2>1, <2>2, OutsideInv DEF ContainerStops, CapInv, SizesOK
<1>33. \A n \in DOMAIN container : ForeignDelete(n) => CapInv'
  <2> SUFFICES ASSUME NEW n \in DOMAIN container, ForeignDelete(n) PROVE CapInv'
    OBVIOUS
  <2>1. ClassSize' <= ClassSize
    BY ClassShrinks DEF ForeignDelete
  <2>2. DOMAIN container' \subseteq DOMAIN container
    BY DEF ForeignDelete, Without
  <2>3. QED
    BY <1>0, <2>1, <2>2, OutsideInv DEF ForeignDelete, CapInv, SizesOK
<1>34. \A n \in DOMAIN lastActive : StateFileLost(n) => CapInv'
  BY <1>29 DEF StateFileLost
<1>35. \A n \in 1 .. MaxAutoRunners + MaxForeign : ForeignCreate(n) => CapInv'
  <2> SUFFICES ASSUME NEW n \in 1 .. MaxAutoRunners + MaxForeign, ForeignCreate(n)
               PROVE  CapInv'
    OBVIOUS
  <2>1. n # Baseline
    BY DEF Baseline, SizesOK
  <2>2. ClassSize' = ClassSize + 1
    BY <2>1, ClassGrows DEF ForeignCreate
  <2>3. Baseline \in DOMAIN container' => Baseline \in DOMAIN container
    BY <2>1 DEF ForeignCreate, With
  <2>4. QED
    BY <1>0, <2>2, <2>3, OutsideInv DEF ForeignCreate, CapInv, SizesOK
<1>36. QED
  BY <1>1, <1>2, <1>5, <1>6, <1>7, <1>8, <1>9, <1>10, <1>11, <1>12, <1>13, <1>14, <1>15,
     <1>16, <1>17, <1>18, <1>19, <1>20, <1>21, <1>22, <1>23, <1>24, <1>26, <1>27, <1>28,
     <1>30, <1>31, <1>32, <1>33, <1>34, <1>35, StepCases

(* However many faults, crashes and outside creations and deletions there  *)
(* are, the class never exceeds max_auto_runners by more than what others  *)
(* created.                                                                *)
THEOREM CapHolds == Spec => []CapRespected
<1>1. CapInv => CapRespected
  BY DEF CapInv
<1>2. QED
  BY <1>1, FullTypeInit, FullTypeStep, CapInit, CapStep, PTL DEF Spec

(* The pass's count never falls behind the names it knows.                 *)
THEOREM CountCoversNames == Spec => []CountCoversKnown
<1>1. CapInv => CountCoversKnown
  BY DEF CapInv, PassInv
<1>2. QED
  BY <1>1, FullTypeInit, FullTypeStep, CapInit, CapStep, PTL DEF Spec

(***************************************************************************)
(* Known jobs                                                              *)
(***************************************************************************)

(* Detaching a registration starts no service and ends this one,           *)
LEMMA ActiveDetached ==
  ASSUME NEW n, runner' = Detached(runner, n)
  PROVE  \A m : Active(m)' => Active(m) /\ m # n
<1>1. /\ DOMAIN runner' = DOMAIN runner
      /\ n \in DOMAIN runner => runner'[n] = "registered"
      /\ \A m \in DOMAIN runner : m # n => runner'[m] = runner[m]
  BY DetachedFacts
<1>2. QED
  BY <1>1 DEF Active

(* and so does removing it.                                                *)
LEMMA ActiveWithout ==
  ASSUME NEW n, runner' = Without(runner, n)
  PROVE  \A m : Active(m)' => Active(m) /\ m # n
<1>1. /\ DOMAIN runner' = DOMAIN runner \ {n}
      /\ \A m \in DOMAIN runner : m # n => runner'[m] = runner[m]
  BY WithoutFacts
<1>2. QED
  BY <1>1 DEF Active

(* A container without a service may be changed in any way.                *)
LEMMA ServeAfter ==
  ASSUME Serving, NEW n, NEW s,
         \/ container' = container
         \/ container' = With(container, n, s)
         \/ container' = Without(container, n),
         ~Active(n)',
         \A m : Active(m)' => Active(m)
  PROVE  Serving'
<1> SUFFICES ASSUME NEW m, Active(m)' PROVE Runs(m)'
  BY DEF Serving
<1>1. m # n /\ Active(m)
  OBVIOUS
<1>2. Runs(m)
  BY <1>1 DEF Serving, Active
<1>3. m \in DOMAIN container' /\ container'[m] = container[m]
  BY <1>1, <1>2 DEF Runs, With, Without
<1>4. QED
  BY <1>2, <1>3 DEF Runs

(* Where no container changes and no service starts, nothing is lost.      *)
LEMMA ServeSame ==
  ASSUME Serving, container' = container, \A m : Active(m)' => Active(m)
  PROVE  Serving'
<1> SUFFICES ASSUME NEW m, Active(m)' PROVE Runs(m)'
  BY DEF Serving
<1>1. Runs(m)
  BY DEF Serving, Active
<1>2. QED
  BY <1>1 DEF Runs

(* Outside the scale-down loop and its teardowns there is nothing to keep. *)
LEMMA StoppedAway ==
  ASSUME pc' \notin Teardown, pc' # "loop"
  PROVE  StoppedInv'
BY DEF StoppedInv, Looping

(* A step that goes elsewhere and touches neither table.                   *)
LEMMA QuietInv ==
  ASSUME JobInv, UNCHANGED <<container, runner>>,
         pc' \notin Teardown \cup Provisioning \cup {"loop"}
  PROVE  JobInv'
<1>1. Serving'
  BY ServeSame DEF JobInv, ServiceInv, Active
<1>2. QED
  BY <1>1, StoppedAway DEF JobInv, ServiceInv

(* A step outside the pass starts no service.                              *)
LEMMA OutsideJobs ==
  ASSUME JobInv, UNCHANGED PassVars, Serving', \A m : Active(m)' => Active(m)
  PROVE  JobInv'
<1>1. UNCHANGED <<pc, cur, after, snap, seen, todo>>
  BY DEF PassVars, loopVars, stepVars
<1>2. ServiceInv'
  BY <1>1 DEF JobInv, ServiceInv
<1>3. AvailableOnline' = AvailableOnline
  BY <1>1 DEF AvailableOnline
<1>4. StoppedInv'
  BY <1>1, <1>3 DEF JobInv, StoppedInv, Looping
<1>5. QED
  BY <1>2, <1>4 DEF JobInv

(* Ending the pass, or ensureBaseline's return, with a container changed   *)
(* that has no service.                                                    *)
LEMMA ReturnJobs ==
  ASSUME JobInv, NEW p, EndPass \/ BaselineDone(p), Serving'
  PROVE  JobInv'
<1>1. pc' \in {"idle", "list"}
  BY DEF EndPass, BaselineDone
<1>2. QED
  BY <1>1, StoppedAway DEF JobInv, ServiceInv, Teardown, Provisioning

(* A failed provisioning step, whose container has no service.             *)
LEMMA StepFailsJobs ==
  ASSUME JobInv, NEW working, StepFails(working), pc \in Provisioning,
         \A m : Active(m)' => Active(m)
  PROVE  JobInv'
<1> DEFINE k == cur
<1>1. /\ ~(k \in DOMAIN runner' /\ runner'[k] # "registered")
      /\ \/ container' = container
         \/ container' = With(container, k, "stopped")
         \/ container' = Without(container, k)
  BY DEF JobInv, ServiceInv, StepFails, Active
<1> HIDE DEF k
<1>2. Serving'
  BY <1>1, ServeAfter DEF Active, JobInv, ServiceInv
<1>3. QED
  BY <1>2, ReturnJobs DEF StepFails, ProvisionFailed

(* A visit of the loop that begins a teardown or does not.                 *)
LEMMA VisitJobs ==
  ASSUME JobInv, pc = "loop", NEW c \in todo, LoopFrame, Visited(c) \/ BeginScaleDown(c),
         BeginScaleDown(c) /\ c \in DOMAIN snap /\ snap[c] = "busy" => ~Active(c)
  PROVE  JobInv'
<1>1. UNCHANGED <<container, runner, snap, seen>> /\ todo' = todo \ {c}
  BY DEF LoopFrame, Visited, BeginScaleDown
<1>2. Serving' /\ \A m : Active(m)' <=> Active(m)
  BY <1>1, ServeSame DEF JobInv, ServiceInv, Active
<1>3. pc' \in {"loop", "deregister"} /\ (pc' = "deregister" => BeginScaleDown(c) /\ cur' = c)
  BY DEF Visited, BeginScaleDown
<1>4. ServiceInv'
  BY <1>2, <1>3 DEF ServiceInv, Provisioning
<1>5. AvailableOnline' = AvailableOnline
  BY <1>1 DEF AvailableOnline
<1>6. StoppedInv'
  BY <1>1, <1>2, <1>3, <1>5 DEF JobInv, StoppedInv, Looping, Teardown
<1>7. QED
  BY <1>4, <1>6 DEF JobInv

(* There are no services at first.                                         *)
LEMMA JobInit == Init => JobInv
BY FiniteEmpty DEF Init, JobInv, ServiceInv, StoppedInv, Serving, Active, Looping, Teardown,
                   Provisioning, Empty

(* Every step keeps the services in running containers and out of the      *)
(* way of teardowns.                                                       *)
LEMMA JobStep == FullType /\ CapInv /\ JobInv /\ [Next]_vars => JobInv'
<1> SUFFICES ASSUME FullType, CapInv, JobInv, [Next]_vars PROVE JobInv'
  OBVIOUS
<1>0. PlaceInv /\ Serving /\ (pc \in Provisioning => ~Active(cur))
  BY DEF CapInv, PassInv, JobInv, ServiceInv
<1>1. runner' = runner => \A m : Active(m)' <=> Active(m)
  BY DEF Active
<1>2. UNCHANGED <<PassVars, container, runner>> => JobInv'
  BY <1>0, <1>1, ServeSame, OutsideJobs
<1>3. UNCHANGED vars => JobInv'
  BY <1>2 DEF vars, world, PassVars
<1>4. \A p : (EndPass \/ BaselineDone(p)) /\ UNCHANGED <<container, runner>> => JobInv'
  BY <1>0, <1>1, ServeSame, ReturnJobs
<1>5. \A d \in 0 .. MaxDemand : StartPass(d) => JobInv'
  BY QuietInv DEF StartPass, world, Teardown, Provisioning
<1>6. Crash => JobInv'
  BY <1>4 DEF Crash, world
<1>7. BaselineOnline \/ BaselineListFails => JobInv'
  BY <1>4 DEF BaselineOnline, BaselineListFails, world
<1>8. BaselineStarting => JobInv'
  BY <1>4 DEF BaselineStarting
<1>9. BaselineStale \/ BaselineMissing => JobInv'
  <2>1. BaselineMissing => JobInv'
    BY QuietInv DEF BaselineMissing, world, Teardown, Provisioning
  <2>2. ASSUME BaselineStale PROVE JobInv'
    <3>1. /\ UNCHANGED <<container, runner, snap>> /\ pc' = "deregister"
          /\ cur' = Baseline /\ after' = "baseline"
          /\ ~(Baseline \in DOMAIN snap /\ snap[Baseline] \in Online)
      BY <2>2 DEF BaselineStale, BaselineOffline, world, loopVars
    <3>2. ServiceInv'
      BY <1>0, <1>1, <3>1, ServeSame DEF ServiceInv, Provisioning
    <3>3. StoppedInv'
      BY <3>1 DEF StoppedInv, Looping, Teardown, Online
    <3>4. QED
      BY <3>2, <3>3 DEF JobInv
  <2>3. QED
    BY <2>1, <2>2
<1>10. CloneBaseline => JobInv'
  <2> SUFFICES ASSUME CloneBaseline PROVE JobInv'
    OBVIOUS
  <2>1. ~Active(Baseline)
    BY <1>0 DEF CloneBaseline, PlaceInv, Serving, Active, Runs
  <2>2. /\ runner' = runner
        /\ container' = container \/ container' = With(container, Baseline, "stopped")
    BY DEF CloneBaseline
  <2>3. Serving'
    BY <1>0, <1>1, <2>1, <2>2, ServeAfter
  <2>4. CASE BaselineDone(0)
    BY <2>3, <2>4, ReturnJobs
  <2>5. CASE pc' = "boot" /\ cur' = Baseline
    <3>1. ~Active(cur)'
      BY <2>1, <2>2, <2>5 DEF Active
    <3>2. QED
      BY <2>3, <2>5, <3>1, StoppedAway DEF JobInv, ServiceInv, Teardown
  <2>6. QED
    BY <2>4, <2>5 DEF CloneBaseline
<1>11. ListAuto => JobInv'
  <2> SUFFICES ASSUME ListAuto PROVE JobInv'
    OBVIOUS
  <2>1. /\ UNCHANGED <<container, runner, snap>> /\ pc' = "loop" /\ todo' = AutoContainers
    BY DEF ListAuto, world
  <2>2. ServiceInv'
    BY <1>0, <1>1, <2>1, ServeSame DEF ServiceInv, Provisioning
  <2>3. AvailableOnline' = AvailableOnline
    BY <2>1 DEF AvailableOnline
  <2>4. ASSUME AvailableOnline = {}, NEW c \in AutoContainers, seen'[c] = "stopped"
        PROVE  ~Active(c)
    <3>1. PICK wrong \in SUBSET AutoContainers, s \in {"stopped", "unknown"} :
            /\ s = "stopped" => AvailableOnline # {}
            /\ seen' = [n \in AutoContainers |-> IF n \in wrong THEN s ELSE container[n]]
      BY DEF ListAuto
    <3>2. container[c] = "stopped"
      BY <2>4, <3>1
    <3>3. QED
      BY <1>0, <3>2 DEF Serving, Active, Runs
  <2>5. StoppedInv'
    BY <1>1, <2>1, <2>3, <2>4 DEF StoppedInv, Looping, Teardown
  <2>6. QED
    BY <2>2, <2>5 DEF JobInv
<1>12. ListFails => JobInv'
  BY <1>4 DEF ListFails, world
<1>13. EndLoop => JobInv'
  BY QuietInv DEF EndLoop, world, Teardown, Provisioning
<1>14. \A c \in todo : SkipUnreadable(c) => JobInv'
  <2> SUFFICES ASSUME NEW c \in todo, SkipUnreadable(c) PROVE JobInv'
    OBVIOUS
  <2>1. ~BeginScaleDown(c)
    BY DEF SkipUnreadable, Visited, BeginScaleDown
  <2>2. QED
    BY <2>1, VisitJobs DEF SkipUnreadable
<1>15. \A c \in todo, status \in Statuses : VisitStopped(c, status) => JobInv'
  <2> SUFFICES ASSUME NEW c \in todo, NEW status \in Statuses, VisitStopped(c, status)
               PROVE  JobInv'
    OBVIOUS
  <2>1. ~Active(c)
    <3>1. CASE NeedsRefresh(c)
      BY <1>0, <3>1 DEF VisitStopped, StatusOf, Serving, Active, Runs
    <3>2. CASE ~NeedsRefresh(c)
      BY <3>2 DEF VisitStopped, StatusOf, NeedsRefresh, JobInv, StoppedInv, Looping
    <3>3. QED
      BY <3>1, <3>2
  <2>2. QED
    BY <2>1, VisitJobs DEF VisitStopped, StatusOf
<1>16. \A c \in todo, status \in Statuses : VisitBusy(c, status) => JobInv'
  <2> SUFFICES ASSUME NEW c \in todo, NEW status \in Statuses, VisitBusy(c, status)
               PROVE  JobInv'
    OBVIOUS
  <2>1. pc = "loop" /\ ~BeginScaleDown(c)
    BY DEF VisitBusy, StatusOf, Visited, BeginScaleDown
  <2>2. QED
    BY <2>1, VisitJobs DEF VisitBusy
<1>17. \A c \in todo, status \in Statuses : VisitOrphan(c, status) => JobInv'
  BY VisitJobs DEF VisitOrphan, StatusOf
<1>18. \A c \in todo, status \in Statuses : VisitIdle(c, status) => JobInv'
  BY VisitJobs DEF VisitIdle, StatusOf
<1>19. Deregister => JobInv'
  <2> SUFFICES ASSUME Deregister PROVE JobInv'
    OBVIOUS
  <2>1. /\ UNCHANGED <<container, snap, seen, todo, cur, after>>
        /\ pc = "deregister" /\ pc' = "destroy"
    BY DEF Deregister, loopVars, stepVars
  <2>2. \/ runner' = runner \/ runner' = Without(runner, cur)
        \/ runner' = Detached(runner, cur)
    BY DEF Deregister
  <2>3. \A m : Active(m)' => Active(m)
    BY <1>1, <2>2, ActiveWithout, ActiveDetached
  <2>4. ServiceInv'
    BY <1>0, <2>1, <2>3, ServeSame DEF ServiceInv, Provisioning
  <2>5. AvailableOnline' = AvailableOnline
    BY <2>1 DEF AvailableOnline
  <2>6. StoppedInv'
    BY <2>1, <2>3, <2>5 DEF JobInv, StoppedInv, Looping, Teardown
  <2>7. QED
    BY <2>4, <2>6 DEF JobInv
<1>20. Destroy => JobInv'
  <2> SUFFICES ASSUME Destroy PROVE JobInv'
    OBVIOUS
  <2>1. \/ runner' = Detached(runner, cur)
           /\ \/ container' = With(container, cur, "stopped")
              \/ container' = Without(container, cur)
        \/ UNCHANGED <<container, runner>>
    BY DEF Destroy
  <2>2. \A m : Active(m)' => Active(m)
    BY <1>1, <2>1, ActiveDetached
  <2>3. Serving'
    <3>1. CASE UNCHANGED <<container, runner>>
      BY <1>0, <2>2, <3>1, ServeSame
    <3>2. CASE runner' = Detached(runner, cur)
      <4> DEFINE k == cur
      <4>1. /\ ~(k \in DOMAIN runner' /\ runner'[k] # "registered")
            /\ \/ container' = container
               \/ container' = With(container, k, "stopped")
               \/ container' = Without(container, k)
        BY <2>1, <3>2, ActiveDetached DEF Active
      <4> HIDE DEF k
      <4>2. QED
        BY <1>0, <2>2, <4>1, ServeAfter DEF Active
    <3>3. QED
      BY <2>1, <3>1, <3>2
  <2>4. CASE BaselineDone(0) \/ pc' = "cloneBaseline"
    <3>1. pc' \in {"list", "cloneBaseline"}
      BY <2>4 DEF BaselineDone
    <3>2. QED
      BY <2>3, <3>1, StoppedAway DEF JobInv, ServiceInv, Teardown, Provisioning
  <2>5. CASE after = "loop" /\ pc' = "loop" /\ UNCHANGED <<snap, seen, todo>>
    <3>1. AvailableOnline' = AvailableOnline /\ Looping
      BY <2>5 DEF AvailableOnline, Looping, Destroy, Teardown
    <3>2. StoppedInv'
      BY <2>2, <2>5, <3>1 DEF JobInv, StoppedInv, Teardown
    <3>3. QED
      BY <2>3, <2>5, <3>2 DEF JobInv, ServiceInv, Provisioning
  <2>6. QED
    BY <2>4, <2>5 DEF Destroy, ScaleDownDeleted, ScaleDownKept, loopVars
<1>21. NoScaleUp => JobInv'
  BY <1>4 DEF NoScaleUp, world
<1>22. RequestScaleUp => JobInv'
  BY <1>4, QuietInv DEF RequestScaleUp, world, Teardown, Provisioning
<1>23. \A name \in 1 .. Cardinality(names) + 1 : CloneSucceeds(name) => JobInv'
  <2> SUFFICES ASSUME NEW name \in 1 .. Cardinality(names) + 1, CloneSucceeds(name)
               PROVE  JobInv'
    OBVIOUS
  <2>1. runner' = runner /\ pc' = "boot" /\ cur' = name
    BY DEF CloneSucceeds
  <2>2. ~Active(name)
    BY <1>0 DEF CloneSucceeds, Serving, Active, Runs
  <2>3. Serving'
    BY <1>0, <1>1, <2>1, <2>2, ServeAfter DEF CloneSucceeds
  <2>4. ~Active(cur)'
    BY <2>1, <2>2 DEF Active
  <2>5. QED
    BY <2>1, <2>3, <2>4, StoppedAway DEF JobInv, ServiceInv, Teardown
<1>24. \A name \in 1 .. Cardinality(names) + 1 : CloneFails(name) => JobInv'
  <2> SUFFICES ASSUME NEW name \in 1 .. Cardinality(names) + 1, CloneFails(name)
               PROVE  JobInv'
    OBVIOUS
  <2>1. runner' = runner /\ ~Active(name)
    BY <1>0 DEF CloneFails, Serving, Active, Runs
  <2>2. Serving'
    BY <1>0, <1>1, <2>1, ServeAfter DEF CloneFails
  <2>3. QED
    BY <2>2, ReturnJobs DEF CloneFails
<1>25. \A name \in 1 .. Cardinality(names) + 1 : CloneConflict(name) => JobInv'
  BY <1>4, QuietInv DEF CloneConflict, world, Teardown, Provisioning
<1>26. BootRunner => JobInv'
  <2> SUFFICES ASSUME BootRunner PROVE JobInv'
    OBVIOUS
  <2>1. pc \in Provisioning /\ runner' = runner
    BY DEF BootRunner, Provisioning
  <2>2. CASE StepFails(cur \in DOMAIN container)
    BY <1>1, <2>1, <2>2, StepFailsJobs
  <2>3. CASE container' = With(container, cur, "running") /\ pc' = "register" /\ cur' = cur
    <3>1. ~Active(cur)'
      BY <1>0, <2>1, <2>3 DEF Active
    <3>2. Serving'
      <4> DEFINE k == cur
      <4>1. /\ ~(k \in DOMAIN runner' /\ runner'[k] # "registered")
            /\ container' = With(container, k, "running")
        BY <2>3, <3>1 DEF Active
      <4> HIDE DEF k
      <4>2. QED
        BY <1>0, <1>1, <2>1, <4>1, ServeAfter DEF Active
    <3>3. QED
      BY <2>3, <3>1, <3>2, StoppedAway DEF JobInv, ServiceInv, Teardown
  <2>4. QED
    BY <2>2, <2>3 DEF BootRunner, stepVars
<1>27. RegisterRunner => JobInv'
  <2> SUFFICES ASSUME RegisterRunner PROVE JobInv'
    OBVIOUS
  <2>1. pc \in Provisioning
    BY DEF RegisterRunner, Provisioning
  <2>2. runner' = runner \/ runner' = With(runner, cur, "registered")
    BY DEF RegisterRunner
  <2>3. \A m : Active(m)' => Active(m)
    <3>1. CASE runner' = With(runner, cur, "registered")
      BY <3>1 DEF Active, With
    <3>2. QED
      BY <1>1, <2>2, <3>1
  <2>4. CASE StepFails(CurRunning)
    BY <2>1, <2>3, <2>4, StepFailsJobs
  <2>5. CASE pc' = "service" /\ UNCHANGED <<container, cur>>
    <3>1. Serving'
      BY <1>0, <2>3, <2>5, ServeSame
    <3>2. ~Active(cur)'
      BY <1>0, <2>1, <2>3, <2>5 DEF Active
    <3>3. QED
      BY <2>5, <3>1, <3>2, StoppedAway DEF JobInv, ServiceInv, Teardown
  <2>6. QED
    BY <2>4, <2>5 DEF RegisterRunner, stepVars
<1>28. StartService => JobInv'
  <2> SUFFICES ASSUME StartService PROVE JobInv'
    OBVIOUS
  <2>1. CASE StepFails(CurRunning) /\ runner' = runner
    <3>1. pc \in Provisioning
      BY DEF StartService, Provisioning
    <3>2. QED
      BY <1>1, <2>1, <3>1, StepFailsJobs
  <2>2. CASE ~(StepFails(CurRunning) /\ runner' = runner)
    <3>1. /\ runner' = runner \/ runner' = With(runner, cur, "offline")
          /\ container' = container /\ CurRunning
          /\ pc' \in {"up", "list"}
      BY <2>2 DEF StartService, BaselineDone
    <3>2. \A m : m # cur /\ Active(m)' => Active(m)
      BY <3>1 DEF Active, With
    <3>3. Serving'
      BY <1>0, <3>1, <3>2 DEF Serving, Active, Runs, CurRunning
    <3>4. QED
      BY <3>1, <3>3, StoppedAway DEF JobInv, ServiceInv, Teardown, Provisioning
  <2>3. QED
    BY <2>1, <2>2
<1>29. Tick => JobInv'
  BY <1>2 DEF Tick
<1>30. \A n \in DOMAIN runner :
         RunnerConnects(n) \/ RunnerDisconnects(n) \/ JobAssigned(n) \/ JobFinished(n) => JobInv'
  <2> SUFFICES ASSUME NEW n \in DOMAIN runner,
                      RunnerConnects(n) \/ RunnerDisconnects(n) \/ JobAssigned(n) \/ JobFinished(n)
               PROVE  JobInv'
    OBVIOUS
  <2>1. /\ \/ \E s : runner' = With(runner, n, s)
           \/ runner' = Without(runner, n)
        /\ runner[n] \in {"offline", "idle", "busy"}
        /\ UNCHANGED <<container, PassVars>>
    BY DEF RunnerConnects, RunnerDisconnects, JobAssigned, JobFinished, RunnerMoves
  <2>2. Active(n)
    BY <2>1 DEF Active
  <2>3. \A m : Active(m)' => Active(m)
    BY <2>1, <2>2 DEF Active, With, Without
  <2>4. QED
    BY <1>0, <2>1, <2>3, ServeSame, OutsideJobs
<1>31. \A n \in DOMAIN container : ContainerStops(n) => JobInv'
  <2> SUFFICES ASSUME NEW n \in DOMAIN container, ContainerStops(n) PROVE JobInv'
    OBVIOUS
  <2>1. \A m : Active(m)' => Active(m) /\ m # n
    BY ActiveDetached DEF ContainerStops
  <2>2. Serving'
    BY <1>0, <2>1, ServeAfter DEF ContainerStops
  <2>3. QED
    BY <2>1, <2>2, OutsideJobs DEF ContainerStops
<1>32. \A n \in DOMAIN container : ForeignDelete(n) => JobInv'
  <2> SUFFICES ASSUME NEW n \in DOMAIN container, ForeignDelete(n) PROVE JobInv'
    OBVIOUS
  <2>1. \A m : Active(m)' => Active(m) /\ m # n
    BY ActiveDetached DEF ForeignDelete
  <2>2. Serving'
    BY <1>0, <2>1, ServeAfter DEF ForeignDelete
  <2>3. QED
    BY <2>1, <2>2, OutsideJobs DEF ForeignDelete
<1>33. \A n \in DOMAIN lastActive : StateFileLost(n) => JobInv'
  BY <1>2 DEF StateFileLost
<1>34. \A n \in 1 .. MaxAutoRunners + MaxForeign : ForeignCreate(n) => JobInv'
  <2> SUFFICES ASSUME NEW n \in 1 .. MaxAutoRunners + MaxForeign, ForeignCreate(n)
               PROVE  JobInv'
    OBVIOUS
  <2>1. runner' = runner /\ ~Active(n)
    BY <1>0 DEF ForeignCreate, Serving, Active, Runs
  <2>2. Serving'
    BY <1>0, <1>1, <2>1, ServeAfter DEF ForeignCreate
  <2>3. QED
    BY <1>1, <2>1, <2>2, OutsideJobs DEF ForeignCreate
<1>35. QED
  BY <1>3, <1>5, <1>6, <1>7, <1>8, <1>9, <1>10, <1>11, <1>12, <1>13, <1>14, <1>15, <1>16,
     <1>17, <1>18, <1>19, <1>20, <1>21, <1>22, <1>23, <1>24, <1>25, <1>26, <1>27, <1>28,
     <1>29, <1>30, <1>31, <1>32, <1>33, <1>34, StepCases

(* Whatever fails, stops, crashes or is deleted between the listing and    *)
(* the teardown, no job the listing shows running is killed.               *)
THEOREM KnownJobsSurvive == Spec => []NoKnownJobKilled
<1>1. JobInv => NoKnownJobKilled
  BY DEF JobInv, StoppedInv, NoKnownJobKilled, Teardown, Active
<1>2. QED
  BY <1>1, FullTypeInit, FullTypeStep, CapInit, CapStep, JobInit, JobStep, PTL DEF Spec

(***************************************************************************)
(* Not provisioning twice                                                  *)
(***************************************************************************)

(* The class's runners with a service behind them and no job.              *)
ReadyNames == {n \in DOMAIN runner \ {Baseline} : runner[n] \in {"offline", "idle"}}

(* Those that may still be coming online.                                  *)
YoungNames == {n \in ReadyNames : n \in DOMAIN lastActive /\ lastActive[n] <= Grace}

(* The pass has listed the runners and created none of the class yet.      *)
BeforeUp == \/ pc \in {"baseline", "list", "loop", "cloneBaseline"} \cup Teardown
            \/ pc \in Provisioning /\ after = "baseline"

(* The pass knows how many runners are needed.                             *)
Scaling == pc \in {"up", "clone"} \/ Creating

(* Without a fault, every ready runner has its state file.                 *)
FilesInv == faults = 0 => ReadyNames \subseteq DOMAIN lastActive

(* The listing covers the ready runners: none becomes ready before the     *)
(* pass creates one.                                                       *)
ListedInv ==
  BeforeUp => \A n \in ReadyNames : n \in DOMAIN snap /\ snap[n] \in {"offline", "idle"}

(* Young runners the loop has visited and does not count as online.        *)
Waiting == {n \in YoungNames : n \notin todo /\ n \notin AvailableOnline}

(* The loop sees every young runner's container running, and counts the    *)
(* visited ones as pending capacity.                                       *)
VisitedInv ==
  faults = 0 /\ Looping =>
    /\ \A c \in todo \cap YoungNames : seen[c] = "running"
    /\ Cardinality(Waiting) <= pendingCapacity

(* What is needed comes on top of the young runners, and is counted down   *)
(* with every runner created.                                              *)
NeededInv ==
  /\ pc = "clone" \/ Creating => needed > 0
  /\ faults = 0 /\ Scaling => Cardinality(YoungNames) + needed <= MaxDemand

(* The young runners are within the demand.                                *)
YoungInv == faults = 0 => Cardinality(YoungNames) <= MaxDemand

SupplyInv == FilesInv /\ ListedInv /\ VisitedInv /\ NeededInv /\ YoungInv

(* The step creates a runner of the class, and the pass counts it.         *)
CountedStart ==
  /\ pc = "service" /\ after = "up" /\ pc' = "up" /\ needed' = needed - 1
  /\ runner' \in {runner, With(runner, cur, "offline")}
  /\ faults' = 0 => faults = 0 /\ lastActive' = With(lastActive, cur, 0)

(* The step makes no runner ready and, short of a fault, none young.       *)
Steady ==
  /\ ReadyNames' \subseteq ReadyNames
  /\ faults' = 0 => /\ faults = 0
                    /\ FilesInv'
                    /\ YoungNames' \subseteq YoungNames

(* The loop visits c, and counts it if it is young and not yet online.     *)
Counted(c) ==
  /\ pc = "loop" /\ todo' = todo \ {c}
  /\ UNCHANGED <<snap, seen>>
  /\ pendingCapacity' \in {pendingCapacity, pendingCapacity + 1}
  /\ faults' = 0 /\ c \in YoungNames /\ c \notin AvailableOnline =>
       pendingCapacity' = pendingCapacity + 1

(* A fault is never forgotten.                                             *)
LEMMA FaultsKept ==
  ASSUME FullType
  PROVE  /\ CanFail => faults' # 0
         /\ UNCHANGED faults => (faults' = 0 => faults = 0)
BY DEF FullType, BoundType, CanFail

(* What makes no runner ready.                                             *)
LEMMA ReadyShrinks ==
  ASSUME NEW k, NEW s,
         \/ runner' = runner
         \/ runner' = Without(runner, k)
         \/ runner' = Detached(runner, k)
         \/ runner' = With(runner, k, s)
            /\ (s \notin {"offline", "idle"} \/ k = Baseline \/ k \in ReadyNames)
  PROVE  ReadyNames' \subseteq ReadyNames
<1>1. CASE runner' = runner
  BY <1>1 DEF ReadyNames
<1>2. CASE runner' = Without(runner, k)
  <2>1. /\ DOMAIN runner' = DOMAIN runner \ {k}
        /\ \A n \in DOMAIN runner : n # k => runner'[n] = runner[n]
    BY <1>2, WithoutFacts
  <2>2. QED
    BY <2>1 DEF ReadyNames
<1>3. CASE runner' = Detached(runner, k)
  <2>1. /\ DOMAIN runner' = DOMAIN runner
        /\ k \in DOMAIN runner => runner'[k] = "registered"
        /\ \A n \in DOMAIN runner : n # k => runner'[n] = runner[n]
    BY <1>3, DetachedFacts
  <2>2. QED
    BY <2>1 DEF ReadyNames
<1>4. CASE /\ runner' = With(runner, k, s)
           /\ s \notin {"offline", "idle"} \/ k = Baseline \/ k \in ReadyNames
  BY <1>4 DEF ReadyNames, With
<1>5. QED
  BY <1>1, <1>2, <1>3, <1>4

(* Only the state file of a runner that is not ready is written.           *)
LEMMA SteadyFiles ==
  ASSUME FilesInv, ReadyNames' \subseteq ReadyNames, NEW k, NEW a,
         faults' = 0 => /\ faults = 0
                        /\ \/ lastActive' = lastActive
                           \/ /\ k \notin ReadyNames'
                              /\ \/ lastActive' = With(lastActive, k, a)
                                 \/ lastActive' = Without(lastActive, k)
  PROVE  Steady
<1> SUFFICES ASSUME faults' = 0
             PROVE  FilesInv' /\ YoungNames' \subseteq YoungNames
  BY DEF Steady
<1>1. \A n \in ReadyNames' : n \in DOMAIN lastActive' /\ lastActive'[n] = lastActive[n]
  BY DEF FilesInv, With, Without
<1>2. FilesInv'
  BY <1>1 DEF FilesInv
<1>3. ASSUME NEW n \in YoungNames' PROVE n \in YoungNames
  <2>1. n \in ReadyNames' /\ lastActive'[n] <= Grace
    BY DEF YoungNames
  <2>2. n \in ReadyNames /\ n \in DOMAIN lastActive /\ lastActive[n] <= Grace
    BY <1>1, <2>1 DEF FilesInv
  <2>3. QED
    BY <2>2 DEF YoungNames
<1>4. QED
  BY <1>2, <1>3

(* Neither registrations nor state files change.                           *)
LEMMA SteadySame ==
  ASSUME FullType, FilesInv, UNCHANGED <<runner, lastActive>>, CanFail \/ UNCHANGED faults
  PROVE  Steady
BY ReadyShrinks, SteadyFiles, FaultsKept

(* Every step but the counted start is steady.                             *)
LEMMA SteadyStep ==
  ASSUME FullType, CapInv, JobInv, FilesInv, ListedInv, [Next]_vars
  PROVE  Steady \/ CountedStart
<1> DEFINE P == Steady \/ CountedStart
<1> HIDE DEF P
<1>0. /\ PlaceInv /\ Serving
      /\ Steady \/ CountedStart => P
  BY DEF CapInv, PassInv, JobInv, ServiceInv, P
<1>1. UNCHANGED <<runner, lastActive>> /\ (CanFail \/ UNCHANGED faults) => P
  BY <1>0, SteadySame
<1>2. Baseline \notin ReadyNames /\ Baseline \notin ReadyNames'
  BY DEF ReadyNames
<1>3. UNCHANGED vars => P
  BY <1>1 DEF vars, world, bounds
<1>5. \A d \in 0 .. MaxDemand : StartPass(d) => P
  BY <1>1 DEF StartPass, world, bounds
<1>6. Crash => P
  BY <1>1 DEF Crash, world
<1>7. BaselineOnline \/ BaselineListFails => P
  BY <1>1 DEF BaselineOnline, BaselineListFails, world
<1>8. BaselineStarting => P
  <2> SUFFICES ASSUME BaselineStarting PROVE P
    OBVIOUS
  <2>1. ReadyNames' \subseteq ReadyNames
    BY ReadyShrinks DEF BaselineStarting
  <2>2. \/ lastActive' = lastActive \/ lastActive' = With(lastActive, Baseline, 0)
    BY DEF BaselineStarting
  <2>3. faults' = 0 => faults = 0
    BY FaultsKept DEF BaselineStarting
  <2>4. QED
    BY <1>0, <1>2, <2>1, <2>2, <2>3, SteadyFiles
<1>9. BaselineStale \/ BaselineMissing => P
  BY <1>1 DEF BaselineStale, BaselineMissing, world, bounds
<1>10. CloneBaseline => P
  BY <1>1 DEF CloneBaseline, bounds
<1>11. ListAuto => P
  BY <1>1 DEF ListAuto, world
<1>12. ListFails => P
  BY <1>1 DEF ListFails, world
<1>13. EndLoop => P
  BY <1>1 DEF EndLoop, world, bounds
<1>14. \A c \in todo : SkipUnreadable(c) => P
  BY <1>1 DEF SkipUnreadable, LoopFrame
<1>15. \A c \in todo, status \in Statuses : VisitStopped(c, status) => P
  BY <1>1 DEF VisitStopped, LoopFrame
<1>16. \A c \in todo, status \in Statuses : VisitBusy(c, status) => P
  <2> SUFFICES ASSUME NEW c \in todo, NEW status \in Statuses, VisitBusy(c, status)
               PROVE  P
    OBVIOUS
  <2>1. ReadyNames' = ReadyNames
    BY DEF VisitBusy, LoopFrame, ReadyNames
  <2>2. c \notin ReadyNames
    BY DEF VisitBusy, StatusOf, ListedInv, BeforeUp
  <2>3. /\ lastActive' = lastActive \/ lastActive' = With(lastActive, c, elapsed)
        /\ CanFail \/ UNCHANGED faults
    BY DEF VisitBusy, Saved
  <2>4. faults' = 0 => faults = 0
    BY <2>3, FaultsKept
  <2>5. QED
    BY <1>0, <2>1, <2>2, <2>3, <2>4, SteadyFiles
<1>17. ASSUME NEW c, NEW status, Saved(c, status, Touched(c)), runner' = runner
       PROVE  P
  <2>1. ReadyNames' = ReadyNames
    BY <1>17 DEF ReadyNames
  <2>2. /\ \/ lastActive' = lastActive
           \/ lastActive' = With(lastActive, c, elapsed) /\ c \notin DOMAIN lastActive
        /\ CanFail \/ UNCHANGED faults
    BY <1>17 DEF Saved, Touched
  <2>3. faults' = 0 => faults = 0
    BY <2>2, FaultsKept
  <2>4. faults = 0 /\ c \notin DOMAIN lastActive => c \notin ReadyNames'
    BY <2>1 DEF FilesInv
  <2>5. QED
    BY <1>0, <2>1, <2>2, <2>3, <2>4, SteadyFiles
<1>18. \A c \in todo, status \in Statuses : VisitOrphan(c, status) => P
  BY <1>17 DEF VisitOrphan, LoopFrame
<1>19. \A c \in todo, status \in Statuses : VisitIdle(c, status) => P
  BY <1>17 DEF VisitIdle, LoopFrame
<1>20. Deregister => P
  <2> SUFFICES ASSUME Deregister PROVE P
    OBVIOUS
  <2>1. /\ lastActive' = lastActive /\ (CanFail \/ UNCHANGED faults)
        /\ \/ runner' = runner \/ runner' = Without(runner, cur)
           \/ runner' = Detached(runner, cur)
    BY DEF Deregister
  <2>2. ReadyNames' \subseteq ReadyNames
    BY <2>1, ReadyShrinks
  <2>3. QED
    BY <1>0, <2>1, <2>2, SteadyFiles, FaultsKept
<1>21. Destroy => P
  <2> SUFFICES ASSUME Destroy PROVE P
    OBVIOUS
  <2>1. /\ \/ lastActive' = lastActive \/ lastActive' = Without(lastActive, cur)
        /\ \/ runner' = Detached(runner, cur)
           \/ runner' = runner
        /\ faults' = 0 => runner' = Detached(runner, cur) \/ cur \notin DOMAIN container
        /\ faults' = 0 => faults = 0
    BY FaultsKept DEF Destroy
  <2>2. ReadyNames' \subseteq ReadyNames
    BY <2>1, ReadyShrinks
  <2>3. runner' = Detached(runner, cur) => cur \notin ReadyNames'
    BY DetachedFacts DEF ReadyNames
  <2>4. cur \notin DOMAIN container => cur \notin ReadyNames
    BY <1>0 DEF Serving, Active, Runs, ReadyNames
  <2>5. faults' = 0 => cur \notin ReadyNames'
    BY <2>1, <2>2, <2>3, <2>4
  <2>6. QED
    BY <1>0, <2>1, <2>2, <2>5, SteadyFiles
<1>22. NoScaleUp => P
  BY <1>1 DEF NoScaleUp, world
<1>23. RequestScaleUp => P
  BY <1>1 DEF RequestScaleUp, world, bounds
<1>24. \A name \in 1 .. Cardinality(names) + 1 :
         CloneSucceeds(name) \/ CloneFails(name) \/ CloneConflict(name) => P
  BY <1>1 DEF CloneSucceeds, CloneFails, CloneConflict, world, bounds
<1>25. BootRunner => P
  BY <1>1 DEF BootRunner, StepFails, bounds
<1>26. RegisterRunner => P
  <2> SUFFICES ASSUME RegisterRunner PROVE P
    OBVIOUS
  <2>1. /\ lastActive' = lastActive /\ (CanFail \/ UNCHANGED faults)
        /\ runner' = runner \/ runner' = With(runner, cur, "registered")
    BY DEF RegisterRunner, StepFails, bounds
  <2>2. ReadyNames' \subseteq ReadyNames
    BY <2>1, ReadyShrinks
  <2>3. QED
    BY <1>0, <2>1, <2>2, SteadyFiles, FaultsKept
<1>27. StartService => P
  <2> SUFFICES ASSUME StartService PROVE P
    OBVIOUS
  <2>1. CASE StepFails(CurRunning) /\ UNCHANGED <<runner, lastActive>>
    BY <1>1, <2>1 DEF StepFails
  <2>2. CASE /\ runner' \in {runner, With(runner, cur, "offline")}
             /\ \/ lastActive' = With(lastActive, cur, 0) /\ UNCHANGED faults
                \/ lastActive' = lastActive /\ CanFail
    <3>1. CASE after = "up" /\ needed' = needed - 1 /\ pc' = "up"
      BY <1>0, <2>2, <3>1, FaultsKept DEF StartService, CountedStart
    <3>2. CASE after = "baseline"
      <4>1. cur = Baseline
        BY <1>0, <3>2 DEF PlaceInv, StartService, Provisioning
      <4>2. ReadyNames' \subseteq ReadyNames
        BY <2>2, <4>1, ReadyShrinks
      <4>3. QED
        BY <1>0, <1>2, <2>2, <4>1, <4>2, SteadyFiles, FaultsKept
    <3>3. QED
      BY <2>1, <3>1, <3>2 DEF StartService
  <2>3. QED
    BY <2>1, <2>2 DEF StartService
<1>28. Tick => P
  <2> SUFFICES ASSUME Tick PROVE P
    OBVIOUS
  <2>1. ReadyNames' = ReadyNames /\ faults' = faults /\ DOMAIN lastActive' = DOMAIN lastActive
    BY DEF Tick, ReadyNames, bounds
  <2>2. \A n \in DOMAIN lastActive : lastActive'[n] <= Grace => lastActive[n] <= Grace
    <3> SUFFICES ASSUME NEW n \in DOMAIN lastActive, lastActive'[n] <= Grace
                 PROVE  lastActive[n] <= Grace
      OBVIOUS
    <3>1. lastActive[n] \in 0 .. AgeCap /\ lastActive'[n] = Aged(lastActive[n])
      BY DEF FullType, WorldType, Table, Tick
    <3>2. QED
      BY <3>1, AgesOrdered DEF Aged
  <2>3. Steady
    BY <2>1, <2>2 DEF Steady, FilesInv, YoungNames
  <2>4. QED
    BY <1>0, <2>3
<1>29. \A n \in DOMAIN runner :
         RunnerConnects(n) \/ RunnerDisconnects(n) \/ JobAssigned(n) \/ JobFinished(n) => P
  <2> SUFFICES ASSUME NEW n \in DOMAIN runner,
                      RunnerConnects(n) \/ RunnerDisconnects(n) \/ JobAssigned(n) \/ JobFinished(n)
               PROVE  P
    OBVIOUS
  <2>1. UNCHANGED <<lastActive, faults>>
    BY DEF RunnerConnects, RunnerDisconnects, JobAssigned, JobFinished, RunnerMoves, bounds
  <2>2. \/ runner' = With(runner, n, "busy")
        \/ runner' = Without(runner, n)
        \/ n = Baseline /\ runner' = With(runner, n, "idle")
        \/ runner[n] \in {"offline", "idle"} /\ \E s : runner' = With(runner, n, s)
    BY DEF RunnerConnects, RunnerDisconnects, JobAssigned, JobFinished, RunnerMoves
  <2>3. runner[n] \in {"offline", "idle"} => n = Baseline \/ n \in ReadyNames
    BY DEF ReadyNames
  <2>4. ReadyNames' \subseteq ReadyNames
    BY <2>2, <2>3, ReadyShrinks
  <2>5. QED
    BY <1>0, <2>1, <2>4, SteadyFiles
<1>30. ASSUME NEW n, runner' = Detached(runner, n), lastActive' = lastActive,
              CanFail \/ UNCHANGED faults
       PROVE  P
  BY <1>0, <1>30, ReadyShrinks, SteadyFiles, FaultsKept
<1>31. \A n \in DOMAIN container : ContainerStops(n) => P
  BY <1>30 DEF ContainerStops
<1>32. \A n \in DOMAIN container : ForeignDelete(n) => P
  BY <1>30 DEF ForeignDelete
<1>33. \A n \in DOMAIN lastActive : StateFileLost(n) => P
  <2> SUFFICES ASSUME NEW n \in DOMAIN lastActive, StateFileLost(n) PROVE P
    OBVIOUS
  <2>1. runner' = runner /\ faults' # 0
    BY FaultsKept DEF StateFileLost
  <2>2. Steady
    BY <2>1, ReadyShrinks DEF Steady
  <2>3. QED
    BY <1>0, <2>2
<1>34. \A n \in 1 .. MaxAutoRunners + MaxForeign : ForeignCreate(n) => P
  BY <1>1 DEF ForeignCreate
<1>35. P
  BY <1>3, <1>5, <1>6, <1>7, <1>8, <1>9, <1>10, <1>11, <1>12, <1>13, <1>14, <1>15, <1>16,
     <1>18, <1>19, <1>20, <1>21, <1>22, <1>23, <1>24, <1>25, <1>26, <1>27, <1>28,
     <1>29, <1>31, <1>32, <1>33, <1>34, StepCases
<1>36. QED
  BY <1>35 DEF P

(* Where the pass goes, and what it carries along.                         *)
Phases ==
  /\ BeforeUp' => \/ BeforeUp /\ snap' = snap
                  \/ snap' = runner /\ runner' = runner
  /\ Looping' => \/ Looping /\ UNCHANGED <<snap, seen, todo, pendingCapacity>>
                 \/ ListAuto
                 \/ \E c \in todo : Counted(c)
  /\ Scaling' => \/ Scaling /\ needed' = needed
                 \/ EndLoop
                 \/ CountedStart
  /\ pc' = "clone" \/ Creating' => /\ needed' = needed
                                   /\ pc = "clone" \/ Creating \/ WantsRunner

(* A pass that ended, or returned from ensureBaseline.                     *)
LEMMA PhasesReturn ==
  ASSUME NEW p, EndPass \/ (BaselineDone(p) /\ BeforeUp)
  PROVE  Phases
<1>1. /\ pc' \in {"idle", "list"}
      /\ pc' = "list" => BeforeUp /\ snap' = snap
  BY DEF EndPass, BaselineDone
<1>2. QED
  BY <1>1 DEF Phases, BeforeUp, Looping, Scaling, Creating, Teardown, Provisioning

(* A step outside the pass.                                                *)
LEMMA PhasesSame ==
  ASSUME UNCHANGED PassVars
  PROVE  Phases
<1>1. UNCHANGED <<pc, snap, seen, todo, pendingCapacity, needed, after>>
  BY DEF PassVars, loopVars, stepVars
<1>2. /\ BeforeUp' = BeforeUp /\ Looping' = Looping /\ Scaling' = Scaling
      /\ Creating' = Creating
  BY <1>1 DEF BeforeUp, Looping, Scaling, Creating
<1>3. QED
  BY <1>1, <1>2 DEF Phases

(* A failed step of a provisioning.                                        *)
LEMMA PhasesFailed ==
  ASSUME NEW working, StepFails(working), pc \in Provisioning
  PROVE  Phases
<1>1. after = "baseline" => BeforeUp
  BY DEF BeforeUp
<1>2. QED
  BY <1>1, PhasesReturn DEF StepFails, ProvisionFailed

(* A visit that counts as it should.                                       *)
LEMMA PhasesVisit ==
  ASSUME pc = "loop", NEW c \in todo, Counted(c), Visited(c) \/ BeginScaleDown(c), LoopFrame
  PROVE  Phases
<1>1. /\ pc' = "loop" \/ (pc' = "deregister" /\ after' = "loop")
      /\ snap' = snap
  BY DEF Visited, BeginScaleDown, LoopFrame
<1>2. BeforeUp
  BY DEF BeforeUp
<1>3. QED
  BY <1>1, <1>2 DEF Phases, Scaling, Creating, Provisioning

(* A young runner the loop comes to is neither stopped nor unreadable, not *)
(* an orphan and not busy, and its idle time is within the grace.          *)
LEMMA YoungSeen ==
  ASSUME FullType, ListedInv, VisitedInv, pc = "loop", faults = 0, NEW c \in todo,
         c \in YoungNames
  PROVE  /\ seen[c] = "running" /\ ~NeedsRefresh(c)
         /\ c \in DOMAIN snap /\ snap[c] \in {"offline", "idle"}
         /\ c \in DOMAIN lastActive /\ IdleDur(c) <= Grace
<1>1. seen[c] = "running"
  BY DEF VisitedInv, Looping
<1>2. c \in ReadyNames /\ c \in DOMAIN lastActive /\ lastActive[c] <= Grace
  BY DEF YoungNames
<1>3. BeforeUp
  BY DEF BeforeUp
<1>4. c \in DOMAIN snap /\ snap[c] \in {"offline", "idle"}
  BY <1>2, <1>3 DEF ListedInv
<1>5. lastActive[c] \in Int /\ elapsed \in Nat /\ Grace \in Nat
  BY <1>2, AgesOrdered, BoundAssumption DEF FullType, WorldType, LoopType, Table
<1>6. IdleDur(c) <= Grace
  BY <1>2, <1>5 DEF IdleDur
<1>7. QED
  BY <1>1, <1>2, <1>4, <1>6 DEF NeedsRefresh

(* The control of every step.                                              *)
LEMMA PhasesStep ==
  ASSUME FullType, CapInv, ListedInv, VisitedInv, [Next]_vars
  PROVE  Phases
<1>0. PlaceInv
  BY DEF CapInv, PassInv
<1>1. UNCHANGED vars => Phases
  BY PhasesSame DEF vars, PassVars
<1>2. EndPass => Phases
  BY PhasesReturn
<1>3. \A p : BaselineDone(p) /\ BeforeUp => Phases
  BY PhasesReturn
<1>4. pc \in {"baseline", "cloneBaseline", "deregister", "destroy"} => BeforeUp
  BY DEF BeforeUp, Teardown
<1>5. \A d \in 0 .. MaxDemand : StartPass(d) => Phases
  BY DEF StartPass, world, Phases, BeforeUp, Looping, Scaling, Creating, Teardown, Provisioning
<1>6. Crash => Phases
  BY <1>2 DEF Crash
<1>7. BaselineOnline \/ BaselineListFails => Phases
  BY <1>3, <1>4 DEF BaselineOnline, BaselineListFails, BaselineOffline
<1>8. BaselineStarting => Phases
  BY <1>3, <1>4 DEF BaselineStarting, BaselineOffline
<1>9. BaselineStale \/ BaselineMissing => Phases
  <2> SUFFICES ASSUME BaselineStale \/ BaselineMissing PROVE Phases
    OBVIOUS
  <2>1. /\ pc = "baseline" /\ snap' = snap
        /\ pc' = "cloneBaseline" \/ (pc' = "deregister" /\ after' = "baseline")
    BY DEF BaselineStale, BaselineMissing, BaselineOffline, loopVars
  <2>2. QED
    BY <1>4, <2>1 DEF Phases, Looping, Scaling, Creating, Teardown, Provisioning
<1>10. CloneBaseline => Phases
  <2> SUFFICES ASSUME CloneBaseline PROVE Phases
    OBVIOUS
  <2>1. CASE BaselineDone(0)
    BY <1>3, <1>4, <2>1 DEF CloneBaseline
  <2>2. CASE pc' = "boot" /\ after' = "baseline" /\ snap' = snap
    BY <1>4, <2>2 DEF CloneBaseline, Phases, Looping, Scaling, Creating, Teardown
  <2>3. QED
    BY <2>1, <2>2 DEF CloneBaseline, loopVars
<1>11. ListAuto => Phases
  <2> SUFFICES ASSUME ListAuto PROVE Phases
    OBVIOUS
  <2>1. pc = "list" /\ pc' = "loop" /\ snap' = snap
    BY DEF ListAuto
  <2>2. BeforeUp
    BY <2>1 DEF BeforeUp
  <2>3. QED
    BY <2>1, <2>2 DEF Phases, Scaling, Creating, Provisioning
<1>12. ListFails => Phases
  BY <1>2 DEF ListFails
<1>13. EndLoop => Phases
  <2> SUFFICES ASSUME EndLoop PROVE Phases
    OBVIOUS
  <2>1. pc' = "up"
    BY DEF EndLoop
  <2>2. QED
    BY <2>1 DEF Phases, BeforeUp, Looping, Creating, Teardown, Provisioning
<1>14. ASSUME NEW c \in todo, pc = "loop", LoopFrame, Visited(c) \/ BeginScaleDown(c),
              CanFail \/ UNCHANGED faults,
              pendingCapacity' \in {pendingCapacity, pendingCapacity + 1},
              faults = 0 /\ faults' = 0 /\ c \in YoungNames /\ c \notin AvailableOnline =>
                pendingCapacity' = pendingCapacity + 1
       PROVE  Phases
  <2>1. Counted(c)
    BY <1>14, FaultsKept DEF Counted, Visited, BeginScaleDown, LoopFrame
  <2>2. QED
    BY <1>14, <2>1, PhasesVisit
<1>15. \A c \in todo : SkipUnreadable(c) => Phases
  BY <1>14, YoungSeen DEF SkipUnreadable
<1>16. \A c \in todo, status \in Statuses : VisitStopped(c, status) => Phases
  BY <1>14, YoungSeen DEF VisitStopped, StatusOf
<1>17. \A c \in todo, status \in Statuses : VisitBusy(c, status) => Phases
  BY <1>14, YoungSeen DEF VisitBusy, StatusOf, Saved
<1>18. \A c \in todo, status \in Statuses : VisitOrphan(c, status) => Phases
  BY <1>14, YoungSeen DEF VisitOrphan, StatusOf, Saved
<1>19. \A c \in todo, status \in Statuses : VisitIdle(c, status) => Phases
  <2> SUFFICES ASSUME NEW c \in todo, NEW status \in Statuses, VisitIdle(c, status)
               PROVE  Phases
    OBVIOUS
  <2>1. /\ pc = "loop" /\ LoopFrame /\ (Visited(c) \/ BeginScaleDown(c))
        /\ CanFail \/ UNCHANGED faults
        /\ pendingCapacity' = IF PendingRunnerCapacity(c, status)
                              THEN pendingCapacity + 1 ELSE pendingCapacity
        /\ ~NeedsRefresh(c) => status = seen[c]
    BY DEF VisitIdle, StatusOf, Saved
  <2>2. ASSUME faults = 0, c \in YoungNames, c \notin AvailableOnline
        PROVE  PendingRunnerCapacity(c, status)
    <3>1. /\ status = "running" /\ IdleDur(c) <= Grace
          /\ c \in DOMAIN snap /\ snap[c] \in {"offline", "idle"}
      BY <2>1, <2>2, YoungSeen
    <3>2. snap[c] = "offline"
      BY <2>2, <3>1 DEF AvailableOnline
    <3>3. QED
      BY <3>1, <3>2 DEF PendingRunnerCapacity, Online
  <2>3. QED
    BY <1>14, <2>1, <2>2
<1>20. Deregister => Phases
  <2> SUFFICES ASSUME Deregister PROVE Phases
    OBVIOUS
  <2>1. /\ pc = "deregister" /\ pc' = "destroy"
        /\ UNCHANGED <<after, snap, seen, todo, pendingCapacity>>
    BY DEF Deregister, loopVars, stepVars
  <2>2. QED
    BY <1>4, <2>1 DEF Phases, Looping, Scaling, Creating, Teardown, Provisioning
<1>21. Destroy => Phases
  <2> SUFFICES ASSUME Destroy PROVE Phases
    OBVIOUS
  <2>1. pc = "destroy"
    BY DEF Destroy
  <2>2. CASE BaselineDone(0)
    BY <1>3, <1>4, <2>1, <2>2
  <2>3. CASE pc' = "cloneBaseline" /\ snap' = snap
    BY <1>4, <2>1, <2>3 DEF Phases, Looping, Scaling, Creating, Teardown, Provisioning
  <2>4. CASE /\ after = "loop" /\ pc' = "loop"
             /\ UNCHANGED <<snap, seen, todo, pendingCapacity>>
    BY <1>4, <2>1, <2>4 DEF Phases, Looping, Scaling, Creating, Teardown, Provisioning
  <2>5. QED
    BY <2>2, <2>3, <2>4 DEF Destroy, ScaleDownDeleted, ScaleDownKept, loopVars
<1>22. NoScaleUp => Phases
  BY <1>2 DEF NoScaleUp
<1>23. ASSUME pc = "clone" \/ pc \in Provisioning, pc = "clone" => after = "up",
              pc' \in Provisioning, UNCHANGED <<needed, snap, after>>
       PROVE  Phases
  BY <1>23 DEF Phases, BeforeUp, Looping, Scaling, Creating, Teardown, Provisioning
<1>24. RequestScaleUp => Phases
  <2> SUFFICES ASSUME RequestScaleUp PROVE Phases
    OBVIOUS
  <2>1. CASE EndPass
    BY <1>2, <2>1
  <2>2. CASE pc' = "clone" /\ UNCHANGED <<needed, snap>>
    BY <2>2 DEF RequestScaleUp, Phases, BeforeUp, Looping, Scaling, Creating, Teardown,
                    Provisioning
  <2>3. QED
    BY <2>1, <2>2 DEF RequestScaleUp, loopVars
<1>25. \A name \in 1 .. Cardinality(names) + 1 : CloneSucceeds(name) => Phases
  <2> SUFFICES ASSUME NEW name, CloneSucceeds(name) PROVE Phases
    OBVIOUS
  <2>1. pc = "clone" /\ pc' = "boot" /\ UNCHANGED <<needed, snap, after>>
    BY DEF CloneSucceeds, loopVars
  <2>2. QED
    BY <1>0, <1>23, <2>1 DEF PlaceInv, Provisioning
<1>26. \A name \in 1 .. Cardinality(names) + 1 : CloneFails(name) => Phases
  BY <1>2 DEF CloneFails
<1>27. \A name \in 1 .. Cardinality(names) + 1 : CloneConflict(name) => Phases
  <2> SUFFICES ASSUME NEW name, CloneConflict(name) PROVE Phases
    OBVIOUS
  <2>1. CASE EndPass
    BY <1>2, <2>1
  <2>2. CASE pc' = pc /\ UNCHANGED <<needed, snap>>
    BY <2>2 DEF CloneConflict, Phases, BeforeUp, Looping, Scaling, Creating, Teardown,
                   Provisioning
  <2>3. QED
    BY <2>1, <2>2 DEF CloneConflict, loopVars
<1>28. BootRunner => Phases
  <2> SUFFICES ASSUME BootRunner PROVE Phases
    OBVIOUS
  <2>1. pc = "boot" /\ pc \in Provisioning
    BY DEF BootRunner, Provisioning
  <2>2. CASE StepFails(cur \in DOMAIN container)
    BY <2>1, <2>2, PhasesFailed
  <2>3. CASE pc' = "register" /\ UNCHANGED <<needed, snap, after>>
    BY <1>23, <2>1, <2>3 DEF Provisioning
  <2>4. QED
    BY <2>2, <2>3 DEF BootRunner, loopVars, stepVars
<1>29. RegisterRunner => Phases
  <2> SUFFICES ASSUME RegisterRunner PROVE Phases
    OBVIOUS
  <2>1. pc = "register" /\ pc \in Provisioning
    BY DEF RegisterRunner, Provisioning
  <2>2. CASE StepFails(CurRunning)
    BY <2>1, <2>2, PhasesFailed
  <2>3. CASE pc' = "service" /\ UNCHANGED <<needed, snap, after>>
    BY <1>23, <2>1, <2>3 DEF Provisioning
  <2>4. QED
    BY <2>2, <2>3 DEF RegisterRunner, loopVars, stepVars
<1>30. StartService => Phases
  <2> SUFFICES ASSUME StartService PROVE Phases
    OBVIOUS
  <2>1. pc = "service" /\ pc \in Provisioning
    BY DEF StartService, Provisioning
  <2>2. CASE StepFails(CurRunning)
    BY <2>1, <2>2, PhasesFailed
  <2>3. CASE after = "baseline" /\ BaselineDone(1)
    <3>1. BeforeUp
      BY <2>1, <2>3 DEF BeforeUp
    <3>2. QED
      BY <1>3, <2>3, <3>1
  <2>4. CASE ~StepFails(CurRunning) /\ after = "up"
    <3>1. CountedStart
      BY <2>1, <2>4, FaultsKept DEF StartService, CountedStart
    <3>2. QED
      BY <3>1 DEF CountedStart, Phases, BeforeUp, Looping, Creating, Teardown, Provisioning
  <2>5. QED
    BY <2>2, <2>3, <2>4 DEF StartService
<1>31. Tick => Phases
  BY PhasesSame DEF Tick
<1>32. \A n \in DOMAIN runner :
         RunnerConnects(n) \/ RunnerDisconnects(n) \/ JobAssigned(n) \/ JobFinished(n) => Phases
  BY PhasesSame DEF RunnerConnects, RunnerDisconnects, JobAssigned, JobFinished, RunnerMoves
<1>33. \A n \in DOMAIN container : ContainerStops(n) => Phases
  BY PhasesSame DEF ContainerStops
<1>34. \A n \in DOMAIN container : ForeignDelete(n) => Phases
  BY PhasesSame DEF ForeignDelete
<1>35. \A n \in DOMAIN lastActive : StateFileLost(n) => Phases
  BY PhasesSame DEF StateFileLost
<1>36. \A n \in 1 .. MaxAutoRunners + MaxForeign : ForeignCreate(n) => Phases
  BY PhasesSame DEF ForeignCreate
<1>37. QED
  BY <1>1, <1>5, <1>6, <1>7, <1>8, <1>9, <1>10, <1>11, <1>12, <1>13, <1>15, <1>16, <1>17,
     <1>18, <1>19, <1>20, <1>21, <1>22, <1>24, <1>25, <1>26, <1>27, <1>28, <1>29, <1>30,
     <1>31, <1>32, <1>33, <1>34, <1>35, <1>36, StepCases

(* The runners counted are finitely many,                                  *)
SupplyCounts ==
  /\ IsFiniteSet(YoungNames) /\ Cardinality(YoungNames) \in Nat
  /\ IsFiniteSet(Waiting) /\ Cardinality(Waiting) \in Nat
  /\ IsFiniteSet(AvailableOnline) /\ Cardinality(AvailableOnline) \in Nat

LEMMA YoungFinite == FullType => SupplyCounts
<1> SUFFICES ASSUME FullType PROVE SupplyCounts
  OBVIOUS
<1>1. IsFiniteSet(DOMAIN runner) /\ IsFiniteSet(DOMAIN snap)
  BY DEF FullType, WorldType, LoopType
<1>2. /\ YoungNames \subseteq DOMAIN runner /\ Waiting \subseteq DOMAIN runner
      /\ AvailableOnline \subseteq DOMAIN snap
  BY DEF Waiting, YoungNames, ReadyNames, AvailableOnline
<1>3. IsFiniteSet(YoungNames) /\ IsFiniteSet(Waiting) /\ IsFiniteSet(AvailableOnline)
  BY <1>1, <1>2, FS_Subset
<1>4. QED
  BY <1>3, FS_CardinalityType DEF SupplyCounts

(* in the next state too,                                                  *)
LEMMA YoungFiniteNext == FullType' => SupplyCounts'
BY YoungFinite, PTL

(* and one more adds one at most.                                          *)
LEMMA OneMore ==
  ASSUME NEW S, NEW x, IsFiniteSet(S), NEW T, T \subseteq S \cup {x}
  PROVE  Cardinality(T) <= Cardinality(S) + 1
<1>1. /\ IsFiniteSet(S \cup {x}) /\ Cardinality(S) \in Nat
      /\ Cardinality(S \cup {x}) \in {Cardinality(S), Cardinality(S) + 1}
  BY FS_AddElement, FS_CardinalityType
<1>2. Cardinality(T) <= Cardinality(S \cup {x}) /\ Cardinality(T) \in Nat
  BY <1>1, FS_Subset, FS_CardinalityType
<1>3. QED
  BY <1>1, <1>2

(* A counted start makes its one runner young and counts it off.           *)
LEMMA CountedStartInv ==
  ASSUME FullType, FullType', CapInv, FilesInv, NeededInv, CountedStart
  PROVE  /\ FilesInv' /\ YoungInv'
         /\ faults' = 0 => Cardinality(YoungNames') + needed' <= MaxDemand
<1> SUFFICES ASSUME faults' = 0
             PROVE  /\ ReadyNames' \subseteq DOMAIN lastActive'
                    /\ Cardinality(YoungNames') <= MaxDemand
                    /\ Cardinality(YoungNames') + needed' <= MaxDemand
  BY DEF FilesInv, YoungInv
<1>1. /\ faults = 0 /\ needed' = needed - 1 /\ pc = "service" /\ after = "up"
      /\ runner' \in {runner, With(runner, cur, "offline")}
      /\ lastActive' = With(lastActive, cur, 0)
  BY DEF CountedStart
<1>2. Creating /\ Scaling
  BY <1>1 DEF Creating, Scaling, Provisioning
<1>3. ReadyNames' \subseteq ReadyNames \cup {cur}
  BY <1>1 DEF ReadyNames, With
<1>4. DOMAIN lastActive' = DOMAIN lastActive \cup {cur}
      /\ \A n \in DOMAIN lastActive : n # cur => lastActive'[n] = lastActive[n]
  BY <1>1 DEF With
<1>5. ReadyNames \subseteq DOMAIN lastActive
  BY <1>1 DEF FilesInv
<1>6. YoungNames' \subseteq YoungNames \cup {cur}
  BY <1>3, <1>4, <1>5 DEF YoungNames
<1>7. Cardinality(YoungNames') <= Cardinality(YoungNames) + 1
  BY <1>6, YoungFinite, OneMore DEF SupplyCounts
<1>8. needed > 0 /\ Cardinality(YoungNames) + needed <= MaxDemand
  BY <1>1, <1>2 DEF NeededInv
<1>9. /\ Cardinality(YoungNames) \in Nat /\ Cardinality(YoungNames') \in Nat
       /\ needed \in Int /\ MaxDemand \in Nat
  BY YoungFinite, YoungFiniteNext, BoundAssumption DEF SupplyCounts, FullType, LoopType
<1>10. /\ Cardinality(YoungNames') <= MaxDemand
       /\ Cardinality(YoungNames') + needed' <= MaxDemand
  BY <1>1, <1>7, <1>8, <1>9
<1>11. QED
  BY <1>3, <1>4, <1>5, <1>10

(* At the end of the loop, every young runner is online or pending, so     *)
(* what is needed comes on top of them.                                    *)
LEMMA EndLoopNeeds ==
  ASSUME FullType, FullType', VisitedInv, EndLoop, Steady, faults' = 0
  PROVE  Cardinality(YoungNames') + needed' <= MaxDemand
<1>1. /\ faults = 0 /\ YoungNames' \subseteq YoungNames
      /\ pc = "loop" /\ todo = {}
      /\ needed' = demand - Cardinality(AvailableOnline) - pendingCapacity - basePending
  BY DEF Steady, EndLoop
<1>2. Cardinality(Waiting) <= pendingCapacity
  BY <1>1 DEF VisitedInv, Looping
<1>3. YoungNames' \subseteq Waiting \cup AvailableOnline
  BY <1>1 DEF Waiting
<1>4. /\ IsFiniteSet(Waiting \cup AvailableOnline)
      /\ Cardinality(Waiting \cup AvailableOnline)
           = Cardinality(Waiting) + Cardinality(AvailableOnline)
             - Cardinality(Waiting \cap AvailableOnline)
  BY YoungFinite, FS_Union DEF SupplyCounts
<1>5. IsFiniteSet(Waiting \cap AvailableOnline) /\ Cardinality(Waiting \cap AvailableOnline) \in Nat
  BY YoungFinite, FS_Subset, FS_CardinalityType DEF SupplyCounts
<1>6. /\ Cardinality(YoungNames') <= Cardinality(Waiting \cup AvailableOnline)
      /\ Cardinality(Waiting \cup AvailableOnline) \in Nat
  BY <1>3, <1>4, FS_Subset, FS_CardinalityType
<1>7. /\ Cardinality(Waiting) \in Nat /\ Cardinality(AvailableOnline) \in Nat
      /\ Cardinality(YoungNames') \in Nat
      /\ demand \in 0 .. MaxDemand /\ pendingCapacity \in Nat /\ basePending \in {0, 1}
      /\ MaxDemand \in Nat
  BY YoungFinite, YoungFiniteNext, BoundAssumption DEF SupplyCounts, FullType, LoopType
<1>8. QED
  BY <1>1, <1>2, <1>4, <1>5, <1>6, <1>7

(* The listing puts every young runner before the loop.                    *)
LEMMA ListAutoSupply ==
  ASSUME FullType, FullType', JobInv, ListAuto, Steady, faults' = 0
  PROVE  /\ \A c \in todo' \cap YoungNames' : seen'[c] = "running"
         /\ Cardinality(Waiting') <= pendingCapacity'
<1>1. faults = 0 /\ runner' = runner /\ todo' = AutoContainers
  BY DEF Steady, ListAuto, world
<1>2. seen' = [n \in AutoContainers |-> container[n]]
  BY <1>1, FaultsKept DEF ListAuto
<1>3. \A n \in YoungNames' : n \in AutoContainers /\ container[n] = "running"
  BY <1>1 DEF YoungNames, ReadyNames, AutoContainers, JobInv, ServiceInv, Serving, Active, Runs
<1>4. Waiting' = {}
  BY <1>1, <1>3 DEF Waiting
<1>5. Cardinality(Waiting') = 0 /\ pendingCapacity' \in Nat
  BY <1>4, FS_EmptySet DEF FullType, LoopType
<1>6. QED
  BY <1>1, <1>2, <1>3, <1>5

(* A counted visit, and a step that leaves the loop as it is.              *)
LEMMA CountedSupply ==
  ASSUME FullType, FullType', VisitedInv, Looping, Steady, faults' = 0,
         \/ UNCHANGED <<snap, seen, todo, pendingCapacity>>
         \/ \E c \in todo : Counted(c)
  PROVE  /\ \A c \in todo' \cap YoungNames' : seen'[c] = "running"
         /\ Cardinality(Waiting') <= pendingCapacity'
<1>1. /\ faults = 0 /\ YoungNames' \subseteq YoungNames
      /\ todo' \subseteq todo /\ UNCHANGED <<snap, seen>>
  BY DEF Steady, Counted
<1>2. /\ \A c \in todo \cap YoungNames : seen[c] = "running"
      /\ Cardinality(Waiting) <= pendingCapacity
  BY <1>1 DEF VisitedInv
<1>3. AvailableOnline' = AvailableOnline
  BY <1>1 DEF AvailableOnline
<1>4. /\ Cardinality(Waiting) \in Nat /\ Cardinality(Waiting') \in Nat
      /\ IsFiniteSet(Waiting) /\ IsFiniteSet(Waiting')
      /\ pendingCapacity \in Nat /\ pendingCapacity' \in Nat
  BY YoungFinite, YoungFiniteNext DEF SupplyCounts, FullType, LoopType
<1>5. ASSUME Waiting' \subseteq Waiting, pendingCapacity' >= pendingCapacity
      PROVE  Cardinality(Waiting') <= pendingCapacity'
  <2>1. Cardinality(Waiting') <= Cardinality(Waiting)
    BY <1>4, <1>5, FS_Subset
  <2>2. QED
    BY <1>2, <1>4, <1>5, <2>1
<1>6. CASE UNCHANGED <<snap, seen, todo, pendingCapacity>>
  <2>1. Waiting' \subseteq Waiting
    BY <1>1, <1>3, <1>6 DEF Waiting
  <2>2. QED
    BY <1>1, <1>2, <1>4, <1>5, <1>6, <2>1
<1>7. ASSUME NEW c \in todo, Counted(c)
      PROVE  Cardinality(Waiting') <= pendingCapacity'
  <2>1. Waiting' \subseteq Waiting \cup {c}
    BY <1>1, <1>3, <1>7 DEF Waiting, Counted
  <2>2. CASE c \in YoungNames /\ c \notin AvailableOnline
    <3>1. pendingCapacity' = pendingCapacity + 1
      BY <1>7, <2>2 DEF Counted
    <3>2. Cardinality(Waiting') <= Cardinality(Waiting) + 1
      BY <1>4, <2>1, OneMore
    <3>3. QED
      BY <1>2, <1>4, <3>1, <3>2
  <2>3. CASE ~(c \in YoungNames /\ c \notin AvailableOnline)
    <3>1. Waiting' \subseteq Waiting
      BY <1>1, <1>3, <2>1, <2>3 DEF Waiting
    <3>2. pendingCapacity' >= pendingCapacity
      BY <1>4, <1>7 DEF Counted
    <3>3. QED
      BY <1>5, <3>1, <3>2
  <2>4. QED
    BY <2>2, <2>3
<1>8. \A c \in todo' \cap YoungNames' : seen'[c] = "running"
  BY <1>1, <1>2
<1>9. QED
  BY <1>6, <1>7, <1>8

(* At first there are no runners.                                          *)
LEMMA SupplyInit == Init => SupplyInv
<1> SUFFICES ASSUME Init PROVE SupplyInv
  OBVIOUS
<1>1. ReadyNames = {} /\ YoungNames = {} /\ pc = "idle"
  BY FiniteEmpty DEF Init, ReadyNames, YoungNames
<1>2. YoungInv
  BY <1>1, FS_EmptySet, BoundAssumption DEF YoungInv
<1>3. FilesInv /\ ListedInv /\ VisitedInv /\ NeededInv
  BY <1>1 DEF FilesInv, ListedInv, VisitedInv, NeededInv, BeforeUp, Looping, Scaling, Creating,
              Teardown, Provisioning
<1>4. QED
  BY <1>2, <1>3 DEF SupplyInv

(* Every step keeps the supply within the demand.                          *)
LEMMA SupplyStep ==
  FullType /\ FullType' /\ CapInv /\ JobInv /\ SupplyInv /\ [Next]_vars => SupplyInv'
<1> SUFFICES ASSUME FullType, FullType', CapInv, JobInv, SupplyInv, [Next]_vars
             PROVE  SupplyInv'
  OBVIOUS
<1>1. FilesInv /\ ListedInv /\ VisitedInv /\ NeededInv /\ YoungInv
  BY DEF SupplyInv
<1>2. Steady \/ CountedStart
  BY <1>1, SteadyStep
<1>3. Phases
  BY <1>1, PhasesStep
<1>4. (pc = "clone" \/ Creating => needed > 0)'
  BY <1>1, <1>3 DEF Phases, NeededInv, WantsRunner
<1>5. CASE CountedStart
  <2>1. pc' = "up"
    BY <1>5 DEF CountedStart
  <2>2. ListedInv' /\ VisitedInv'
    BY <2>1 DEF ListedInv, VisitedInv, BeforeUp, Looping, Teardown, Provisioning
  <2>3. FilesInv' /\ YoungInv' /\ NeededInv'
    BY <1>1, <1>4, <1>5, CountedStartInv DEF NeededInv
  <2>4. QED
    BY <2>2, <2>3 DEF SupplyInv
<1>6. CASE Steady /\ ~CountedStart
  <2>1. FilesInv'
    BY <1>6 DEF Steady, FilesInv
  <2>2. ListedInv'
    <3> SUFFICES ASSUME BeforeUp', NEW n \in ReadyNames'
                 PROVE  n \in DOMAIN snap' /\ snap'[n] \in {"offline", "idle"}
      BY DEF ListedInv
    <3>1. CASE BeforeUp /\ snap' = snap
      BY <1>1, <1>6, <3>1 DEF Steady, ListedInv
    <3>2. CASE snap' = runner /\ runner' = runner
      BY <3>2 DEF ReadyNames
    <3>3. QED
      BY <1>3, <3>1, <3>2 DEF Phases
  <2>3. VisitedInv'
    <3> SUFFICES ASSUME faults' = 0, Looping'
                 PROVE  /\ \A c \in todo' \cap YoungNames' : seen'[c] = "running"
                        /\ Cardinality(Waiting') <= pendingCapacity'
      BY DEF VisitedInv
    <3>1. CASE ListAuto
      BY <1>6, <3>1, ListAutoSupply
    <3>2. CASE \/ Looping /\ UNCHANGED <<snap, seen, todo, pendingCapacity>>
               \/ \E c \in todo : Counted(c)
      <4>1. Looping
        BY <3>2 DEF Counted, Looping
      <4>2. QED
        BY <1>1, <1>6, <3>2, <4>1, CountedSupply
    <3>3. QED
      BY <1>3, <3>1, <3>2 DEF Phases
  <2>4. faults' = 0 => Cardinality(YoungNames') <= Cardinality(YoungNames)
    BY <1>6, YoungFinite, FS_Subset DEF Steady, SupplyCounts
  <2>5. /\ Cardinality(YoungNames) \in Nat /\ Cardinality(YoungNames') \in Nat
        /\ needed \in Int /\ MaxDemand \in Nat
    BY YoungFinite, YoungFiniteNext, BoundAssumption DEF SupplyCounts, FullType, LoopType
  <2>6. YoungInv'
    <3> SUFFICES ASSUME faults' = 0 PROVE Cardinality(YoungNames') <= MaxDemand
      BY DEF YoungInv
    <3>1. Cardinality(YoungNames) <= MaxDemand
      BY <1>1, <1>6 DEF Steady, YoungInv
    <3>2. QED
      BY <2>4, <2>5, <3>1
  <2>7. ASSUME faults' = 0, Scaling' PROVE Cardinality(YoungNames') + needed' <= MaxDemand
    <3>1. CASE EndLoop
      BY <1>1, <1>6, <2>7, <3>1, EndLoopNeeds
    <3>2. CASE Scaling /\ needed' = needed
      <4>1. Cardinality(YoungNames) + needed <= MaxDemand
        BY <1>1, <1>6, <2>7, <3>2 DEF Steady, NeededInv
      <4>2. QED
        BY <2>4, <2>5, <2>7, <3>2, <4>1
    <3>3. QED
      BY <1>3, <1>6, <2>7, <3>1, <3>2 DEF Phases
  <2>8. NeededInv'
    BY <1>4, <2>7 DEF NeededInv
  <2>9. QED
    BY <2>1, <2>2, <2>3, <2>6, <2>8 DEF SupplyInv
<1>7. QED
  BY <1>2, <1>5, <1>6

(* However passes, jobs, stopping containers and others' creations follow  *)
(* on each other, the young runners never outnumber the largest demand a   *)
(* pass was told of, as long as no call failed.                            *)
THEOREM RunnersAreNotDoubled == Spec => []NoDoubleProvisioning
<1>1. FullType /\ SupplyInv => NoDoubleProvisioning
  <2> SUFFICES ASSUME FullType, SupplyInv PROVE NoDoubleProvisioning
    OBVIOUS
  <2> DEFINE S == {n \in AutoContainers :
                     /\ container[n] = "running"
                     /\ n \in DOMAIN runner /\ runner[n] \in {"offline", "idle"}
                     /\ n \in DOMAIN lastActive /\ lastActive[n] <= Grace}
  <2>1. S \subseteq YoungNames
    BY DEF YoungNames, ReadyNames, AutoContainers
  <2>2. Cardinality(S) <= Cardinality(YoungNames) /\ Cardinality(S) \in Nat
    BY <2>1, YoungFinite, FS_Subset, FS_CardinalityType DEF SupplyCounts
  <2>3. faults = 0 => Cardinality(YoungNames) <= MaxDemand
    BY DEF SupplyInv, YoungInv
  <2>4. faults = 0 => Cardinality(S) <= MaxDemand
    BY <2>2, <2>3, YoungFinite, BoundAssumption DEF SupplyCounts
  <2>5. QED
    BY <2>4 DEF NoDoubleProvisioning
<1>2. QED
  BY <1>1, FullTypeInit, FullTypeStep, CapInit, CapStep, JobInit, JobStep, SupplyInit, SupplyStep,
     PTL DEF Spec

(***************************************************************************)
(* A pass comes to an end                                                  *)
(***************************************************************************)

(* The scale-up loop still to do: for each runner wanted the token, at     *)
(* most three attempts to clone, and the three steps of configuring it.    *)
Wanted == IF needed > 0 THEN needed ELSE 0
RunnerLeft == IF pc = "up" THEN 7
              ELSE IF pc = "clone" THEN 6 - attempt
              ELSE IF pc = "boot" THEN 3
              ELSE IF pc = "register" THEN 2 ELSE 1

(* A teardown of the scale-down loop.                                      *)
TeardownLeft == IF pc = "deregister" THEN 2 ELSE IF pc = "destroy" THEN 1 ELSE 0

(* ensureBaseline, up to the listing.                                      *)
BaselineLeft == IF pc = "baseline" THEN 7
                ELSE IF pc = "deregister" THEN 6
                ELSE IF pc = "destroy" THEN 5
                ELSE IF pc = "cloneBaseline" THEN 4
                ELSE IF pc = "boot" THEN 3
                ELSE IF pc = "register" THEN 2
                ELSE IF pc = "service" THEN 1 ELSE 0

(* At most this many steps are left of the pass.                           *)
ScaleUpBound == 8 * MaxDemand + 8
LoopBound == 3 * (MaxAutoRunners + MaxForeign) + 3
StepsLeft ==
  IF pc = "idle" THEN 0
  ELSE IF Scaling THEN 8 * Wanted + RunnerLeft
  ELSE IF Looping THEN ScaleUpBound + 3 * Cardinality(todo) + TeardownLeft
  ELSE ScaleUpBound + LoopBound + BaselineLeft
PassBound == ScaleUpBound + LoopBound + 7

(* Every step of a pass leaves it fewer steps to go, and nothing that      *)
(* happens around it gives it more.                                        *)
StepsLeftFall ==
  [][pc # "idle" => IF PassStep THEN StepsLeft' < StepsLeft ELSE StepsLeft' <= StepsLeft]_vars

(* A pass under way has a step to go, and never more than its bound.       *)
StepsLeftBounded == StepsLeft \in 0 .. PassBound /\ (pc # "idle" => StepsLeft > 0)

(* What these come to, place by place.                                     *)
LeftOK ==
  /\ Cardinality(todo) \in Nat /\ Wanted \in Nat /\ (needed > 0 => Wanted = needed)
  /\ needed \in Int /\ attempt \in 0 .. 2
  /\ pc = "idle" => StepsLeft = 0
  /\ pc = "up" => StepsLeft = 8 * Wanted + 7
  /\ pc = "clone" => StepsLeft = 8 * Wanted + (6 - attempt)
  /\ after = "up" =>
       /\ pc = "boot" => StepsLeft = 8 * Wanted + 3
       /\ pc = "register" => StepsLeft = 8 * Wanted + 2
       /\ pc = "service" => StepsLeft = 8 * Wanted + 1
  /\ pc = "loop" => StepsLeft = ScaleUpBound + 3 * Cardinality(todo)
  /\ after = "loop" =>
       /\ pc = "deregister" => StepsLeft = ScaleUpBound + 3 * Cardinality(todo) + 2
       /\ pc = "destroy" => StepsLeft = ScaleUpBound + 3 * Cardinality(todo) + 1
  /\ pc = "list" => StepsLeft = ScaleUpBound + LoopBound
  /\ pc = "baseline" => StepsLeft = ScaleUpBound + LoopBound + 7
  /\ pc = "cloneBaseline" => StepsLeft = ScaleUpBound + LoopBound + 4
  /\ after = "baseline" =>
       /\ pc = "deregister" => StepsLeft = ScaleUpBound + LoopBound + 6
       /\ pc = "destroy" => StepsLeft = ScaleUpBound + LoopBound + 5
       /\ pc = "boot" => StepsLeft = ScaleUpBound + LoopBound + 3
       /\ pc = "register" => StepsLeft = ScaleUpBound + LoopBound + 2
       /\ pc = "service" => StepsLeft = ScaleUpBound + LoopBound + 1

LEMMA BoundsAreNumbers ==
  /\ ScaleUpBound \in Nat /\ LoopBound \in Nat
  /\ ScaleUpBound > 0 /\ LoopBound > 0 /\ MaxDemand \in Nat
  /\ ScaleUpBound = 8 * MaxDemand + 8
  /\ LoopBound = 3 * (MaxAutoRunners + MaxForeign) + 3
BY ConfigAssumption, BoundAssumption DEF ScaleUpBound, LoopBound

LEMMA LeftFacts == FullType /\ CapInv => LeftOK
<1> SUFFICES ASSUME FullType, CapInv PROVE LeftOK
  OBVIOUS
<1>1. IsFiniteSet(todo)
  BY FS_Subset DEF FullType, LoopType, CapInv, PassInv, KnownInv
<1>2. Cardinality(todo) \in Nat
  BY <1>1, FS_CardinalityType
<1>3. needed \in Int /\ attempt \in 0 .. 2
  BY DEF FullType, LoopType, StepType
<1>4. Wanted \in Nat /\ (needed > 0 => Wanted = needed)
  BY <1>3 DEF Wanted
<1> USE DEF StepsLeft, Scaling, Creating, Looping, Provisioning, Teardown
<1>5. /\ pc = "idle" => StepsLeft = 0
      /\ pc = "up" => StepsLeft = 8 * Wanted + 7
      /\ pc = "clone" => StepsLeft = 8 * Wanted + (6 - attempt)
      /\ after = "up" =>
           /\ pc = "boot" => StepsLeft = 8 * Wanted + 3
           /\ pc = "register" => StepsLeft = 8 * Wanted + 2
           /\ pc = "service" => StepsLeft = 8 * Wanted + 1
  BY DEF RunnerLeft
<1>6. /\ pc = "loop" => StepsLeft = ScaleUpBound + 3 * Cardinality(todo)
      /\ after = "loop" =>
           /\ pc = "deregister" => StepsLeft = ScaleUpBound + 3 * Cardinality(todo) + 2
           /\ pc = "destroy" => StepsLeft = ScaleUpBound + 3 * Cardinality(todo) + 1
  BY <1>2, BoundsAreNumbers DEF TeardownLeft
<1>7. /\ pc = "list" => StepsLeft = ScaleUpBound + LoopBound
      /\ pc = "baseline" => StepsLeft = ScaleUpBound + LoopBound + 7
      /\ pc = "cloneBaseline" => StepsLeft = ScaleUpBound + LoopBound + 4
      /\ after = "baseline" =>
           /\ pc = "deregister" => StepsLeft = ScaleUpBound + LoopBound + 6
           /\ pc = "destroy" => StepsLeft = ScaleUpBound + LoopBound + 5
           /\ pc = "boot" => StepsLeft = ScaleUpBound + LoopBound + 3
           /\ pc = "register" => StepsLeft = ScaleUpBound + LoopBound + 2
           /\ pc = "service" => StepsLeft = ScaleUpBound + LoopBound + 1
  BY BoundsAreNumbers DEF BaselineLeft
<1> QED BY <1>2, <1>3, <1>4, <1>5, <1>6, <1>7 DEF LeftOK

LEMMA LeftFactsNext == FullType' /\ CapInv' => LeftOK'
BY LeftFacts, PTL

(* A pass under way always has a step to go.                               *)
LEMMA LeftPositive ==
  ASSUME FullType, CapInv
  PROVE  StepsLeft \in Nat /\ (pc # "idle" => StepsLeft > 0)
<1>1. LeftOK
  BY LeftFacts
<1>2. pc \in Pcs
  BY DEF FullType, LoopType
<1>3. /\ pc \in Provisioning => after \in {"up", "baseline"}
      /\ pc \in Teardown => after \in {"loop", "baseline"}
  BY DEF CapInv, PassInv, PlaceInv
<1>4. CASE pc \in {"idle", "up", "clone", "list", "baseline", "cloneBaseline"}
  BY <1>1, <1>4, BoundsAreNumbers DEF LeftOK
<1>5. CASE pc \in {"loop", "deregister", "destroy"}
  BY <1>1, <1>3, <1>5, BoundsAreNumbers DEF LeftOK, Teardown
<1>6. CASE pc \in {"boot", "register", "service"}
  BY <1>1, <1>3, <1>6, BoundsAreNumbers DEF LeftOK, Provisioning
<1> QED BY <1>2, <1>4, <1>5, <1>6 DEF Pcs

(* A pass that ends has nothing left to do; one that returns from          *)
(* ensureBaseline has the listing next.                                    *)
LEMMA EndPassShortens ==
  ASSUME FullType, CapInv, LeftOK', pc # "idle", EndPass
  PROVE  StepsLeft' < StepsLeft
<1>1. StepsLeft' = 0
  BY DEF LeftOK, EndPass
<1> QED BY <1>1, LeftPositive

LEMMA BaselineDoneShortens ==
  ASSUME LeftOK, LeftOK', NEW p, BaselineDone(p),
         \/ pc \in {"baseline", "cloneBaseline"}
         \/ pc \in {"destroy", "boot", "register", "service"} /\ after = "baseline"
  PROVE  StepsLeft' < StepsLeft
<1>1. StepsLeft' = ScaleUpBound + LoopBound
  BY DEF LeftOK, BaselineDone
<1>2. \E n \in {1, 2, 3, 4, 5, 7} : StepsLeft = ScaleUpBound + LoopBound + n
  BY DEF LeftOK
<1> QED BY <1>1, <1>2, BoundsAreNumbers

(* Visiting a listed container leaves one less, and a teardown at most.    *)
LEMMA VisitShortens ==
  ASSUME FullType, CapInv, LeftOK, LeftOK', pc = "loop", NEW c \in todo,
         Visited(c) \/ BeginScaleDown(c)
  PROVE  StepsLeft' < StepsLeft
<1>1. IsFiniteSet(todo)
  BY FS_Subset DEF FullType, LoopType, CapInv, PassInv, KnownInv
<1>2. Cardinality(todo \ {c}) = Cardinality(todo) - 1
  BY <1>1, FS_RemoveElement
<1>3. Cardinality(todo)' = Cardinality(todo) - 1
  BY <1>2 DEF Visited, BeginScaleDown
<1>4. StepsLeft = ScaleUpBound + 3 * Cardinality(todo) /\ Cardinality(todo) \in Nat
  BY DEF LeftOK
<1>5. \/ StepsLeft' = ScaleUpBound + 3 * Cardinality(todo)'
      \/ StepsLeft' = ScaleUpBound + 3 * Cardinality(todo)' + 2
  BY DEF Visited, BeginScaleDown, LeftOK
<1> QED BY <1>3, <1>4, <1>5, BoundsAreNumbers

(* cleanupFailedScaleUp ends the pass, or ensureBaseline.                  *)
LEMMA StepFailsShortens ==
  ASSUME FullType, CapInv, LeftOK, LeftOK', pc \in Provisioning, NEW w, StepFails(w)
  PROVE  StepsLeft' < StepsLeft
<1>1. CASE EndPass
  BY <1>1, EndPassShortens DEF Provisioning
<1>2. CASE after = "baseline" /\ BaselineDone(0)
  BY <1>2, BaselineDoneShortens DEF Provisioning
<1> QED BY <1>1, <1>2 DEF StepFails, ProvisionFailed

LEMMA BaselineShortens ==
  ASSUME LeftOK, LeftOK', BaselineStep
  PROVE  StepsLeft' < StepsLeft
<1>1. CASE BaselineOnline \/ BaselineListFails
  BY <1>1, BaselineDoneShortens DEF BaselineOnline, BaselineListFails, BaselineOffline
<1>2. CASE BaselineStarting
  BY <1>2, BaselineDoneShortens DEF BaselineStarting, BaselineOffline
<1>3. CASE BaselineStale
  <2>1. pc = "baseline" /\ pc' = "deregister" /\ after' = "baseline"
    BY <1>3 DEF BaselineStale, BaselineOffline
  <2> QED BY <2>1, BoundsAreNumbers DEF LeftOK
<1>4. CASE BaselineMissing
  <2>1. pc = "baseline" /\ pc' = "cloneBaseline"
    BY <1>4 DEF BaselineMissing, BaselineOffline
  <2> QED BY <2>1, BoundsAreNumbers DEF LeftOK
<1>5. CASE CloneBaseline
  <2>1. pc = "cloneBaseline"
    BY <1>5 DEF CloneBaseline
  <2>2. CASE pc' = "boot" /\ after' = "baseline"
    BY <2>1, <2>2, BoundsAreNumbers DEF LeftOK
  <2>3. CASE BaselineDone(0)
    BY <2>1, <2>3, BaselineDoneShortens
  <2> QED BY <1>5, <2>2, <2>3 DEF CloneBaseline
<1> QED BY <1>1, <1>2, <1>3, <1>4, <1>5 DEF BaselineStep

LEMMA LoopShortens ==
  ASSUME FullType, CapInv, LeftOK, LeftOK', LoopStep
  PROVE  StepsLeft' < StepsLeft
<1>1. CASE ListAuto
  <2>1. pc = "list" /\ pc' = "loop" /\ todo' = AutoContainers
    BY <1>1 DEF ListAuto
  <2>2. Cardinality(todo)' = Cardinality(AutoContainers)
    BY <2>1
  <2>3. Cardinality(AutoContainers) <= MaxAutoRunners + foreign /\ foreign \in 0 .. MaxForeign
    BY DEF CapInv, CapRespected, FullType, BoundType
  <2>4. /\ StepsLeft = ScaleUpBound + LoopBound
        /\ StepsLeft' = ScaleUpBound + 3 * Cardinality(todo)' /\ Cardinality(todo)' \in Nat
    BY <2>1 DEF LeftOK
  <2>5. Cardinality(todo)' <= MaxAutoRunners + MaxForeign
    BY <2>2, <2>3, <2>4, ConfigAssumption, BoundAssumption
  <2> QED BY <2>4, <2>5, BoundsAreNumbers, ConfigAssumption, BoundAssumption
<1>2. CASE ListFails
  BY <1>2, EndPassShortens DEF ListFails
<1>3. CASE EndLoop
  <2>1. /\ pc = "loop" /\ pc' = "up" /\ todo = {}
        /\ needed' = demand - Cardinality(AvailableOnline) - pendingCapacity - basePending
    BY <1>3 DEF EndLoop
  <2>2. Cardinality(AvailableOnline) \in Nat
    <3>1. AvailableOnline \subseteq DOMAIN snap /\ IsFiniteSet(DOMAIN snap)
      BY DEF AvailableOnline, FullType, LoopType
    <3> QED BY <3>1, FS_Subset, FS_CardinalityType
  <2>3. demand \in 0 .. MaxDemand /\ pendingCapacity \in Nat /\ basePending \in {0, 1}
    BY DEF FullType, LoopType
  <2>4. needed' <= MaxDemand /\ needed' \in Int
    BY <2>1, <2>2, <2>3, BoundsAreNumbers
  <2>5. Wanted' <= MaxDemand /\ Wanted' \in Nat
    BY <2>4, BoundsAreNumbers DEF Wanted
  <2>6. StepsLeft' = 8 * Wanted' + 7
    BY <2>1 DEF LeftOK
  <2>7. StepsLeft = ScaleUpBound + 3 * Cardinality(todo) /\ Cardinality(todo) \in Nat
    BY <2>1 DEF LeftOK
  <2> QED BY <2>5, <2>6, <2>7, BoundsAreNumbers
<1>4. ASSUME NEW c \in todo, SkipUnreadable(c) PROVE StepsLeft' < StepsLeft
  BY <1>4, VisitShortens DEF SkipUnreadable
<1>5. ASSUME NEW c \in todo, NEW status \in Statuses,
             \/ VisitStopped(c, status) \/ VisitBusy(c, status)
             \/ VisitOrphan(c, status) \/ VisitIdle(c, status)
      PROVE  StepsLeft' < StepsLeft
  <2>1. pc = "loop" /\ (Visited(c) \/ BeginScaleDown(c))
    BY <1>5 DEF VisitStopped, VisitBusy, VisitOrphan, VisitIdle, StatusOf
  <2> QED BY <2>1, VisitShortens
<1> QED BY <1>1, <1>2, <1>3, <1>4, <1>5 DEF LoopStep

LEMMA TeardownShortens ==
  ASSUME CapInv, LeftOK, LeftOK', Deregister \/ Destroy
  PROVE  StepsLeft' < StepsLeft
<1>1. pc \in Teardown => after \in {"loop", "baseline"}
  BY DEF CapInv, PassInv, PlaceInv
<1>2. CASE Deregister
  <2>1. pc = "deregister" /\ pc' = "destroy" /\ after' = after
        /\ Cardinality(todo)' = Cardinality(todo)
    BY <1>2 DEF Deregister, loopVars, stepVars
  <2> QED BY <1>1, <2>1, BoundsAreNumbers DEF LeftOK, Teardown
<1>3. CASE Destroy
  <2>1. pc = "destroy"
    BY <1>3 DEF Destroy
  <2>2. CASE /\ after = "loop" /\ pc' = "loop" /\ todo' = todo
    <3>1. Cardinality(todo)' = Cardinality(todo)
      BY <2>2
    <3> QED BY <2>1, <2>2, <3>1, BoundsAreNumbers DEF LeftOK
  <2>3. CASE after = "baseline" /\ pc' = "cloneBaseline"
    BY <2>1, <2>3, BoundsAreNumbers DEF LeftOK
  <2>4. CASE after = "baseline" /\ BaselineDone(0)
    BY <2>1, <2>4, BaselineDoneShortens
  <2> QED BY <1>3, <2>2, <2>3, <2>4 DEF Destroy, ScaleDownDeleted, ScaleDownKept, loopVars
<1> QED BY <1>2, <1>3

LEMMA UpShortens ==
  ASSUME FullType, CapInv, NeededInv, LeftOK, LeftOK', UpStep
  PROVE  StepsLeft' < StepsLeft
<1>0. /\ pc = "clone" => after = "up"
      /\ pc \in Provisioning => after \in {"up", "baseline"}
      /\ pc = "clone" \/ Creating => needed > 0
  BY DEF CapInv, PassInv, PlaceInv, NeededInv
<1>1. CASE NoScaleUp
  BY <1>1, EndPassShortens DEF NoScaleUp
<1>2. CASE RequestScaleUp
  <2>1. pc = "up"
    BY <1>2 DEF RequestScaleUp
  <2>2. CASE pc' = "clone" /\ needed' = needed /\ attempt' = 0
    <3>1. Wanted' = Wanted
      BY <2>2 DEF Wanted
    <3> QED BY <2>1, <2>2, <3>1 DEF LeftOK
  <2>3. CASE EndPass
    BY <2>1, <2>3, EndPassShortens
  <2> QED BY <1>2, <2>2, <2>3 DEF RequestScaleUp, loopVars
<1>3. ASSUME NEW name, CloneSucceeds(name) PROVE StepsLeft' < StepsLeft
  <2>1. pc = "clone" /\ pc' = "boot" /\ after' = after /\ needed' = needed
    BY <1>3 DEF CloneSucceeds, loopVars
  <2>2. Wanted' = Wanted
    BY <2>1 DEF Wanted
  <2> QED BY <1>0, <2>1, <2>2 DEF LeftOK
<1>4. ASSUME NEW name, CloneFails(name) PROVE StepsLeft' < StepsLeft
  BY <1>4, EndPassShortens DEF CloneFails
<1>5. ASSUME NEW name, CloneConflict(name) PROVE StepsLeft' < StepsLeft
  <2>1. pc = "clone"
    BY <1>5 DEF CloneConflict
  <2>2. CASE pc' = pc /\ attempt' = attempt + 1 /\ needed' = needed
    <3>1. Wanted' = Wanted
      BY <2>2 DEF Wanted
    <3> QED BY <2>1, <2>2, <3>1 DEF LeftOK
  <2>3. CASE EndPass
    BY <2>1, <2>3, EndPassShortens
  <2> QED BY <1>5, <2>2, <2>3 DEF CloneConflict, loopVars
<1>6. CASE BootRunner
  <2>1. pc = "boot"
    BY <1>6 DEF BootRunner
  <2>2. CASE pc' = "register" /\ after' = after /\ needed' = needed
    <3>1. Wanted' = Wanted
      BY <2>2 DEF Wanted
    <3> QED BY <1>0, <2>1, <2>2, <3>1, BoundsAreNumbers DEF LeftOK, Provisioning
  <2>3. CASE StepFails(cur \in DOMAIN container)
    BY <2>1, <2>3, StepFailsShortens DEF Provisioning
  <2> QED BY <1>6, <2>2, <2>3 DEF BootRunner, loopVars, stepVars
<1>7. CASE RegisterRunner
  <2>1. pc = "register"
    BY <1>7 DEF RegisterRunner
  <2>2. CASE pc' = "service" /\ after' = after /\ needed' = needed
    <3>1. Wanted' = Wanted
      BY <2>2 DEF Wanted
    <3> QED BY <1>0, <2>1, <2>2, <3>1, BoundsAreNumbers DEF LeftOK, Provisioning
  <2>3. CASE StepFails(CurRunning)
    BY <2>1, <2>3, StepFailsShortens DEF Provisioning
  <2> QED BY <1>7, <2>2, <2>3 DEF RegisterRunner, loopVars, stepVars
<1>8. CASE StartService
  <2>1. pc = "service"
    BY <1>8 DEF StartService
  <2>2. CASE after = "up" /\ pc' = "up" /\ needed' = needed - 1
    <3>1. needed > 0
      BY <1>0, <2>1, <2>2 DEF Creating, Provisioning
    <3>2. needed \in Int /\ Wanted = needed
      BY <3>1 DEF LeftOK
    <3>3. Wanted' = Wanted - 1
      BY <2>2, <3>1, <3>2 DEF Wanted
    <3>4. StepsLeft = 8 * Wanted + 1 /\ StepsLeft' = 8 * Wanted' + 7
      BY <2>1, <2>2 DEF LeftOK
    <3> QED BY <3>2, <3>3, <3>4
  <2>3. CASE after = "baseline" /\ BaselineDone(1)
    BY <2>1, <2>3, BaselineDoneShortens
  <2>4. CASE StepFails(CurRunning)
    BY <2>1, <2>4, StepFailsShortens DEF Provisioning
  <2> QED BY <1>8, <2>2, <2>3, <2>4 DEF StartService
<1> QED BY <1>1, <1>2, <1>3, <1>4, <1>5, <1>6, <1>7, <1>8 DEF UpStep

(* Whatever happens around a pass leaves its place in it alone.            *)
LEMMA OthersKeepSteps ==
  ASSUME LeftOK, LeftOK', FullType, CapInv, Crash \/ WorldStep \/ UNCHANGED vars
  PROVE  StepsLeft' <= StepsLeft
<1>0. StepsLeft \in Nat
  BY LeftPositive
<1>1. CASE Crash
  <2>1. StepsLeft' = 0
    BY <1>1 DEF Crash, EndPass, LeftOK
  <2> QED BY <1>0, <2>1
<1>2. CASE WorldStep \/ UNCHANGED vars
  <2>1. UNCHANGED PassVars
    BY <1>2 DEF WorldStep, Tick, RunnerConnects, RunnerDisconnects, JobAssigned, JobFinished,
       RunnerMoves, ContainerStops, ForeignDelete, StateFileLost, ForeignCreate, vars, PassVars
  <2>2. UNCHANGED <<pc, after, needed, attempt, todo>>
    BY <2>1 DEF PassVars, loopVars, stepVars
  <2>3. StepsLeft' = StepsLeft
    BY <2>2 DEF StepsLeft, Scaling, Creating, Looping, Wanted, RunnerLeft, TeardownLeft, BaselineLeft
  <2> QED BY <1>0, <2>3
<1> QED BY <1>1, <1>2

LEMMA StepsFall ==
  ASSUME FullType, FullType', CapInv, CapInv', NeededInv, [Next]_vars, pc # "idle"
  PROVE  IF PassStep THEN StepsLeft' < StepsLeft ELSE StepsLeft' <= StepsLeft
<1>1. LeftOK /\ LeftOK'
  BY LeftFacts, LeftFactsNext
<1>2. ASSUME PassStep PROVE StepsLeft' < StepsLeft
  <2>1. ~\E d \in 0 .. MaxDemand : StartPass(d)
    BY DEF StartPass
  <2> QED BY <1>1, <1>2, <2>1, BaselineShortens, LoopShortens, TeardownShortens, UpShortens
          DEF PassStep
<1>3. ASSUME ~PassStep PROVE StepsLeft' <= StepsLeft
  BY <1>1, <1>3, OthersKeepSteps DEF Next
<1> QED BY <1>2, <1>3

LEMMA BoundedStep ==
  ASSUME FullType, FullType', CapInv, CapInv', NeededInv, [Next]_vars, StepsLeft <= PassBound
  PROVE  StepsLeft' <= PassBound
<1>1. LeftOK /\ LeftOK' /\ StepsLeft \in Nat
  BY LeftFacts, LeftFactsNext, LeftPositive
<1>2. StepsLeft' \in Int
  <2>1. (FullType /\ CapInv => StepsLeft \in Nat)'
    BY LeftPositive, PTL
  <2> QED BY <2>1
<1>3. PassBound \in Nat /\ PassBound = ScaleUpBound + LoopBound + 7
  BY BoundsAreNumbers DEF PassBound
<1>4. CASE pc # "idle"
  BY <1>1, <1>2, <1>3, <1>4, StepsFall
<1>5. CASE pc = "idle"
  <2>1. pc' \in {"idle", "baseline", "list"}
    BY <1>5 DEF Next, PassStep, StartPass, BaselineStep, BaselineOnline, BaselineListFails,
       BaselineStarting, BaselineStale, BaselineMissing, BaselineOffline, CloneBaseline, LoopStep,
       ListAuto, ListFails, EndLoop, SkipUnreadable, VisitStopped, VisitBusy, VisitOrphan,
       VisitIdle, StatusOf, Deregister, Destroy, UpStep, NoScaleUp, RequestScaleUp,
       CloneSucceeds, CloneFails, CloneConflict, BootRunner, RegisterRunner, StartService, Crash,
       WorldStep, Tick, RunnerConnects, RunnerDisconnects, JobAssigned, JobFinished,
       RunnerMoves, ContainerStops, ForeignDelete, StateFileLost, ForeignCreate, vars, PassVars
  <2> QED BY <1>1, <1>3, <2>1, BoundsAreNumbers DEF LeftOK
<1> QED BY <1>4, <1>5

LEMMA BoundedInit == Init => StepsLeft <= PassBound
<1> SUFFICES ASSUME Init PROVE StepsLeft <= PassBound
  OBVIOUS
<1>1. StepsLeft = 0
  BY DEF Init, StepsLeft
<1> QED BY <1>1, BoundsAreNumbers DEF PassBound

(* A pass is a bounded number of steps, whatever fails in it and whatever  *)
(* runners, containers and others do around it: every step of a pass       *)
(* lowers a measure that starts at 8 * MaxDemand + 3 * (MaxAutoRunners +   *)
(* MaxForeign) + 18, that no other step raises and that is zero only when  *)
(* no pass runs.  Neither the scale-down loop nor the clone retries nor    *)
(* the scale-up loop can go on for ever (reconciler.go 111-212, 372-396);  *)
(* to PassTerminates only the fairness of the pass's steps is left.        *)
THEOREM PassesAreBounded == Spec => []StepsLeftBounded /\ StepsLeftFall
<1> DEFINE Inv == FullType /\ CapInv /\ JobInv /\ SupplyInv
           Bounded == StepsLeft <= PassBound
           Fall == pc # "idle" => IF PassStep THEN StepsLeft' < StepsLeft
                                              ELSE StepsLeft' <= StepsLeft
<1>1. Init => Inv /\ Bounded
  BY FullTypeInit, CapInit, JobInit, SupplyInit, BoundedInit
<1>2. Inv /\ [Next]_vars => Inv'
  BY FullTypeStep, CapStep, JobStep, SupplyStep
<1>3. Inv /\ Inv' /\ Bounded /\ [Next]_vars => Bounded'
  BY BoundedStep DEF SupplyInv
<1>4. Inv /\ Inv' /\ [Next]_vars => [Fall]_vars
  BY StepsFall DEF SupplyInv
<1>5. Inv /\ Bounded => StepsLeftBounded
  BY LeftPositive, BoundsAreNumbers DEF StepsLeftBounded, PassBound
<1> HIDE DEF Inv, Bounded, Fall
<1>6. Spec => [](Inv /\ Bounded) /\ [][Fall]_vars
  BY <1>1, <1>2, <1>3, <1>4, PTL DEF Spec
<1>7. [][Fall]_vars <=> StepsLeftFall
  BY DEF Fall, StepsLeftFall
<1> QED BY <1>5, <1>6, <1>7, PTL

(***************************************************************************)
(* Leftovers are swept                                                     *)
(***************************************************************************)

(* A pass in which no call fails and nothing is created under its prefix   *)
(* leaves none of the stopped containers it listed.                        *)
LeftoversSwept ==
  faults = 0 /\ foreignSince = 0 /\ pc = "loop" /\ todo = {} =>
    \A c \in DOMAIN seen : seen[c] = "stopped" => c \notin DOMAIN container

(* A container listed as stopped is so until its visit; after it, it is    *)
(* being torn down or gone.                                                *)
Swept(c) ==
  \/ c \in todo /\ (c \in DOMAIN container => container[c] = "stopped")
  \/ pc \in Teardown /\ cur = c
  \/ c \notin DOMAIN container

SweptInv ==
  faults = 0 /\ foreignSince = 0 /\ Looping =>
    \A c \in DOMAIN seen : seen[c] = "stopped" => Swept(c)

LEMMA FaultShows == FullType /\ CanFail => faults' # 0
<1> SUFFICES ASSUME FullType, CanFail PROVE faults' # 0
  OBVIOUS
<1>1. faults \in Nat /\ faults' = faults + 1
  BY BoundAssumption DEF FullType, BoundType, CanFail
<1> QED BY <1>1

(* The pass is not in its loop after the step.                             *)
LEMMA SweptElsewhere ==
  ASSUME \/ pc' \notin {"loop"} \cup Teardown
         \/ pc' \in Teardown /\ after' = "baseline"
  PROVE  SweptInv'
BY DEF SweptInv, Looping, Teardown

(* The step is around the loop, or fails.                                  *)
LEMMA SweptAround ==
  ASSUME FullType, SweptInv, UNCHANGED PassVars, UNCHANGED foreignSince,
         \/ CanFail
         \/ /\ UNCHANGED faults
            /\ \/ container' = container
               \/ \E n \in DOMAIN container : container' = With(container, n, "stopped")
  PROVE  SweptInv'
<1>1. UNCHANGED <<pc, after, cur, seen, todo>>
  BY DEF PassVars, loopVars, stepVars
<1> SUFFICES ASSUME faults' = 0, foreignSince = 0, Looping, NEW c \in DOMAIN seen,
                    seen[c] = "stopped"
             PROVE  Swept(c)'
  BY <1>1 DEF SweptInv, Looping
<1>2. ~CanFail
  BY FaultShows
<1>3. Swept(c)
  BY <1>2 DEF SweptInv
<1>4. DOMAIN container' = DOMAIN container
      /\ \A n \in DOMAIN container : container'[n] \in {container[n], "stopped"}
  BY <1>2 DEF With
<1> QED BY <1>1, <1>3, <1>4 DEF Swept

(* The step visits c: it is torn down next, or not there any more.         *)
LEMMA SweptVisit ==
  ASSUME FullType, SweptInv, pc = "loop", NEW c \in todo, LoopFrame,
         BeginScaleDown(c) \/ Visited(c),
         Visited(c) => \/ faults' # 0
                       \/ faults' = faults
                          /\ (seen[c] = "stopped" /\ Swept(c) => c \notin DOMAIN container),
         BeginScaleDown(c) => faults' # 0 \/ faults' = faults
  PROVE  SweptInv'
<1>1. UNCHANGED <<container, seen, foreignSince>> /\ todo' = todo \ {c}
  BY DEF LoopFrame, BeginScaleDown, Visited
<1> SUFFICES ASSUME faults' = 0, foreignSince = 0, NEW d \in DOMAIN seen, seen[d] = "stopped"
             PROVE  Swept(d)'
  BY <1>1 DEF SweptInv
<1>2. faults = 0
  OBVIOUS
<1>3. Swept(d)
  BY <1>2 DEF SweptInv, Looping
<1>4. pc \notin Teardown
  BY DEF Teardown
<1>5. CASE d # c
  BY <1>1, <1>3, <1>4, <1>5 DEF Swept
<1>6. CASE d = c /\ BeginScaleDown(c)
  BY <1>6 DEF Swept, BeginScaleDown, Teardown
<1>7. CASE d = c /\ Visited(c)
  BY <1>1, <1>2, <1>3, <1>7 DEF Swept
<1> QED BY <1>5, <1>6, <1>7

(* A container listed as stopped is not taken for anything else, unless    *)
(* its status could not be read.                                           *)
LEMMA StoppedIsSeen ==
  ASSUME FullType, NEW c \in todo, NEW status, StatusOf(c, status), status # "stopped",
         NEW files, Saved(c, status, files), seen[c] = "stopped", Swept(c), faults' = 0
  PROVE  FALSE
<1>1. ~CanFail
  BY FaultShows
<1>2. ~Transitional(c, status)
  BY <1>1 DEF Saved
<1>3. NeedsRefresh(c)
  BY DEF StatusOf
<1>4. c \in DOMAIN container /\ status = container[c] /\ pc = "loop"
  BY <1>2, <1>3 DEF StatusOf, Transitional
<1>5. container[c] = "stopped"
  BY <1>4 DEF Swept, Teardown
<1> QED BY <1>4, <1>5

LEMMA SweptLoop ==
  ASSUME FullType, SweptInv, NEW c \in todo, NEW status,
         VisitBusy(c, status) \/ VisitOrphan(c, status) \/ VisitIdle(c, status)
  PROVE  SweptInv'
<1>1. /\ pc = "loop" /\ LoopFrame /\ (BeginScaleDown(c) \/ Visited(c))
      /\ StatusOf(c, status) /\ status # "stopped"
      /\ \E files : Saved(c, status, files)
  BY DEF VisitBusy, VisitOrphan, VisitIdle, StatusOf
<1>2. faults' # 0 \/ faults' = faults
  BY <1>1, FaultShows DEF Saved
<1>3. faults' # 0 \/ ~(seen[c] = "stopped" /\ Swept(c))
  BY <1>1, StoppedIsSeen
<1> QED BY <1>1, <1>2, <1>3, SweptVisit

LEMMA SweptDestroy ==
  ASSUME FullType, CapInv, SweptInv, Destroy
  PROVE  SweptInv'
<1>1. after \in {"loop", "baseline"} /\ pc = "destroy"
  BY DEF Destroy, ScaleDownDeleted, ScaleDownKept
<1>2. CASE after = "baseline"
  <2>1. pc' \in {"cloneBaseline", "list"}
    BY <1>2 DEF Destroy, ScaleDownDeleted, ScaleDownKept, BaselineDone
  <2> QED BY <2>1, SweptElsewhere DEF Teardown
<1>3. CASE after = "loop"
  <2>1. pc' = "loop" /\ UNCHANGED <<seen, todo, foreignSince>>
    BY <1>3 DEF Destroy, ScaleDownDeleted, ScaleDownKept, loopVars
  <2> SUFFICES ASSUME faults' = 0, foreignSince = 0, NEW c \in DOMAIN seen, seen[c] = "stopped"
               PROVE  Swept(c)'
    BY <2>1 DEF SweptInv
  <2>2. ~CanFail
    BY FaultShows
  <2>3. faults = 0
    BY <2>2 DEF Destroy
  <2>4. Swept(c)
    BY <1>1, <1>3, <2>3 DEF SweptInv, Looping, Teardown
  <2>5. \/ cur \in DOMAIN container /\ container' = Without(container, cur)
        \/ cur \notin DOMAIN container /\ container' = container
    BY <2>2 DEF Destroy
  <2>6. /\ cur \notin DOMAIN container'
        /\ \A n \in DOMAIN container' : n \in DOMAIN container /\ container'[n] = container[n]
    <3>1. CASE cur \in DOMAIN container /\ container' = Without(container, cur)
      <4>1. DOMAIN container' = DOMAIN container \ {cur}
        BY <3>1, WithoutFacts
      <4>2. \A n \in DOMAIN container : n # cur => container'[n] = container[n]
        BY <3>1, WithoutFacts
      <4> QED BY <4>1, <4>2
    <3>2. CASE cur \notin DOMAIN container /\ container' = container
      BY <3>2
    <3> QED BY <2>5, <3>1, <3>2
  <2> QED BY <2>1, <2>4, <2>6 DEF Swept
<1> QED BY <1>1, <1>2, <1>3

LEMMA SweptStep ==
  FullType /\ CapInv /\ SweptInv /\ [Next]_vars => SweptInv'
<1> SUFFICES ASSUME FullType, CapInv, SweptInv, [Next]_vars PROVE SweptInv'
  OBVIOUS
<1> USE DEF Teardown
<1>1. UNCHANGED vars => SweptInv'
  BY SweptAround DEF vars, world, PassVars, bounds
<1>2. \A d \in 0 .. MaxDemand : StartPass(d) => SweptInv'
  BY SweptElsewhere DEF StartPass
<1>3. Crash \/ ListFails \/ NoScaleUp => SweptInv'
  BY SweptElsewhere DEF Crash, ListFails, NoScaleUp, EndPass
<1>4. BaselineOnline \/ BaselineListFails \/ BaselineStarting \/ CloneBaseline => SweptInv'
  BY SweptElsewhere
  DEF BaselineOnline, BaselineListFails, BaselineStarting, CloneBaseline, BaselineDone
<1>5. BaselineStale \/ BaselineMissing => SweptInv'
  BY SweptElsewhere DEF BaselineStale, BaselineMissing
<1>6. ListAuto => SweptInv'
  <2> SUFFICES ASSUME ListAuto, faults' = 0, NEW c \in DOMAIN seen', seen'[c] = "stopped"
               PROVE  Swept(c)'
    BY DEF SweptInv
  <2>1. ~CanFail
    BY FaultShows
  <2>2. seen' = [n \in AutoContainers |-> container[n]] /\ todo' = AutoContainers
        /\ container' = container
    BY <2>1 DEF ListAuto, world
  <2> QED BY <2>2 DEF Swept
<1>7. EndLoop => SweptInv'
  BY SweptElsewhere DEF EndLoop
<1>8. \A c \in todo : SkipUnreadable(c) => SweptInv'
  <2> SUFFICES ASSUME NEW c \in todo, SkipUnreadable(c) PROVE SweptInv'
    OBVIOUS
  <2>1. pc = "loop" /\ Visited(c) /\ LoopFrame
    BY DEF SkipUnreadable
  <2>2. faults' # 0 \/ (faults' = faults /\ c \notin DOMAIN container)
    BY FaultShows DEF SkipUnreadable
  <2>3. ~BeginScaleDown(c)
    BY <2>1 DEF Visited, BeginScaleDown
  <2> QED BY <2>1, <2>2, <2>3, SweptVisit
<1>9. \A c \in todo, status \in Statuses : VisitStopped(c, status) => SweptInv'
  <2> SUFFICES ASSUME NEW c \in todo, NEW status \in Statuses, VisitStopped(c, status)
               PROVE  SweptInv'
    OBVIOUS
  <2>1. pc = "loop" /\ BeginScaleDown(c) /\ LoopFrame /\ faults' = faults
    BY DEF VisitStopped, StatusOf
  <2>2. ~Visited(c)
    BY <2>1 DEF Visited, BeginScaleDown
  <2> QED BY <2>1, <2>2, SweptVisit
<1>10. \A c \in todo, status \in Statuses :
         VisitBusy(c, status) \/ VisitOrphan(c, status) \/ VisitIdle(c, status) => SweptInv'
  BY SweptLoop
<1>11. Deregister => SweptInv'
  <2> SUFFICES ASSUME Deregister, faults' = 0, foreignSince' = 0, Looping',
                      NEW c \in DOMAIN seen', seen'[c] = "stopped"
               PROVE  Swept(c)'
    BY DEF SweptInv
  <2>1. /\ pc = "deregister" /\ pc' = "destroy"
        /\ UNCHANGED <<container, seen, todo, cur, after, foreignSince>>
    BY DEF Deregister, loopVars, stepVars
  <2>2. faults = 0
    BY FaultShows DEF Deregister
  <2>3. Looping
    BY <2>1 DEF Looping
  <2>4. Swept(c)
    BY <2>1, <2>2, <2>3 DEF SweptInv
  <2> QED BY <2>1, <2>4 DEF Swept
<1>12. Destroy => SweptInv'
  BY SweptDestroy
<1>13. RequestScaleUp => SweptInv'
  BY SweptElsewhere DEF RequestScaleUp, EndPass
<1>14. \A name \in 1 .. Cardinality(names) + 1 :
         CloneSucceeds(name) \/ CloneFails(name) \/ CloneConflict(name) => SweptInv'
  BY SweptElsewhere DEF CloneSucceeds, CloneFails, CloneConflict, EndPass
<1>15. BootRunner \/ RegisterRunner \/ StartService => SweptInv'
  <2>1. BootRunner \/ RegisterRunner \/ StartService
          => pc' \in {"register", "service", "up", "list", "idle"}
    BY DEF BootRunner, RegisterRunner, StartService, StepFails, ProvisionFailed, EndPass,
       BaselineDone
  <2> QED BY <2>1, SweptElsewhere
<1>16. Tick => SweptInv'
  BY SweptAround DEF Tick, bounds
<1>17. \A n \in DOMAIN runner :
         RunnerConnects(n) \/ RunnerDisconnects(n) \/ JobAssigned(n) \/ JobFinished(n) => SweptInv'
  BY SweptAround
  DEF RunnerConnects, RunnerDisconnects, JobAssigned, JobFinished, RunnerMoves, bounds
<1>18. \A n \in DOMAIN container : ContainerStops(n) => SweptInv'
  BY SweptAround DEF ContainerStops
<1>19. \A n \in DOMAIN container : ForeignDelete(n) => SweptInv'
  BY SweptAround DEF ForeignDelete
<1>20. \A n \in DOMAIN lastActive : StateFileLost(n) => SweptInv'
  BY SweptAround DEF StateFileLost
<1>21. \A n \in 1 .. MaxAutoRunners + MaxForeign : ForeignCreate(n) => SweptInv'
  <2> SUFFICES ASSUME NEW n, ForeignCreate(n) PROVE SweptInv'
    OBVIOUS
  <2>1. foreignSince' = foreignSince + 1 /\ foreignSince \in Nat
    BY BoundAssumption DEF ForeignCreate, FullType, BoundType
  <2> QED BY <2>1 DEF SweptInv
<1> QED BY <1>1, <1>2, <1>3, <1>4, <1>5, <1>6, <1>7, <1>8, <1>9, <1>10, <1>11, <1>12, <1>13, <1>14,
           <1>15, <1>16, <1>17, <1>18, <1>19, <1>20, <1>21, StepCases

(* The scale-down loop leaves none of the stopped containers it listed:    *)
(* not by visiting only some of them, not by taking a stale status for     *)
(* another, not by losing one between the listing and its visit, as long   *)
(* as no call failed and nobody created a container of that name again     *)
(* (reconciler.go 137-161, 399-468).  LeftoversCollected then only needs   *)
(* passes to come.                                                         *)
THEOREM StoppedContainersAreSwept == Spec => []LeftoversSwept
<1>1. Init => SweptInv
  BY DEF Init, SweptInv, Looping, Teardown
<1>2. SweptInv => LeftoversSwept
  BY DEF SweptInv, LeftoversSwept, Swept, Looping, Teardown
<1> QED BY <1>1, <1>2, SweptStep, FullTypeInit, FullTypeStep, CapInit, CapStep, PTL DEF Spec
===============================================================================
