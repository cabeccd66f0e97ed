-------------------------- MODULE DemandTrackerProofs --------------------------
(***************************************************************************)
(* Proofs about DemandTracker, for any number of groups, jobs,             *)
(* repositories, handlers and faults: the type invariant, that a cleared   *)
(* job stays cleared, that a queued job is kept, that new demand announces *)
(* itself, and that nothing renews a phantom.                              *)
(***************************************************************************)
EXTENDS DemandTracker, TLAPS

(***************************************************************************)
(* The inductive invariant                                                 *)
(***************************************************************************)
Left == {"in_progress", "completed"}

(* An event says no more than GitHub's job status does.                    *)
Truthful(m) ==
  /\ m[1] = "queued" => job[m[2]] # "new"
  /\ m[1] \in Left => job[m[2]] \in Left

EventsTruthful ==
  /\ \A m \in hooks : Truthful(m)
  /\ \A h \in Handlers : handlerPc[h] # "idle" => Truthful(handling[h])

(* What the histories say was applied, memory or disk reflects.            *)
Reflects(hist, s) ==
  \A g \in Groups, j \in Jobs :
    /\ hist[g][j] = "clear" => s[g][j] = Absent /\ job[j] \in Left
    /\ hist[g][j] = "queue" => job[j] # "new"
    /\ s[g][j] # Absent => job[j] # "new" /\ s[g][j] <= age[j]
    /\ /\ CoveredByAudit(g, j)
       /\ readable[j]
       /\ hist[g][j] = "queue"
       /\ job[j] = "queued"
       /\ age[j] <= TTL
       => s[g][j] # Absent

(* While the audit holds demandMu, what it has listed so far is neither    *)
(* out of date where that matters nor incomplete.                          *)
ListingSound ==
  auditPc = "read" =>
    \A j \in Jobs :
      /\ j \in found => job[j] # "new" /\ \A g \in Groups : lastHook[g][j] # "clear"
      /\ /\ CoveredByAudit(auditGroup, j)
         /\ JobRepo[j] \notin auditRepos
         /\ readable[j]
         /\ lastHook[auditGroup][j] = "queue"
         /\ job[j] = "queued"
         => j \in found

IInv ==
  /\ TypeOK
  /\ EventsTruthful
  /\ Reflects(lastHook, state)
  /\ Reflects(durableHook, disk)
  /\ ListingSound

DemandType == [Groups -> [Jobs -> Ages \cup {Absent}]]

(***************************************************************************)
(* Lemmas about the helpers                                                *)
(***************************************************************************)

(* pruneLocked keeps the shape of the demand, and every entry it keeps is  *)
(* unchanged and no older than the TTL.                                    *)
LEMMA PrunedFacts ==
  ASSUME NEW s \in DemandType
  PROVE  /\ Pruned(s) \in DemandType
         /\ \A g \in Groups, j \in Jobs :
              /\ s[g][j] <= TTL => Pruned(s)[g][j] = s[g][j]
              /\ Pruned(s)[g][j] \in {s[g][j], Absent}
  BY SizeAssumption DEF Pruned, DemandType, Ages, Absent

(* Writing one entry keeps the shape and every other entry.                *)
LEMMA PutDemand ==
  ASSUME NEW s \in DemandType, NEW g \in Groups, NEW j \in Jobs,
         NEW v \in Ages \cup {Absent}
  PROVE  /\ Put(s, g, j, v) \in DemandType
         /\ Put(s, g, j, v)[g][j] = v
         /\ \A k \in Groups, i \in Jobs :
              (k # g \/ i # j) => Put(s, g, j, v)[k][i] = s[k][i]
  BY DEF Put, DemandType

(* The same for the history of applied events.                             *)
LEMMA PutHook ==
  ASSUME NEW s \in [Groups -> [Jobs -> Applied]], NEW g \in Groups, NEW j \in Jobs,
         NEW v \in Applied
  PROVE  /\ Put(s, g, j, v) \in [Groups -> [Jobs -> Applied]]
         /\ Put(s, g, j, v)[g][j] = v
         /\ \A k \in Groups, i \in Jobs :
              (k # g \/ i # j) => Put(s, g, j, v)[k][i] = s[k][i]
  BY DEF Put

(* Growing older keeps the shape of the demand.                            *)
LEMMA OlderFacts ==
  /\ \A a \in Ages : Older(a) \in Ages
  /\ \A a \in Ages \cup {Absent} : Older(a) \in Ages \cup {Absent}
  /\ \A s \in DemandType : AllOlder(s) \in DemandType
  BY SizeAssumption DEF Older, AllOlder, DemandType, Ages, Absent

(* A batch consists of repositories, and the cursor stays within them.     *)
LEMMA BatchFacts ==
  ASSUME TypeOK, NEW g \in Groups
  PROVE  /\ WorkflowRepoBatch(g) \in SUBSET Repos
         /\ NextCursor(g) \in [Groups -> 0 .. NumRepos - 1]
<1>1. \A n \in Nat : n % NumRepos \in 0 .. NumRepos - 1
  BY SizeAssumption
<1>2. cursor[g] \in Nat /\ BatchSize \in Nat /\ NumRepos \in Nat
  BY SizeAssumption DEF TypeOK
<1>3. \A i \in 0 .. BatchSize - 1 : ((cursor[g] + i) % NumRepos) + 1 \in Repos
  <2> TAKE i \in 0 .. BatchSize - 1
  <2>1. cursor[g] + i \in Nat
    BY <1>2
  <2>2. (cursor[g] + i) % NumRepos \in 0 .. NumRepos - 1
    BY <1>1, <2>1
  <2> QED BY <1>2, <2>2 DEF Repos
<1>4. WorkflowRepoBatch(g) \in SUBSET Repos
  <2>1. GroupRepos[g] \in SUBSET Repos
    BY RoutingAssumption
  <2> QED BY <1>3, <2>1 DEF WorkflowRepoBatch
<1>5. (cursor[g] + BatchSize) % NumRepos \in 0 .. NumRepos - 1
  <2>1. cursor[g] + BatchSize \in Nat
    BY <1>2
  <2> QED BY <1>1, <2>1
<1>6. NextCursor(g) \in [Groups -> 0 .. NumRepos - 1]
  BY <1>5 DEF NextCursor, TypeOK
<1> QED BY <1>4, <1>6

(***************************************************************************)
(* Type correctness                                                        *)
(***************************************************************************)
LEMMA TypeInit == Init => TypeOK
<1> SUFFICES ASSUME Init PROVE TypeOK
  OBVIOUS
<1>1. state \in DemandType /\ disk \in DemandType
  BY DEF Init, NoDemand, DemandType
<1>2. lastHook \in [Groups -> [Jobs -> Applied]] /\ durableHook \in [Groups -> [Jobs -> Applied]]
  BY DEF Init, NoHook, Applied
<1>3. /\ auditGroup \in Groups
      /\ cursor \in [Groups -> 0 .. NumRepos - 1]
      /\ faults \in 0 .. MaxFaults
      /\ age \in [Jobs -> Ages]
  BY SizeAssumption DEF Init, Groups, Ages
<1> QED BY <1>1, <1>2, <1>3 DEF Init, TypeOK, DemandType, JobStates

(* A write of the file keeps the type of everything it touches.            *)
LEMMA PersistType ==
  ASSUME TypeOK, NEW next \in DemandType, Persist(next),
         lastHook' \in [Groups -> [Jobs -> Applied]]
  PROVE  /\ state' \in DemandType
         /\ disk' \in DemandType
         /\ durableHook' \in [Groups -> [Jobs -> Applied]]
         /\ faults' \in 0 .. MaxFaults
  BY SizeAssumption DEF Persist, CanFail, TypeOK, DemandType

(* What Replace puts in place of a group's demand.                         *)
Replaced ==
  [Pruned(state) EXCEPT ![auditGroup] =
     [j \in Jobs |-> IF j \in Matched THEN age[j] ELSE Absent]]

LEMMA ReplacedFacts ==
  ASSUME TypeOK
  PROVE  /\ Replaced \in DemandType
         /\ \A j \in Jobs : Replaced[auditGroup][j] = IF j \in Matched THEN age[j] ELSE Absent
         /\ \A g \in Groups, j \in Jobs : g # auditGroup => Replaced[g][j] = Pruned(state)[g][j]
<1>1. Pruned(state) \in DemandType
  BY PrunedFacts DEF TypeOK, DemandType
<1>2. [j \in Jobs |-> IF j \in Matched THEN age[j] ELSE Absent] \in [Jobs -> Ages \cup {Absent}]
  BY DEF TypeOK
<1>3. auditGroup \in Groups
  BY DEF TypeOK
<1> QED BY <1>1, <1>2, <1>3 DEF Replaced, DemandType

LEMMA AuditNextType ==
  ASSUME TypeOK, NEW rest \in SUBSET Groups, AuditNext(rest)
  PROVE  /\ auditPc' \in {"idle", "next", "read", "trigger"}
         /\ auditTodo' \in SUBSET Groups
         /\ auditGroup' \in Groups
         /\ auditRepos' \in SUBSET Repos
         /\ found' \in SUBSET Jobs
  BY SizeAssumption DEF AuditNext, Groups

LEMMA TypeStep == TypeOK /\ [Next]_vars => TypeOK'
<1> SUFFICES ASSUME TypeOK, [Next]_vars PROVE TypeOK'
  OBVIOUS
<1> USE DEF github, handlerVars, auditVars, trackerVars, hookHistory
<1>1. CASE UNCHANGED vars
  BY <1>1 DEF TypeOK, vars
<1>2. ASSUME NEW j \in Jobs, NEW from \in JobStates, NEW to \in Events, JobChanges(j, from, to),
             readable' \in [Jobs -> BOOLEAN]
      PROVE  TypeOK'
  BY <1>2 DEF JobChanges, TypeOK, JobStates, Events
<1>3. CASE \E j \in Jobs : \/ JobQueued(j) \/ JobStarts(j) \/ JobCompletes(j) \/ JobCancelled(j)
                          \/ JobOvertaken(j)
  <2> PICK j \in Jobs : \/ JobQueued(j) \/ JobStarts(j) \/ JobCompletes(j) \/ JobCancelled(j)
                        \/ JobOvertaken(j)
    BY <1>3
  <2>1. readable' \in [Jobs -> BOOLEAN]
    BY DEF JobQueued, JobStarts, JobCompletes, JobCancelled, JobOvertaken, TypeOK
  <2>2. CASE JobOvertaken(j)
    BY <2>1, <2>2 DEF JobOvertaken, TypeOK
  <2> QED BY <1>2, <2>1, <2>2 DEF JobQueued, JobStarts, JobCompletes, JobCancelled, JobStates, Events
<1>4. ASSUME NEW m \in hooks, HookLost(m) PROVE TypeOK'
  BY <1>4, SizeAssumption DEF HookLost, CanFail, TypeOK
<1>5. ASSUME NEW h \in Handlers, NEW m \in hooks, Receive(h, m) PROVE TypeOK'
  <2>1. m \in Events \X Jobs
    BY DEF TypeOK
  <2>2. GroupsForEvent(m[2]) \in SUBSET Groups
    BY DEF GroupsForEvent
  <2>3. hooks' \in SUBSET (Events \X Jobs) /\ faults' \in 0 .. MaxFaults
    BY <1>5, SizeAssumption DEF Receive, CanFail, TypeOK
  <2>4. handlerTodo' \in [Handlers -> SUBSET Groups]
    BY <1>5, <2>2 DEF Receive, TypeOK
  <2>5. handling' \in [Handlers -> (Events \X Jobs) \cup {<<>>}]
    BY <1>5, <2>1 DEF Receive, TypeOK
  <2>6. handlerPc' \in [Handlers -> {"idle", "apply", "schedule"}]
    BY <1>5 DEF Receive, TypeOK
  <2>7. \A k \in Handlers : handlerPc'[k] # "idle" => handling'[k] \in Events \X Jobs
    <3> SUFFICES ASSUME NEW k \in Handlers, handlerPc'[k] # "idle" PROVE handling'[k] \in Events \X Jobs
      OBVIOUS
    <3>1. CASE k = h
      BY <1>5, <2>1, <3>1 DEF Receive, TypeOK
    <3>2. CASE k # h
      BY <1>5, <3>2 DEF Receive, TypeOK
    <3> QED BY <3>1, <3>2
  <2> QED BY <1>5, <2>3, <2>4, <2>5, <2>6, <2>7 DEF Receive, TypeOK
<1>6. ASSUME NEW h \in Handlers, NEW g \in Groups, ApplyDemand(h, g) PROVE TypeOK'
  <2> DEFINE j == handling[h][2]
             queues == handling[h][1] = "queued"
             next == Put(Pruned(state), g, j, IF queues THEN 0 ELSE Absent)
  <2>1. j \in Jobs
    BY <1>6 DEF ApplyDemand, TypeOK
  <2>2. next \in DemandType
    <3>1. Pruned(state) \in DemandType
      BY PrunedFacts DEF TypeOK, DemandType
    <3>2. (IF queues THEN 0 ELSE Absent) \in Ages \cup {Absent}
      BY SizeAssumption DEF Ages
    <3> HIDE DEF j, queues
    <3> QED BY <2>1, <3>1, <3>2, PutDemand
  <2>3. lastHook' = Put(lastHook, g, j, IF queues THEN "queue" ELSE "clear") /\ Persist(next)
    BY <1>6 DEF ApplyDemand
  <2>4. lastHook' \in [Groups -> [Jobs -> Applied]]
    <3> HIDE DEF j, queues
    <3>1. (IF queues THEN "queue" ELSE "clear") \in Applied
      BY DEF Applied
    <3> QED BY <2>1, <2>3, <3>1, PutHook DEF TypeOK
  <2>5. grown' \in [Groups -> BOOLEAN]
    BY <1>6 DEF ApplyDemand, TypeOK
  <2>6. handlerPc' \in [Handlers -> {"idle", "apply", "schedule"}]
    BY <1>6 DEF ApplyDemand, TypeOK
  <2>7. \A k \in Handlers : handlerPc'[k] # "idle" => handling'[k] \in Events \X Jobs
    BY <1>6 DEF ApplyDemand, TypeOK
  <2> HIDE DEF next
  <2>8. /\ state' \in DemandType /\ disk' \in DemandType
        /\ durableHook' \in [Groups -> [Jobs -> Applied]] /\ faults' \in 0 .. MaxFaults
    BY <2>2, <2>3, <2>4, PersistType
  <2> QED BY <1>6, <2>4, <2>5, <2>6, <2>7, <2>8 DEF ApplyDemand, TypeOK, DemandType
<1>7. ASSUME NEW h \in Handlers, NEW g \in Groups, ScheduleTrigger(h, g) PROVE TypeOK'
  <2>1. handling' \in [Handlers -> (Events \X Jobs) \cup {<<>>}]
    BY <1>7 DEF ScheduleTrigger, TypeOK
  <2>2. \A k \in Handlers : handlerPc'[k] # "idle" => handling'[k] \in Events \X Jobs
    BY <1>7 DEF ScheduleTrigger, TypeOK
  <2> QED BY <1>7, <2>1, <2>2 DEF ScheduleTrigger, TypeOK
<1>8. CASE AuditTick
  BY <1>8 DEF AuditTick, TypeOK
<1>9. ASSUME NEW g \in Groups, AuditLock(g) PROVE TypeOK'
  <2>1. CASE auditPc' = "read" /\ auditGroup' = g /\ auditRepos' = WorkflowRepoBatch(g)
             /\ cursor' = NextCursor(g) /\ found' = {} /\ UNCHANGED <<auditTodo, faults>>
    BY <1>9, <2>1, BatchFacts DEF AuditLock, TypeOK
  <2>2. CASE CanFail /\ AuditNext(auditTodo \ {g}) /\ UNCHANGED cursor
    <3>1. auditTodo \ {g} \in SUBSET Groups
      BY DEF TypeOK
    <3>2. faults' \in 0 .. MaxFaults
      BY <2>2, SizeAssumption DEF CanFail, TypeOK
    <3> QED BY <1>9, <2>2, <3>1, <3>2, AuditNextType DEF AuditLock, TypeOK
  <2> QED BY <1>9, <2>1, <2>2 DEF AuditLock
<1>10. ASSUME NEW r \in Repos, AuditListRepo(r) PROVE TypeOK'
  <2>1. CASE found' = found \cup Listed(r)
             /\ auditRepos' = auditRepos \ {r} /\ UNCHANGED <<auditPc, auditTodo, auditGroup, faults>>
    BY <1>10, <2>1 DEF AuditListRepo, Listed, TypeOK
  <2>2. CASE CanFail /\ AuditNext(auditTodo \ {auditGroup})
    <3>1. auditTodo \ {auditGroup} \in SUBSET Groups
      BY DEF TypeOK
    <3>2. faults' \in 0 .. MaxFaults
      BY <2>2, SizeAssumption DEF CanFail, TypeOK
    <3> QED BY <1>10, <2>2, <3>1, <3>2, AuditNextType DEF AuditListRepo, TypeOK
  <2> QED BY <1>10, <2>1, <2>2 DEF AuditListRepo
<1>11. CASE AuditReplace
  <2>1. Persist(Replaced) /\ lastHook' = lastHook
    BY <1>11 DEF AuditReplace, Replaced
  <2>2. /\ state' \in DemandType /\ disk' \in DemandType
        /\ durableHook' \in [Groups -> [Jobs -> Applied]] /\ faults' \in 0 .. MaxFaults
    BY <2>1, ReplacedFacts, PersistType DEF TypeOK
  <2>3. grown' \in [Groups -> BOOLEAN]
    BY <1>11 DEF AuditReplace, TypeOK
  <2>4. auditTodo \ {auditGroup} \in SUBSET Groups
    BY DEF TypeOK
  <2>5. /\ auditPc' \in {"idle", "next", "read", "trigger"} /\ auditTodo' \in SUBSET Groups
        /\ auditGroup' \in Groups /\ auditRepos' \in SUBSET Repos /\ found' \in SUBSET Jobs
    BY <1>11, <2>4, AuditNextType DEF AuditReplace, TypeOK
  <2> QED BY <1>11, <2>1, <2>2, <2>3, <2>5 DEF AuditReplace, TypeOK, DemandType
<1>12. CASE AuditTrigger
  <2>1. auditTodo \ {auditGroup} \in SUBSET Groups
    BY DEF TypeOK
  <2> QED BY <1>12, <2>1, AuditNextType DEF AuditTrigger, TypeOK
<1>13. ASSUME NEW g \in Groups, MetricsBatch(g) PROVE TypeOK'
  BY <1>13, BatchFacts DEF MetricsBatch, TypeOK
<1>14. ASSUME NEW g \in Groups, PassReads(g) PROVE TypeOK'
  <2>1. state' \in DemandType
    BY <1>14, PrunedFacts DEF PassReads, TypeOK, DemandType
  <2> QED BY <1>14, <2>1 DEF PassReads, TypeOK, DemandType
<1>15. CASE CrashRestart
  <2>1. state' \in DemandType
    BY <1>15, PrunedFacts DEF CrashRestart, Loaded, TypeOK, DemandType
  <2>2. auditGroup' \in Groups /\ cursor' \in [Groups -> 0 .. NumRepos - 1] /\ faults' \in 0 .. MaxFaults
    BY <1>15, SizeAssumption DEF CrashRestart, CanFail, Groups, TypeOK
  <2> QED BY <1>15, <2>1, <2>2 DEF CrashRestart, TypeOK, DemandType
<1>16. CASE Tick
  <2>1. state' \in DemandType /\ disk' \in DemandType
    BY <1>16, OlderFacts DEF Tick, TypeOK, DemandType
  <2>2. age' \in [Jobs -> Ages]
    <3>1. 0 \in Ages
      BY SizeAssumption DEF Ages
    <3> QED BY <1>16, <3>1, OlderFacts DEF Tick, TypeOK
  <2> QED BY <1>16, <2>1, <2>2 DEF Tick, TypeOK, DemandType
<1> QED BY <1>1, <1>3, <1>4, <1>5, <1>6, <1>7, <1>8, <1>9, <1>10, <1>11, <1>12, <1>13,
          <1>14, <1>15, <1>16 DEF Next, GitHubStep, HandlerStep, AuditStep

(* Every variable keeps its type: the tracker, its file, the handlers and  *)
(* the audit, through crashes and failing calls.                           *)
THEOREM DemandTypeCorrect == Spec => []TypeOK
  BY TypeInit, TypeStep, PTL DEF Spec

(***************************************************************************)
(* The inductive invariant is preserved                                    *)
(***************************************************************************)
HookType == [Groups -> [Jobs -> Applied]]

LEMMA IInvInit == Init => IInv
<1> SUFFICES ASSUME Init PROVE IInv
  OBVIOUS
<1>1. TypeOK
  BY TypeInit
<1>2. \A g \in Groups, j \in Jobs : lastHook[g][j] = "none" /\ state[g][j] = Absent
                                 /\ durableHook[g][j] = "none" /\ disk[g][j] = Absent
  BY DEF Init, NoHook, NoDemand
<1>3. Reflects(lastHook, state) /\ Reflects(durableHook, disk)
  BY <1>2 DEF Reflects
<1> QED BY <1>1, <1>3 DEF Init, IInv, EventsTruthful, ListingSound

(* Pruning takes nothing away that the histories promise.                  *)
LEMMA PruneReflects ==
  ASSUME TypeOK, NEW hist \in HookType, NEW s \in DemandType, Reflects(hist, s)
  PROVE  Reflects(hist, Pruned(s))
<1> SUFFICES ASSUME NEW g \in Groups, NEW j \in Jobs
             PROVE  /\ hist[g][j] = "clear" => Pruned(s)[g][j] = Absent /\ job[j] \in Left
                    /\ hist[g][j] = "queue" => job[j] # "new"
                    /\ Pruned(s)[g][j] # Absent => job[j] # "new" /\ Pruned(s)[g][j] <= age[j]
                    /\ CoveredByAudit(g, j) /\ readable[j] /\ hist[g][j] = "queue" /\ job[j] = "queued"
                         /\ age[j] <= TTL => Pruned(s)[g][j] # Absent
  BY DEF Reflects
<1>1. Pruned(s)[g][j] \in {s[g][j], Absent} /\ (s[g][j] <= TTL => Pruned(s)[g][j] = s[g][j])
  BY PrunedFacts
<1>2. s[g][j] \in Ages \cup {Absent} /\ age[j] \in Ages
  BY DEF TypeOK, DemandType
<1>3. /\ hist[g][j] = "clear" => s[g][j] = Absent /\ job[j] \in Left
      /\ hist[g][j] = "queue" => job[j] # "new"
      /\ s[g][j] # Absent => job[j] # "new" /\ s[g][j] <= age[j]
      /\ CoveredByAudit(g, j) /\ readable[j] /\ hist[g][j] = "queue" /\ job[j] = "queued"
           /\ age[j] <= TTL => s[g][j] # Absent
  BY DEF Reflects
<1> QED BY <1>1, <1>2, <1>3, SizeAssumption DEF Ages, Absent

(* When a file write succeeds or fails, both histories stay reflected.     *)
LEMMA PersistReflects ==
  ASSUME NEW next \in DemandType, Persist(next), Reflects(durableHook, disk),
         Reflects(lastHook', next)
  PROVE  Reflects(lastHook', state') /\ Reflects(durableHook', disk')
<1>1. state' = next
  BY DEF Persist
<1>2. \/ disk' = next /\ durableHook' = lastHook'
      \/ disk' = disk /\ durableHook' = durableHook
  BY DEF Persist
<1> QED BY <1>1, <1>2

(* Reflects only depends on GitHub's jobs and their ages.                  *)
LEMMA ReflectsUnchanged ==
  ASSUME UNCHANGED <<job, age, readable>>, Reflects(lastHook', state'), Reflects(durableHook', disk')
  PROVE  Reflects(lastHook, state)' /\ Reflects(durableHook, disk)'
  BY DEF Reflects, CoveredByAudit, Unlimited, GroupMatchesRepo, LabelsMatch

LEMMA IInvStep == IInv /\ [Next]_vars => IInv'
<1> SUFFICES ASSUME IInv, [Next]_vars PROVE IInv'
  OBVIOUS
<1> USE DEF github, handlerVars, auditVars, trackerVars, hookHistory
<1>a. TypeOK /\ TypeOK'
  BY TypeStep DEF IInv
<1>b. /\ state \in DemandType /\ disk \in DemandType
      /\ lastHook \in HookType /\ durableHook \in HookType
  BY <1>a DEF TypeOK, DemandType, HookType
<1>c. Reflects(lastHook, state) /\ Reflects(durableHook, disk) /\ EventsTruthful /\ ListingSound
  BY DEF IInv
<1>1. CASE UNCHANGED vars
  <2>1. UNCHANGED <<job, age, readable>> /\ Reflects(lastHook', state') /\ Reflects(durableHook', disk')
    BY <1>1, <1>c DEF vars
  <2>2. EventsTruthful' /\ ListingSound'
    BY <1>1, <1>c DEF vars, EventsTruthful, Truthful, ListingSound, CoveredByAudit, Unlimited,
                      GroupMatchesRepo, LabelsMatch
  <2> QED BY <1>a, <2>1, <2>2, ReflectsUnchanged DEF IInv
<1>2. ASSUME NEW i \in Jobs, NEW from \in JobStates, NEW to \in Events, JobChanges(i, from, to),
             <<from, to>> \in {<<"new", "queued">>, <<"queued", "in_progress">>,
                               <<"in_progress", "completed">>, <<"queued", "completed">>},
             \A j \in Jobs : readable'[j] => readable[j] \/ job[j] = "new"
      PROVE  IInv'
  <2>1. \A j \in Jobs : /\ job'[j] # "new" \/ job'[j] = job[j]
                        /\ job[j] \in Left => job'[j] \in Left
                        /\ job[j] # "new" => job'[j] # "new"
                        /\ job'[j] = "queued" => job[j] \in {"new", "queued"}
    BY <1>2, <1>a DEF JobChanges, TypeOK, Left
  <2>2. /\ to = "queued" => job'[i] # "new"
        /\ to \in Left => job'[i] \in Left
    BY <1>2, <1>a DEF JobChanges, TypeOK, Left
  <2> DEFINE After(m) == /\ m[1] = "queued" => job'[m[2]] # "new"
                         /\ m[1] \in Left => job'[m[2]] \in Left
  <2>3. After(<<to, i>>)
    BY <2>2
  <2>4. \A m \in Events \X Jobs : Truthful(m) => After(m)
    BY <2>1 DEF Truthful
  <2>5. EventsTruthful'
    <3>1. \A m \in hooks' : After(m)
      <4>1. hooks' = hooks \cup {<<to, i>>} /\ hooks \in SUBSET (Events \X Jobs)
        BY <1>2, <1>a DEF JobChanges, TypeOK
      <4>2. \A m \in hooks : Truthful(m)
        BY <1>c DEF EventsTruthful
      <4> HIDE DEF After
      <4> QED BY <4>1, <4>2, <2>3, <2>4
    <3>2. \A h \in Handlers : handlerPc[h] # "idle" => After(handling[h])
      <4>1. \A h \in Handlers : handlerPc[h] # "idle" => handling[h] \in Events \X Jobs /\ Truthful(handling[h])
        BY <1>a, <1>c DEF EventsTruthful, TypeOK
      <4> HIDE DEF After
      <4> QED BY <4>1, <2>4
    <3>3. handlerPc' = handlerPc /\ handling' = handling
      BY <1>2 DEF JobChanges
    <3> QED BY <3>1, <3>2, <3>3 DEF EventsTruthful, Truthful
  <2>6. Reflects(lastHook, state)' /\ Reflects(durableHook, disk)'
    <3>1. \A h \in HookType, s \in DemandType : Reflects(h, s) =>
            \A g \in Groups, j \in Jobs :
              /\ h[g][j] = "clear" => s[g][j] = Absent /\ job'[j] \in Left
              /\ h[g][j] = "queue" => job'[j] # "new"
              /\ s[g][j] # Absent => job'[j] # "new" /\ s[g][j] <= age[j]
              /\ CoveredByAudit(g, j) /\ readable'[j] /\ h[g][j] = "queue" /\ job'[j] = "queued"
                   /\ age[j] <= TTL => s[g][j] # Absent
      BY <1>2, <2>1 DEF Reflects
    <3>2. /\ age' = age /\ state' = state /\ disk' = disk
          /\ lastHook' = lastHook /\ durableHook' = durableHook
      BY <1>2 DEF JobChanges
    <3>3. \A g \in Groups, j \in Jobs : CoveredByAudit(g, j)' = CoveredByAudit(g, j)
      BY DEF CoveredByAudit, Unlimited, GroupMatchesRepo, LabelsMatch
    <3> QED BY <1>b, <1>c, <3>1, <3>2, <3>3 DEF Reflects
  <2>7. ListingSound'
    <3> SUFFICES ASSUME auditPc = "read", NEW j \in Jobs
                 PROVE  /\ j \in found => job'[j] # "new" /\ \A g \in Groups : lastHook[g][j] # "clear"
                        /\ /\ CoveredByAudit(auditGroup, j) /\ JobRepo[j] \notin auditRepos /\ readable'[j]
                           /\ lastHook[auditGroup][j] = "queue" /\ job'[j] = "queued"
                           => j \in found
      BY <1>2 DEF JobChanges, ListingSound, CoveredByAudit, Unlimited, GroupMatchesRepo, LabelsMatch
    <3>1. lastHook[auditGroup][j] = "queue" => job[j] # "new"
      BY <1>a, <1>c DEF Reflects, TypeOK
    <3> QED BY <1>2, <1>c, <2>1, <3>1 DEF ListingSound
  <2> QED BY <1>a, <2>5, <2>6, <2>7 DEF IInv
<1>i. ASSUME NEW i \in Jobs, JobQueued(i) \/ JobStarts(i) \/ JobCompletes(i) \/ JobCancelled(i)
      PROVE  \A j \in Jobs : readable'[j] => readable[j] \/ job[j] = "new"
  BY <1>i, <1>a DEF JobQueued, JobStarts, JobCompletes, JobCancelled, JobChanges, TypeOK
<1>3. CASE \E j \in Jobs : JobQueued(j) \/ JobStarts(j) \/ JobCompletes(j) \/ JobCancelled(j)
  BY <1>2, <1>i, <1>3 DEF JobQueued, JobStarts, JobCompletes, JobCancelled, JobStates, Events
<1>o. ASSUME NEW i \in Jobs, JobOvertaken(i) PROVE IInv'
  <2>1. /\ \A j \in Jobs : readable'[j] => readable[j]
        /\ UNCHANGED <<job, age, hooks, handlerVars, auditVars, trackerVars, hookHistory>>
    BY <1>o, <1>a DEF JobOvertaken, TypeOK
  <2>2. EventsTruthful'
    BY <1>c, <2>1 DEF EventsTruthful, Truthful
  <2>3. Reflects(lastHook, state)' /\ Reflects(durableHook, disk)'
    BY <1>c, <2>1 DEF Reflects, CoveredByAudit, Unlimited, GroupMatchesRepo, LabelsMatch
  <2>4. ListingSound'
    BY <1>c, <2>1 DEF ListingSound, CoveredByAudit, Unlimited, GroupMatchesRepo, LabelsMatch
  <2> QED BY <1>a, <2>2, <2>3, <2>4 DEF IInv
<1>4. CASE Tick
  <2>1. \A j \in Jobs : /\ age[j] \in Ages
                        /\ age'[j] = IF job[j] = "new" THEN 0 ELSE Older(age[j])
    BY <1>4, <1>a DEF Tick, TypeOK
  <2>2. ASSUME NEW hist \in HookType, NEW s \in DemandType, Reflects(hist, s),
               NEW g \in Groups, NEW j \in Jobs
        PROVE  /\ hist[g][j] = "clear" => AllOlder(s)[g][j] = Absent /\ job[j] \in Left
               /\ hist[g][j] = "queue" => job[j] # "new"
               /\ AllOlder(s)[g][j] # Absent => job[j] # "new" /\ AllOlder(s)[g][j] <= age'[j]
               /\ CoveredByAudit(g, j) /\ readable[j] /\ hist[g][j] = "queue" /\ job[j] = "queued"
                    /\ age'[j] <= TTL => AllOlder(s)[g][j] # Absent
    <3>1. AllOlder(s)[g][j] = Older(s[g][j]) /\ s[g][j] \in Ages \cup {Absent}
      BY DEF AllOlder, DemandType
    <3>2. /\ hist[g][j] = "clear" => s[g][j] = Absent /\ job[j] \in Left
          /\ hist[g][j] = "queue" => job[j] # "new"
          /\ s[g][j] # Absent => job[j] # "new" /\ s[g][j] <= age[j]
          /\ CoveredByAudit(g, j) /\ readable[j] /\ hist[g][j] = "queue" /\ job[j] = "queued"
               /\ age[j] <= TTL => s[g][j] # Absent
      BY <2>2 DEF Reflects
    <3> QED BY <2>1, <3>1, <3>2, SizeAssumption DEF Older, Ages, Absent
  <2>3. job' = job /\ readable' = readable /\ lastHook' = lastHook /\ durableHook' = durableHook
        /\ state' = AllOlder(state) /\ disk' = AllOlder(disk)
    BY <1>4 DEF Tick
  <2>4. Reflects(lastHook, state)'
    <3>1. \A g \in Groups, j \in Jobs :
            /\ lastHook[g][j] = "clear" => AllOlder(state)[g][j] = Absent /\ job[j] \in Left
            /\ lastHook[g][j] = "queue" => job[j] # "new"
            /\ AllOlder(state)[g][j] # Absent => job[j] # "new" /\ AllOlder(state)[g][j] <= age'[j]
            /\ CoveredByAudit(g, j) /\ readable[j] /\ lastHook[g][j] = "queue" /\ job[j] = "queued"
                 /\ age'[j] <= TTL => AllOlder(state)[g][j] # Absent
      BY <1>b, <1>c, <2>2
    <3> QED BY <2>3, <3>1 DEF Reflects, CoveredByAudit, Unlimited, GroupMatchesRepo, LabelsMatch
  <2>5. Reflects(durableHook, disk)'
    <3>1. \A g \in Groups, j \in Jobs :
            /\ durableHook[g][j] = "clear" => AllOlder(disk)[g][j] = Absent /\ job[j] \in Left
            /\ durableHook[g][j] = "queue" => job[j] # "new"
            /\ AllOlder(disk)[g][j] # Absent => job[j] # "new" /\ AllOlder(disk)[g][j] <= age'[j]
            /\ CoveredByAudit(g, j) /\ readable[j] /\ durableHook[g][j] = "queue" /\ job[j] = "queued"
                 /\ age'[j] <= TTL => AllOlder(disk)[g][j] # Absent
      BY <1>b, <1>c, <2>2
    <3> QED BY <2>3, <3>1 DEF Reflects, CoveredByAudit, Unlimited, GroupMatchesRepo, LabelsMatch
  <2>6. EventsTruthful' /\ ListingSound'
    BY <1>4, <1>c DEF Tick, EventsTruthful, Truthful, ListingSound, CoveredByAudit, Unlimited,
                      GroupMatchesRepo, LabelsMatch
  <2> QED BY <1>a, <2>4, <2>5, <2>6 DEF IInv
<1>d. ASSUME UNCHANGED <<job, readable, hooks, handlerVars>> PROVE EventsTruthful'
  BY <1>d, <1>c DEF EventsTruthful, Truthful
<1>e. ASSUME UNCHANGED <<job, readable, lastHook, auditVars>> PROVE ListingSound'
  BY <1>e, <1>c DEF ListingSound, CoveredByAudit, Unlimited, GroupMatchesRepo, LabelsMatch
<1>f. ASSUME UNCHANGED <<job, age, readable, trackerVars, hookHistory>>
      PROVE  Reflects(lastHook, state)' /\ Reflects(durableHook, disk)'
  BY <1>f, <1>c, ReflectsUnchanged
<1>g. ASSUME auditPc' # "read" PROVE ListingSound'
  BY <1>g DEF ListingSound
<1>h. ASSUME NEW rest, AuditNext(rest) PROVE auditPc' # "read"
  BY <1>h DEF AuditNext
<1>5. ASSUME NEW m \in hooks, HookLost(m) PROVE IInv'
  <2>1. EventsTruthful'
    BY <1>5, <1>c DEF HookLost, EventsTruthful, Truthful
  <2> QED BY <1>5, <1>a, <1>e, <1>f, <2>1 DEF HookLost, IInv
<1>6. ASSUME NEW h \in Handlers, NEW m \in hooks, Receive(h, m) PROVE IInv'
  <2>1. \A k \in hooks' : Truthful(k)
    BY <1>6, <1>c DEF Receive, EventsTruthful
  <2>2. \A k \in Handlers : handlerPc'[k] # "idle" => Truthful(handling'[k])
    <3> TAKE k \in Handlers
    <3>1. CASE k = h
      BY <1>6, <1>a, <1>c, <3>1 DEF Receive, EventsTruthful, TypeOK
    <3>2. CASE k # h
      BY <1>6, <1>a, <1>c, <3>2 DEF Receive, EventsTruthful, TypeOK
    <3> QED BY <3>1, <3>2
  <2>3. EventsTruthful'
    BY <1>6, <2>1, <2>2 DEF Receive, EventsTruthful, Truthful
  <2> QED BY <1>6, <1>a, <1>e, <1>f, <2>3 DEF Receive, IInv
<1>7. ASSUME NEW h \in Handlers, NEW g \in Groups, ApplyDemand(h, g) PROVE IInv'
  <2> DEFINE j == handling[h][2]
             queues == handling[h][1] = "queued"
             was == Pruned(state)
             hook == IF queues THEN "queue" ELSE "clear"
             entry == IF queues THEN 0 ELSE Absent
             next == Put(was, g, j, entry)
  <2>1. j \in Jobs /\ handling[h][1] \in Events /\ Truthful(handling[h])
    BY <1>7, <1>a, <1>c DEF ApplyDemand, EventsTruthful, TypeOK
  <2>2. (queues => job[j] # "new") /\ (~queues => job[j] \in Left)
    BY <2>1 DEF Truthful, Events, Left
  <2>3. lastHook' = Put(lastHook, g, j, hook) /\ Persist(next)
    BY <1>7 DEF ApplyDemand
  <2>4. hook \in Applied /\ entry \in Ages \cup {Absent}
    BY SizeAssumption DEF Applied, Ages
  <2>5. was \in DemandType /\ Reflects(lastHook, was)
    BY <1>a, <1>b, <1>c, PrunedFacts, PruneReflects
  <2>6. queues => hook = "queue" /\ entry = 0
    OBVIOUS
  <2>7. ~queues => hook = "clear" /\ entry = Absent
    OBVIOUS
  <2>8. queues \in BOOLEAN
    OBVIOUS
  <2> HIDE DEF j, queues, was, hook, entry
  <2>9. /\ next \in DemandType
        /\ next[g][j] = entry
        /\ \A k \in Groups, i \in Jobs : (k # g \/ i # j) => next[k][i] = was[k][i]
    BY <2>1, <2>4, <2>5, PutDemand
  <2>10. /\ lastHook'[g][j] = hook
         /\ \A k \in Groups, i \in Jobs : (k # g \/ i # j) => lastHook'[k][i] = lastHook[k][i]
    BY <1>b, <2>1, <2>3, <2>4, PutHook DEF HookType
  <2> HIDE DEF next
  <2>11. Reflects(lastHook', next)
    <3> SUFFICES ASSUME NEW k \in Groups, NEW i \in Jobs
                 PROVE  /\ lastHook'[k][i] = "clear" => next[k][i] = Absent /\ job[i] \in Left
                        /\ lastHook'[k][i] = "queue" => job[i] # "new"
                        /\ next[k][i] # Absent => job[i] # "new" /\ next[k][i] <= age[i]
                        /\ CoveredByAudit(k, i) /\ readable[i] /\ lastHook'[k][i] = "queue" /\ job[i] = "queued"
                             /\ age[i] <= TTL => next[k][i] # Absent
      BY DEF Reflects
    <3>1. CASE k = g /\ i = j
      <4>1. age[j] \in Ages
        BY <1>a, <2>1 DEF TypeOK
      <4>2. CASE queues
        BY <3>1, <4>1, <4>2, <2>2, <2>6, <2>9, <2>10, SizeAssumption DEF Ages, Absent
      <4>3. CASE ~queues
        BY <3>1, <4>3, <2>2, <2>7, <2>9, <2>10
      <4> QED BY <4>2, <4>3
    <3>2. CASE k # g \/ i # j
      <4>1. next[k][i] = was[k][i] /\ lastHook'[k][i] = lastHook[k][i]
        BY <3>2, <2>9, <2>10
      <4> QED BY <4>1, <2>5 DEF Reflects
    <3> QED BY <3>1, <3>2
  <2>12. Reflects(lastHook', state') /\ Reflects(durableHook', disk')
    BY <1>c, <2>3, <2>9, <2>11, PersistReflects
  <2>13. Reflects(lastHook, state)' /\ Reflects(durableHook, disk)'
    BY <1>7, <2>12, ReflectsUnchanged DEF ApplyDemand
  <2>14. EventsTruthful'
    <3>1. \A k \in Handlers : handlerPc'[k] # "idle" => handlerPc[k] # "idle"
      BY <1>7, <1>a DEF ApplyDemand, TypeOK
    <3> QED BY <1>7, <1>c, <3>1 DEF ApplyDemand, EventsTruthful, Truthful
  <2>15. ListingSound'
    BY <1>7, <1>g DEF ApplyDemand, DemandMuFree
  <2> QED BY <1>a, <2>13, <2>14, <2>15 DEF IInv
<1>8. ASSUME NEW h \in Handlers, NEW g \in Groups, ScheduleTrigger(h, g) PROVE IInv'
  <2>1. \A k \in Handlers : handlerPc'[k] # "idle" => handlerPc[k] # "idle" /\ handling'[k] = handling[k]
    BY <1>8, <1>a DEF ScheduleTrigger, TypeOK
  <2>2. EventsTruthful'
    BY <1>8, <1>c, <2>1 DEF ScheduleTrigger, EventsTruthful, Truthful
  <2> QED BY <1>8, <1>a, <1>e, <1>f, <2>2 DEF ScheduleTrigger, IInv
<1>9. CASE AuditTick
  BY <1>9, <1>a, <1>d, <1>f, <1>g DEF AuditTick, IInv
<1>10. ASSUME NEW g \in Groups, AuditLock(g) PROVE IInv'
  <2>1. CASE auditPc' = "read" /\ auditGroup' = g /\ auditRepos' = WorkflowRepoBatch(g) /\ found' = {}
    <3>1. ASSUME NEW j \in Jobs, CoveredByAudit(g, j) PROVE JobRepo[j] \in WorkflowRepoBatch(g)
      BY <3>1 DEF CoveredByAudit, WorkflowRepoBatch, GroupMatchesRepo
    <3>2. ListingSound'
      BY <2>1, <3>1 DEF ListingSound, CoveredByAudit, Unlimited, GroupMatchesRepo, LabelsMatch
    <3> QED BY <1>10, <1>a, <1>d, <1>f, <3>2 DEF AuditLock, IInv
  <2>2. CASE AuditNext(auditTodo \ {g})
    BY <1>10, <1>a, <1>d, <1>f, <1>g, <1>h, <2>2 DEF AuditLock, IInv
  <2> QED BY <1>10, <2>1, <2>2 DEF AuditLock
<1>11. ASSUME NEW r \in Repos, AuditListRepo(r) PROVE IInv'
  <2>1. CASE found' = found \cup Listed(r)
             /\ auditRepos' = auditRepos \ {r} /\ UNCHANGED <<auditPc, auditTodo, auditGroup, faults>>
    <3>1. \A j \in Jobs, g \in Groups : job[j] = "queued" => lastHook[g][j] # "clear"
      BY <1>c DEF Reflects, Left
    <3>2. ListingSound'
      BY <1>11, <1>c, <2>1, <3>1 DEF AuditListRepo, Listed, ListingSound, CoveredByAudit, Unlimited,
                                     GroupMatchesRepo, LabelsMatch
    <3> QED BY <1>11, <1>a, <1>d, <1>f, <3>2 DEF AuditListRepo, IInv
  <2>2. CASE AuditNext(auditTodo \ {auditGroup})
    BY <1>11, <1>a, <1>d, <1>f, <1>g, <1>h, <2>2 DEF AuditListRepo, IInv
  <2> QED BY <1>11, <2>1, <2>2 DEF AuditListRepo
<1>12. CASE AuditReplace
  <2>1. Persist(Replaced) /\ lastHook' = lastHook /\ auditPc = "read" /\ auditRepos = {}
        /\ UNCHANGED <<job, age, readable, hooks, handlerVars>>
    BY <1>12 DEF AuditReplace, Replaced
  <2>2. Reflects(lastHook, Pruned(state))
    BY <1>a, <1>b, <1>c, PruneReflects
  <2>3. Reflects(lastHook, Replaced)
    <3> SUFFICES ASSUME NEW g \in Groups, NEW j \in Jobs
                 PROVE  /\ lastHook[g][j] = "clear" => Replaced[g][j] = Absent /\ job[j] \in Left
                        /\ lastHook[g][j] = "queue" => job[j] # "new"
                        /\ Replaced[g][j] # Absent => job[j] # "new" /\ Replaced[g][j] <= age[j]
                        /\ CoveredByAudit(g, j) /\ readable[j] /\ lastHook[g][j] = "queue" /\ job[j] = "queued"
                             /\ age[j] <= TTL => Replaced[g][j] # Absent
      BY DEF Reflects
    <3>1. CASE g = auditGroup
      <4>1. Replaced[g][j] = IF j \in Matched THEN age[j] ELSE Absent
        BY <1>a, <3>1, ReplacedFacts
      <4>2. j \in Matched => job[j] # "new" /\ lastHook[g][j] # "clear"
        BY <1>c, <2>1 DEF Matched, ListingSound
      <4>3. CoveredByAudit(g, j) /\ readable[j] /\ lastHook[g][j] = "queue" /\ job[j] = "queued" => j \in Matched
        BY <1>c, <2>1, <3>1 DEF Matched, ListingSound, CoveredByAudit
      <4>4. /\ lastHook[g][j] = "clear" => job[j] \in Left
            /\ lastHook[g][j] = "queue" => job[j] # "new"
        BY <2>2 DEF Reflects
      <4>5. age[j] \in Ages
        BY <1>a DEF TypeOK
      <4> QED BY <4>1, <4>2, <4>3, <4>4, <4>5, SizeAssumption DEF Ages, Absent
    <3>2. CASE g # auditGroup
      <4>1. Replaced[g][j] = Pruned(state)[g][j]
        BY <1>a, <3>2, ReplacedFacts
      <4> QED BY <4>1, <2>2 DEF Reflects
    <3> QED BY <3>1, <3>2
  <2>4. Reflects(lastHook', state') /\ Reflects(durableHook', disk')
    BY <1>a, <1>c, <2>1, <2>3, ReplacedFacts, PersistReflects
  <2>5. Reflects(lastHook, state)' /\ Reflects(durableHook, disk)'
    BY <2>1, <2>4, ReflectsUnchanged
  <2>6. auditPc' # "read"
    BY <1>12, <1>h DEF AuditReplace
  <2> QED BY <1>a, <1>d, <1>g, <2>1, <2>5, <2>6 DEF IInv
<1>13. CASE AuditTrigger
  BY <1>13, <1>a, <1>d, <1>f, <1>g, <1>h DEF AuditTrigger, IInv
<1>14. ASSUME NEW g \in Groups, MetricsBatch(g) PROVE IInv'
  BY <1>14, <1>a, <1>d, <1>e, <1>f DEF MetricsBatch, IInv
<1>15. ASSUME NEW g \in Groups, PassReads(g) PROVE IInv'
  <2>1. Reflects(lastHook, Pruned(state))
    BY <1>a, <1>b, <1>c, PruneReflects
  <2>2. Reflects(lastHook', state') /\ Reflects(durableHook', disk')
    BY <1>15, <1>c, <2>1 DEF PassReads
  <2>3. Reflects(lastHook, state)' /\ Reflects(durableHook, disk)'
    BY <1>15, <2>2, ReflectsUnchanged DEF PassReads
  <2> QED BY <1>15, <1>a, <1>d, <1>e, <2>3 DEF PassReads, IInv
<1>16. CASE CrashRestart
  <2>1. Reflects(durableHook, Pruned(disk))
    BY <1>a, <1>b, <1>c, PruneReflects
  <2>2. Reflects(lastHook', state') /\ Reflects(durableHook', disk')
    BY <1>16, <1>c, <2>1 DEF CrashRestart, Loaded
  <2>3. Reflects(lastHook, state)' /\ Reflects(durableHook, disk)'
    BY <1>16, <2>2, ReflectsUnchanged DEF CrashRestart
  <2>4. EventsTruthful'
    BY <1>16, <1>c DEF CrashRestart, EventsTruthful, Truthful
  <2> QED BY <1>16, <1>a, <1>g, <2>3, <2>4 DEF CrashRestart, IInv
<1> QED BY <1>1, <1>3, <1>o, <1>4, <1>5, <1>6, <1>7, <1>8, <1>9, <1>10, <1>11, <1>12, <1>13,
          <1>14, <1>15, <1>16 DEF Next, GitHubStep, HandlerStep, AuditStep

(***************************************************************************)
(* Theorems                                                                *)
(***************************************************************************)

(* Once in_progress or completed was the last event applied for a job, no  *)
(* audit and no restart makes the job demand again.                        *)
THEOREM ClearedJobsStayCleared == Spec => []ClearedStaysCleared
<1>1. IInv => ClearedStaysCleared
  BY DEF IInv, Reflects, ClearedStaysCleared, Tracked
<1> QED BY <1>1, IInvInit, IInvStep, PTL DEF Spec

(* A job GitHub holds queued, whose webhook was applied and whose TTL has  *)
(* not passed, stays demand through audits that look at all repositories,  *)
(* failed audits and restarts, as long as GitHub lists it where audits     *)
(* look.                                                                   *)
THEOREM QueuedJobsAreKept == Spec => []QueuedJobKept
<1>1. IInv => QueuedJobKept
  BY DEF IInv, Reflects, QueuedJobKept, Tracked
<1> QED BY <1>1, IInvInit, IInvStep, PTL DEF Spec

(***************************************************************************)
(* New demand wakes the reconciler                                         *)
(***************************************************************************)

(* A trigger for g is pending, or someone is about to send it.             *)
Announced(g) ==
  \/ g \in wake
  \/ auditPc = "trigger" /\ auditGroup = g
  \/ \E h \in Handlers : handlerPc[h] = "schedule" /\ IsFirst(g, handlerTodo[h])

(* A step that takes no announcement back, and adds no demand.             *)
LEMMA AnnouncementsKept ==
  ASSUME NewDemandWakes, wake \subseteq wake', UNCHANGED grown,
         auditPc = "trigger" => UNCHANGED <<auditPc, auditGroup>>,
         \A h \in Handlers : handlerPc[h] = "schedule" =>
           handlerPc'[h] = "schedule" /\ handlerTodo'[h] = handlerTodo[h]
  PROVE  NewDemandWakes'
<1> SUFFICES ASSUME NEW g \in Groups, grown[g] PROVE Announced(g)'
  BY DEF NewDemandWakes, Announced
<1>1. Announced(g)
  BY DEF NewDemandWakes, Announced
<1>2. CASE g \in wake
  BY <1>2 DEF Announced
<1>3. CASE auditPc = "trigger" /\ auditGroup = g
  BY <1>3 DEF Announced
<1>4. ASSUME NEW h \in Handlers, handlerPc[h] = "schedule", IsFirst(g, handlerTodo[h])
      PROVE  Announced(g)'
  BY <1>4 DEF Announced, IsFirst
<1> QED BY <1>1, <1>2, <1>3, <1>4 DEF Announced

LEMMA AnnouncementsStep == TypeOK /\ NewDemandWakes /\ [Next]_vars => NewDemandWakes'
<1> SUFFICES ASSUME TypeOK, NewDemandWakes, [Next]_vars PROVE NewDemandWakes'
  OBVIOUS
<1> USE DEF TypeOK
<1>1. CASE UNCHANGED vars
  BY <1>1, AnnouncementsKept DEF vars, handlerVars, auditVars
<1>2. CASE GitHubStep
  BY <1>2, AnnouncementsKept DEF GitHubStep, JobQueued, JobStarts, JobCompletes, JobCancelled,
     JobOvertaken, JobChanges, HookLost, handlerVars, auditVars
<1>3. ASSUME NEW h \in Handlers, NEW m \in hooks, Receive(h, m) PROVE NewDemandWakes'
  <2>1. \A k \in Handlers : handlerPc[k] = "schedule" =>
          handlerPc'[k] = "schedule" /\ handlerTodo'[k] = handlerTodo[k]
    BY <1>3 DEF Receive
  <2> QED BY <1>3, <2>1, AnnouncementsKept DEF Receive, auditVars
<1>4. ASSUME NEW h \in Handlers, NEW g \in Groups, ApplyDemand(h, g) PROVE NewDemandWakes'
  <2>1. /\ wake' = wake /\ auditPc' = auditPc /\ auditGroup' = auditGroup
        /\ handlerTodo' = handlerTodo
        /\ handlerPc' = [handlerPc EXCEPT ![h] = "schedule"]
        /\ IsFirst(g, handlerTodo[h])
        /\ grown' \in {grown, [grown EXCEPT ![g] = TRUE]}
    BY <1>4 DEF ApplyDemand, auditVars
  <2> SUFFICES ASSUME NEW k \in Groups, grown'[k] PROVE Announced(k)'
    BY DEF NewDemandWakes, Announced
  <2>2. CASE k = g
    BY <2>1, <2>2 DEF Announced, IsFirst
  <2>3. CASE k # g
    <3>1. grown[k]
      BY <2>1, <2>3
    <3>2. Announced(k)
      BY <3>1 DEF NewDemandWakes, Announced
    <3> QED BY <2>1, <3>2 DEF Announced, IsFirst
  <2> QED BY <2>2, <2>3
<1>5. ASSUME NEW h \in Handlers, NEW g \in Groups, ScheduleTrigger(h, g) PROVE NewDemandWakes'
  <2>1. /\ wake' = wake \cup {g} /\ grown' = grown
        /\ auditPc' = auditPc /\ auditGroup' = auditGroup
        /\ IsFirst(g, handlerTodo[h])
        /\ \A k \in Handlers : k # h =>
             handlerPc'[k] = handlerPc[k] /\ handlerTodo'[k] = handlerTodo[k]
    BY <1>5 DEF ScheduleTrigger, auditVars
  <2> SUFFICES ASSUME NEW k \in Groups, k # g, grown[k] PROVE Announced(k)'
    BY <2>1 DEF NewDemandWakes, Announced
  <2>2. Announced(k)
    BY DEF NewDemandWakes, Announced
  <2>3. ~IsFirst(k, handlerTodo[h])
    BY <2>1 DEF IsFirst, Groups
  <2> QED BY <2>1, <2>2, <2>3 DEF Announced, IsFirst
<1>6. CASE AuditTick
  BY <1>6, AnnouncementsKept DEF AuditTick, handlerVars
<1>7. ASSUME NEW g \in Groups, AuditLock(g) PROVE NewDemandWakes'
  BY <1>7, AnnouncementsKept DEF AuditLock, handlerVars
<1>8. ASSUME NEW r \in Repos, AuditListRepo(r) PROVE NewDemandWakes'
  BY <1>8, AnnouncementsKept DEF AuditListRepo, handlerVars
<1>9. CASE AuditReplace
  <2>1. /\ wake' = wake /\ handlerPc' = handlerPc /\ handlerTodo' = handlerTodo
        /\ auditPc = "read"
        /\ grown' = [grown EXCEPT ![auditGroup] = grown[auditGroup]
                       \/ \E j \in Matched : Pruned(state)[auditGroup][j] = Absent]
        /\ Matched # {} => auditPc' = "trigger" /\ auditGroup' = auditGroup
    BY <1>9 DEF AuditReplace, handlerVars
  <2> SUFFICES ASSUME NEW k \in Groups, grown'[k] PROVE Announced(k)'
    BY DEF NewDemandWakes, Announced
  <2>2. CASE grown[k]
    <3>1. Announced(k)
      BY <2>2 DEF NewDemandWakes, Announced
    <3> QED BY <2>1, <3>1 DEF Announced, IsFirst
  <2>3. CASE ~grown[k]
    <3>1. k = auditGroup /\ Matched # {}
      BY <2>1, <2>3
    <3> QED BY <2>1, <3>1 DEF Announced
  <2> QED BY <2>2, <2>3
<1>10. CASE AuditTrigger
  <2>1. /\ wake' = wake \cup {auditGroup} /\ grown' = grown
        /\ handlerPc' = handlerPc /\ handlerTodo' = handlerTodo
    BY <1>10 DEF AuditTrigger, handlerVars
  <2> SUFFICES ASSUME NEW k \in Groups, grown[k] PROVE Announced(k)'
    BY <2>1 DEF NewDemandWakes, Announced
  <2>2. Announced(k)
    BY DEF NewDemandWakes, Announced
  <2> QED BY <2>1, <2>2 DEF Announced, IsFirst
<1>11. ASSUME NEW g \in Groups, MetricsBatch(g) PROVE NewDemandWakes'
  BY <1>11, AnnouncementsKept DEF MetricsBatch, handlerVars, auditVars
<1>12. ASSUME NEW g \in Groups, PassReads(g) PROVE NewDemandWakes'
  <2>1. /\ wake \ {g} \subseteq wake' /\ grown' = [grown EXCEPT ![g] = FALSE]
        /\ auditPc' = auditPc /\ auditGroup' = auditGroup
        /\ handlerPc' = handlerPc /\ handlerTodo' = handlerTodo
    BY <1>12 DEF PassReads, handlerVars, auditVars
  <2> SUFFICES ASSUME NEW k \in Groups, grown'[k] PROVE Announced(k)'
    BY DEF NewDemandWakes, Announced
  <2>2. k # g /\ grown[k]
    BY <2>1
  <2>3. Announced(k)
    BY <2>2 DEF NewDemandWakes, Announced
  <2> QED BY <2>1, <2>2, <2>3 DEF Announced, IsFirst
<1>13. CASE CrashRestart
  BY <1>13 DEF CrashRestart, NewDemandWakes
<1>14. CASE Tick
  BY <1>14, AnnouncementsKept DEF Tick, handlerVars, auditVars
<1> QED
  BY <1>1, <1>2, <1>3, <1>4, <1>5, <1>6, <1>7, <1>8, <1>9, <1>10, <1>11, <1>12, <1>13, <1>14
  DEF Next, HandlerStep, AuditStep

(* A group never gains a job without a trigger on its way to a pass: not   *)
(* after a failed write, not when an audit, a handler for another group    *)
(* and a pass that reads the demand come in between.                       *)
THEOREM NewDemandIsAnnounced == Spec => []NewDemandWakes
<1>1. Init => NewDemandWakes
  BY DEF Init, NewDemandWakes
<1> QED BY <1>1, TypeInit, TypeStep, AnnouncementsStep, PTL DEF Spec

(***************************************************************************)
(* Nothing renews a phantom                                                *)
(***************************************************************************)

(* GitHub no longer holds j queued, and nothing on its way says it does.   *)
Settled(j) ==
  /\ job[j] \in Left
  /\ <<"queued", j>> \notin hooks
  /\ \A h \in Handlers : handling[h] # <<"queued", j>>
  /\ j \notin found

(* The group's entries for j, in memory and on disk.                       *)
Entries(g, j) == {state[g][j], disk[g][j]} \ {Absent}

PhantomsOnlyAge ==
  [][\A j \in Jobs : Settled(j) =>
       /\ Settled(j)'
       /\ \A g \in Groups : \A v \in Entries(g, j)' : \E u \in Entries(g, j) : u <= v]_vars

(* Where a value comes from when it is no younger than an entry was.       *)
From(v, g, j) == v = Absent \/ \E u \in Entries(g, j) : u <= v

LEMMA FromEntries ==
  ASSUME TypeOK, NEW g \in Groups, NEW j \in Jobs
  PROVE  /\ \A v \in {Absent, state[g][j], disk[g][j]} : From(v, g, j)
         /\ From(Pruned(state)[g][j], g, j) /\ From(Pruned(disk)[g][j], g, j)
         /\ From(Older(state[g][j]), g, j) /\ From(Older(disk[g][j]), g, j)
<1>1. state[g][j] \in Ages \cup {Absent} /\ disk[g][j] \in Ages \cup {Absent}
  BY DEF TypeOK
<1>2. \A a \in Ages \cup {Absent} : a \in Int /\ a <= a /\ (a # Absent => a <= Older(a) /\ Older(a) # Absent)
  BY SizeAssumption DEF Ages, Absent, Older
<1>3. \A v \in {Absent, state[g][j], disk[g][j]} : From(v, g, j)
  BY <1>1, <1>2 DEF From, Entries
<1>4. Pruned(state)[g][j] \in {state[g][j], Absent} /\ Pruned(disk)[g][j] \in {disk[g][j], Absent}
  BY PrunedFacts DEF TypeOK, DemandType
<1>5. Older(Absent) = Absent
  BY DEF Older
<1>6. From(Older(state[g][j]), g, j) /\ From(Older(disk[g][j]), g, j)
  BY <1>1, <1>2, <1>5 DEF From, Entries
<1> QED BY <1>3, <1>4, <1>6

LEMMA PersistFrom ==
  ASSUME TypeOK, NEW g \in Groups, NEW j \in Jobs, NEW next, Persist(next), From(next[g][j], g, j)
  PROVE  From(state'[g][j], g, j) /\ From(disk'[g][j], g, j)
BY FromEntries DEF Persist

LEMMA SettledStays ==
  ASSUME TypeOK, [Next]_vars, NEW j \in Jobs, Settled(j)
  PROVE  Settled(j)'
<1> USE DEF github, handlerVars, auditVars
<1>1. CASE UNCHANGED <<job, hooks, handling, found>>
  BY <1>1 DEF Settled
<1>2. ASSUME NEW i \in Jobs, NEW from, NEW to, JobChanges(i, from, to), from \notin Left
      PROVE  Settled(j)'
  <2>1. i # j
    BY <1>2 DEF JobChanges, Settled
  <2>2. job'[j] = job[j]
    BY <1>2, <2>1 DEF JobChanges, TypeOK
  <2>3. <<"queued", j>> # <<to, i>>
    BY <2>1
  <2>4. hooks' = hooks \cup {<<to, i>>} /\ UNCHANGED <<handling, found>>
    BY <1>2 DEF JobChanges
  <2> QED BY <2>2, <2>3, <2>4 DEF Settled
<1>3. ASSUME NEW i \in Jobs, JobQueued(i) \/ JobStarts(i) \/ JobCancelled(i) PROVE Settled(j)'
  BY <1>2, <1>3 DEF JobQueued, JobStarts, JobCancelled, Left
<1>4. ASSUME NEW i \in Jobs, JobCompletes(i) PROVE Settled(j)'
  <2>1. /\ job' = [job EXCEPT ![i] = "completed"]
        /\ hooks' = hooks \cup {<<"completed", i>>} /\ UNCHANGED <<handling, found>>
    BY <1>4 DEF JobCompletes, JobChanges
  <2>2. job'[j] \in {job[j], "completed"}
    BY <2>1 DEF TypeOK
  <2> QED BY <2>1, <2>2 DEF Settled, Left
<1>o. ASSUME NEW i \in Jobs, JobOvertaken(i) PROVE Settled(j)'
  BY <1>1, <1>o DEF JobOvertaken
<1>5. ASSUME NEW m \in hooks, HookLost(m) PROVE Settled(j)'
  BY <1>5 DEF HookLost, Settled
<1>6. ASSUME NEW h \in Handlers, NEW m \in hooks, Receive(h, m) PROVE Settled(j)'
  <2>1. m # <<"queued", j>> /\ << >> # <<"queued", j>>
    BY DEF Settled
  <2>2. /\ hooks' \subseteq hooks /\ UNCHANGED <<job, found>>
        /\ \/ handling' = [handling EXCEPT ![h] = m]
           \/ handling' = [handling EXCEPT ![h] = << >>]
    BY <1>6 DEF Receive
  <2>3. \A k \in Handlers : handling'[k] \in {handling[k], m, << >>}
    BY <2>2 DEF TypeOK
  <2> QED BY <2>1, <2>2, <2>3 DEF Settled
<1>7. ASSUME NEW h \in Handlers, NEW g \in Groups, ApplyDemand(h, g) PROVE Settled(j)'
  BY <1>1, <1>7 DEF ApplyDemand
<1>8. ASSUME NEW h \in Handlers, NEW g \in Groups, ScheduleTrigger(h, g) PROVE Settled(j)'
  <2>1. << >> # <<"queued", j>>
    OBVIOUS
  <2>2. /\ UNCHANGED <<job, hooks, found>>
        /\ \/ handling' = [handling EXCEPT ![h] = handling[h]]
           \/ handling' = [handling EXCEPT ![h] = << >>]
    BY <1>8 DEF ScheduleTrigger
  <2>3. \A k \in Handlers : handling'[k] \in {handling[k], << >>}
    BY <2>2 DEF TypeOK
  <2> QED BY <2>1, <2>2, <2>3 DEF Settled
<1>9. ASSUME UNCHANGED <<job, hooks, handling>>, j \notin found' PROVE Settled(j)'
  BY <1>9 DEF Settled
<1>10. ASSUME NEW r \in Repos, AuditListRepo(r) PROVE Settled(j)'
  <2>1. j \notin found /\ job[j] # "queued"
    BY DEF Settled, Left
  <2> QED BY <1>9, <1>10, <2>1 DEF AuditListRepo, Listed, AuditNext
<1>11. CASE AuditTick \/ AuditReplace \/ AuditTrigger \/ \E g \in Groups : AuditLock(g)
  <2>1. j \notin found
    BY DEF Settled
  <2> QED BY <1>9, <1>11, <2>1 DEF AuditTick, AuditReplace, AuditTrigger, AuditLock, AuditNext
<1>12. CASE CrashRestart
  <2>1. /\ UNCHANGED <<job, hooks>> /\ found' = {} /\ handling' = [h \in Handlers |-> << >>]
    BY <1>12 DEF CrashRestart
  <2>2. << >> # <<"queued", j>>
    OBVIOUS
  <2> QED BY <2>1, <2>2 DEF Settled
<1>13. CASE Tick \/ (\E g \in Groups : MetricsBatch(g) \/ PassReads(g)) \/ UNCHANGED vars
  BY <1>1, <1>13 DEF Tick, MetricsBatch, PassReads, vars
<1> QED BY <1>3, <1>4, <1>o, <1>5, <1>6, <1>7, <1>8, <1>10, <1>11, <1>12, <1>13
        DEF Next, GitHubStep, HandlerStep, AuditStep

LEMMA PhantomsAge ==
  ASSUME TypeOK, [Next]_vars, NEW j \in Jobs, Settled(j), NEW g \in Groups
  PROVE  From(state'[g][j], g, j) /\ From(disk'[g][j], g, j)
<1> USE DEF github, handlerVars, auditVars, trackerVars
<1>1. CASE UNCHANGED trackerVars
  BY <1>1, FromEntries
<1>2. ASSUME NEW h \in Handlers, NEW k \in Groups, ApplyDemand(h, k)
      PROVE  From(state'[g][j], g, j) /\ From(disk'[g][j], g, j)
  <2> DEFINE i == handling[h][2]
             v == IF handling[h][1] = "queued" THEN 0 ELSE Absent
             next == Put(Pruned(state), k, i, v)
  <2>1. Persist(next) /\ handlerPc[h] = "apply"
    BY <1>2 DEF ApplyDemand
  <2>2. handling[h] \in Events \X Jobs
    BY <2>1 DEF TypeOK
  <2>3. i \in Jobs /\ v \in Ages \cup {Absent} /\ (i = j => v = Absent)
    <3>1. handling[h] = <<handling[h][1], handling[h][2]>> /\ i \in Jobs
      BY <2>2
    <3>2. i = j => handling[h][1] # "queued"
      BY <3>1 DEF Settled
    <3> QED BY <3>1, <3>2, SizeAssumption DEF Ages
  <2>4. Pruned(state) \in DemandType
    BY PrunedFacts DEF TypeOK, DemandType
  <2> HIDE DEF i, v
  <2>5. next[g][j] \in {Absent, Pruned(state)[g][j]}
    BY <2>3, <2>4, PutDemand
  <2> HIDE DEF next
  <2>6. From(next[g][j], g, j)
    BY <2>5, FromEntries
  <2> QED BY <2>1, <2>6, PersistFrom
<1>3. CASE AuditReplace
  <2>1. Persist(Replaced)
    BY <1>3 DEF AuditReplace, Replaced
  <2>2. j \notin Matched
    BY DEF Settled, Matched
  <2>3. Replaced[g][j] \in {Absent, Pruned(state)[g][j]}
    BY <2>2, ReplacedFacts
  <2>4. From(Replaced[g][j], g, j)
    BY <2>3, FromEntries
  <2> QED BY <2>1, <2>4, PersistFrom
<1>4. ASSUME NEW k \in Groups, PassReads(k)
      PROVE  From(state'[g][j], g, j) /\ From(disk'[g][j], g, j)
  BY <1>4, FromEntries DEF PassReads
<1>5. CASE CrashRestart
  BY <1>5, FromEntries DEF CrashRestart, Loaded
<1>6. CASE Tick
  <2>1. state'[g][j] = Older(state[g][j]) /\ disk'[g][j] = Older(disk[g][j])
    BY <1>6 DEF Tick, AllOlder
  <2> QED BY <2>1, FromEntries
<1>7. CASE GitHubStep
  BY <1>1, <1>7 DEF GitHubStep, JobQueued, JobStarts, JobCompletes, JobCancelled,
     JobOvertaken, JobChanges, HookLost
<1>8. ASSUME NEW h \in Handlers, NEW m, NEW k \in Groups, Receive(h, m) \/ ScheduleTrigger(h, k)
      PROVE  From(state'[g][j], g, j) /\ From(disk'[g][j], g, j)
  BY <1>1, <1>8 DEF Receive, ScheduleTrigger
<1>9. ASSUME NEW k \in Groups, NEW r \in Repos,
             AuditTick \/ AuditTrigger \/ AuditLock(k) \/ AuditListRepo(r) \/ MetricsBatch(k)
      PROVE  From(state'[g][j], g, j) /\ From(disk'[g][j], g, j)
  BY <1>1, <1>9 DEF AuditTick, AuditTrigger, AuditLock, AuditListRepo, MetricsBatch
<1>10. CASE UNCHANGED vars
  BY <1>1, <1>10 DEF vars
<1>11. PICK k \in Groups, r \in Repos : TRUE
  BY SizeAssumption DEF Groups, Repos
<1>12. CASE AuditTick \/ AuditTrigger
  BY <1>9, <1>11, <1>12
<1>13. ASSUME NEW m \in Groups, AuditLock(m) \/ MetricsBatch(m)
       PROVE  From(state'[g][j], g, j) /\ From(disk'[g][j], g, j)
  BY <1>9, <1>11, <1>13
<1>14. ASSUME NEW m \in Repos, AuditListRepo(m)
       PROVE  From(state'[g][j], g, j) /\ From(disk'[g][j], g, j)
  BY <1>9, <1>11, <1>14
<1>15. CASE HandlerStep
  BY <1>2, <1>8, <1>11, <1>15 DEF HandlerStep
<1>16. CASE AuditStep
  BY <1>3, <1>12, <1>13, <1>14, <1>16 DEF AuditStep
<1> QED BY <1>4, <1>5, <1>6, <1>7, <1>10, <1>13, <1>15, <1>16 DEF Next

(* Once a job has left the queue and neither a webhook under way, a        *)
(* handler nor a listing still has it queued, nothing makes its entry      *)
(* younger or brings one back from nothing: not the webhooks and audits of *)
(* other jobs, not a failed write, and a restart only what the file still  *)
(* has, which ages the same (tracker.go 104-190).  So every such entry is  *)
(* pruned within demand_ttl, and PhantomsExpire only needs time and        *)
(* passes.                                                                 *)
THEOREM PhantomsAreNotRenewed == Spec => PhantomsOnlyAge
<1> DEFINE Ageing == \A j \in Jobs : Settled(j) =>
                       /\ Settled(j)'
                       /\ \A g \in Groups :
                            \A v \in Entries(g, j)' : \E u \in Entries(g, j) : u <= v
<1>1. TypeOK /\ [Next]_vars => [Ageing]_vars
  <2> SUFFICES ASSUME TypeOK, [Next]_vars, NEW j \in Jobs, Settled(j)
               PROVE  /\ Settled(j)'
                      /\ \A g \in Groups :
                           \A v \in Entries(g, j)' : \E u \in Entries(g, j) : u <= v
    OBVIOUS
  <2>1. Settled(j)'
    BY SettledStays
  <2>2. ASSUME NEW g \in Groups, NEW v \in Entries(g, j)' PROVE \E u \in Entries(g, j) : u <= v
    <3>1. v # Absent /\ v \in {state'[g][j], disk'[g][j]}
      BY DEF Entries, Absent
    <3>2. From(v, g, j)
      BY <3>1, PhantomsAge
    <3> QED BY <3>1, <3>2 DEF From
  <2> QED BY <2>1, <2>2
<1> HIDE DEF Ageing
<1>2. Spec => [][Ageing]_vars
  BY <1>1, DemandTypeCorrect, PTL DEF Spec
<1>3. [][Ageing]_vars <=> PhantomsOnlyAge
  BY DEF Ageing, PhantomsOnlyAge
<1> QED BY <1>2, <1>3
===============================================================================
