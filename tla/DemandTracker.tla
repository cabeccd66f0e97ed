----------------------------- MODULE DemandTracker -----------------------------
(***************************************************************************)
(* Queued demand: the tracker and its file (internal/demand/tracker.go),   *)
(* the workflow_job webhook handlers that write it                         *)
(* (internal/daemon/webhook.go) and the periodic queue audit that          *)
(* overwrites it from GitHub's API (internal/daemon/daemon.go,             *)
(* provider/github/ci.go).  Handlers run concurrently with each other and  *)
(* with the audit, under demandMu; webhooks are lost, duplicated and       *)
(* reordered; a write of the file may fail; the daemon may crash.          *)
(*                                                                         *)
(* Time is counted in ticks and a QueuedAt is its age, capped past the     *)
(* TTL.  Labels and repository names are compared normalised (trimmed,     *)
(* lower case).  An org-wide class lists every repository, a repo-scoped   *)
(* class its own.  Of a repository an audit reads one page of jobs of each *)
(* of the newest runs, whatever their status; of that, a job only has      *)
(* whether it is among the jobs read, which it stops to be for good when   *)
(* enough newer runs have been created (no run is deleted).                *)
(***************************************************************************)
EXTENDS Integers, FiniteSets

CONSTANTS
  NumGroups,       \* runner groups, in the order of d.groups
  Jobs,            \* workflow jobs
  NumRepos,        \* repositories of the organisation
  GroupRepos,      \* group -> repositories its GitHub target covers
  GroupLabels,     \* group -> MatchLabels
  JobRepo,         \* job -> repository
  JobLabels,       \* job -> runs-on labels
  BatchSize,       \* workflowRepoBatchSize, 0 for no limit
  CollectWorkflows,\* the metrics loop lists workflow runs
  TTL,             \* demand_ttl, in ticks
  Handlers,        \* concurrent webhook requests
  MaxFaults        \* bound: lost and duplicated webhooks, failing calls, crashes

Groups == 1 .. NumGroups
Repos == 1 .. NumRepos

ASSUME SizeAssumption ==
  /\ NumGroups \in Nat \ {0}
  /\ NumRepos \in Nat \ {0}
  /\ BatchSize \in Nat
  /\ TTL \in Nat \ {0}
  /\ MaxFaults \in Nat
  /\ CollectWorkflows \in BOOLEAN
ASSUME RoutingAssumption ==
  /\ JobRepo \in [Jobs -> Repos]
  /\ GroupRepos \in [Groups -> SUBSET Repos]
  /\ \A g \in Groups : GroupRepos[g] = Repos \/ \E r \in Repos : GroupRepos[g] = {r}

VARIABLES
  job,          \* GitHub: status of each job
  age,          \* GitHub: ticks since the job was created
  readable,     \* GitHub: the job is among those an audit reads of its repository
  hooks,        \* webhook deliveries under way: <<event, job>>
  handlerPc,    \* handleWebhook: "idle", "apply" or "schedule"
  handling,     \* the event a handler has
  handlerTodo,  \* groups it has still to update
  state,        \* t.state: group -> job -> age of QueuedAt, or Absent
  disk,         \* the same in demand.json
  auditPc,      \* auditQueuedJobs: "idle", "next", "read" or "trigger"
  auditTodo,    \* groups it has still to audit
  auditGroup,   \* the group being audited
  auditRepos,   \* repositories of the batch still to be listed
  found,        \* jobs listed as queued so far
  cursor,       \* each provider's workflowRepoCursor
  wake,         \* groups with a debounce timer or a trigger pending
  faults,       \* faults so far
  lastHook,     \* history: the last event applied to group and job
  durableHook,  \* history: lastHook as of the last write of the file
  grown         \* history: the group gained a job no pass has read yet

github == <<job, age, readable, hooks>>
handlerVars == <<handlerPc, handling, handlerTodo>>
auditVars == <<auditPc, auditTodo, auditGroup, auditRepos, found>>
trackerVars == <<state, disk>>
hookHistory == <<lastHook, durableHook>>
vars == <<github, handlerVars, auditVars, trackerVars, cursor, wake, faults,
          hookHistory, grown>>

Absent == -1
Ages == 0 .. TTL + 1
JobStates == {"new", "queued", "in_progress", "completed"}
Events == {"queued", "in_progress", "completed"}
Applied == {"none", "queue", "clear"}

TypeOK ==
  /\ job \in [Jobs -> JobStates]
  /\ age \in [Jobs -> Ages]
  /\ readable \in [Jobs -> BOOLEAN]
  /\ hooks \in SUBSET (Events \X Jobs)
  /\ handlerPc \in [Handlers -> {"idle", "apply", "schedule"}]
  /\ handling \in [Handlers -> (Events \X Jobs) \cup {<<>>}]
  /\ \A h \in Handlers : handlerPc[h] # "idle" => handling[h] \in Events \X Jobs
  /\ handlerTodo \in [Handlers -> SUBSET Groups]
  /\ state \in [Groups -> [Jobs -> Ages \cup {Absent}]]
  /\ disk \in [Groups -> [Jobs -> Ages \cup {Absent}]]
  /\ auditPc \in {"idle", "next", "read", "trigger"}
  /\ auditTodo \in SUBSET Groups
  /\ auditGroup \in Groups
  /\ auditRepos \in SUBSET Repos
  /\ found \in SUBSET Jobs
  /\ cursor \in [Groups -> 0 .. NumRepos - 1]
  /\ wake \in SUBSET Groups
  /\ faults \in 0 .. MaxFaults
  /\ lastHook \in [Groups -> [Jobs -> Applied]]
  /\ durableHook \in [Groups -> [Jobs -> Applied]]
  /\ grown \in [Groups -> BOOLEAN]

(***************************************************************************)
(* Helpers                                                                 *)
(***************************************************************************)
CanFail == faults < MaxFaults /\ faults' = faults + 1

IsFirst(g, gs) == g \in gs /\ \A h \in gs : g <= h

(* groupMatchesRepo and labelsMatch                                        *)
GroupMatchesRepo(g, j) == JobRepo[j] \in GroupRepos[g]
LabelsMatch(j, g) == GroupLabels[g] \subseteq JobLabels[j]

(* groupsForEvent: the groups of the job's target with matching labels, or *)
(* all of them when the job has no labels or no group matches.             *)
GroupsForEvent(j) ==
  LET candidates == {g \in Groups : GroupMatchesRepo(g, j)}
      matching == {g \in candidates : LabelsMatch(j, g)}
  IN  IF JobLabels[j] = {} \/ matching = {} THEN candidates ELSE matching

(* Mutant: entries as old as the TTL are pruned.                           *)
PrunedEarly(s) ==
  [g \in Groups |-> [j \in Jobs |-> IF s[g][j] >= TTL THEN Absent ELSE s[g][j]]]

(* pruneLocked: entries older than the TTL are gone.                       *)
Pruned(s) ==
  [g \in Groups |-> [j \in Jobs |-> IF s[g][j] > TTL THEN Absent ELSE s[g][j]]]

(* state with group g's entry for job j replaced.                          *)
Put(s, g, j, v) == [s EXCEPT ![g] = [s[g] EXCEPT ![j] = v]]

(* Mutant: repositories counted from 0.                                    *)
WorkflowRepoBatchFromZero(g) == {(cursor[g] + i) % NumRepos : i \in 0 .. BatchSize - 1}

(* workflowRepoBatch: all repositories, or the next BatchSize of them.     *)
Unlimited(g) == BatchSize = 0 \/ Cardinality(GroupRepos[g]) <= BatchSize
WorkflowRepoBatch(g) ==
  IF Unlimited(g) THEN GroupRepos[g]
  ELSE {((cursor[g] + i) % NumRepos) + 1 : i \in 0 .. BatchSize - 1}
NextCursor(g) ==
  IF Unlimited(g) THEN cursor
  ELSE [cursor EXCEPT ![g] = (cursor[g] + BatchSize) % NumRepos]

NoHook == [g \in Groups |-> [j \in Jobs |-> "none"]]
NoDemand == [g \in Groups |-> [j \in Jobs |-> Absent]]

Init ==
  /\ job = [j \in Jobs |-> "new"]
  /\ age = [j \in Jobs |-> 0]
  /\ readable = [j \in Jobs |-> TRUE]
  /\ hooks = {}
  /\ handlerPc = [h \in Handlers |-> "idle"]
  /\ handling = [h \in Handlers |-> <<>>]
  /\ handlerTodo = [h \in Handlers |-> {}]
  /\ state = NoDemand
  /\ disk = NoDemand
  /\ auditPc = "idle"
  /\ auditTodo = {}
  /\ auditGroup = 1
  /\ auditRepos = {}
  /\ found = {}
  /\ cursor = [g \in Groups |-> 0]
  /\ wake = Groups
  /\ faults = 0
  /\ lastHook = NoHook
  /\ durableHook = NoHook
  /\ grown = [g \in Groups |-> FALSE]

(***************************************************************************)
(* GitHub (external): a job is queued, starts and completes, or is         *)
(* cancelled while queued; each change sends a webhook, which may be lost. *)
(***************************************************************************)
JobChanges(j, from, to) ==
  /\ job[j] = from
  /\ job' = [job EXCEPT ![j] = to]
  /\ hooks' = hooks \cup {<<to, j>>}
  /\ UNCHANGED <<age, handlerVars, auditVars, trackerVars, cursor, wake,
                 faults, hookHistory, grown>>

(* The job is of a new run or of one created long ago, and on any page.    *)
JobQueued(j) ==
  /\ JobChanges(j, "new", "queued")
  /\ \E b \in BOOLEAN : readable' = [readable EXCEPT ![j] = b]
JobStarts(j) == JobChanges(j, "queued", "in_progress") /\ UNCHANGED readable
JobCompletes(j) == JobChanges(j, "in_progress", "completed") /\ UNCHANGED readable
JobCancelled(j) == JobChanges(j, "queued", "completed") /\ UNCHANGED readable

(* Enough newer runs of its repository, on whichever runners, come up.     *)
JobOvertaken(j) ==
  /\ job[j] = "queued"
  /\ readable[j]
  /\ readable' = [readable EXCEPT ![j] = FALSE]
  /\ UNCHANGED <<job, age, hooks, handlerVars, auditVars, trackerVars, cursor,
                 wake, faults, hookHistory, grown>>

HookLost(m) ==
  /\ m \in hooks
  /\ CanFail
  /\ hooks' = hooks \ {m}
  /\ UNCHANGED <<job, age, readable, handlerVars, auditVars, trackerVars, cursor,
                 wake, hookHistory, grown>>

(***************************************************************************)
(* handleWebhook                                                           *)
(***************************************************************************)

(* A delivery reaches a handler; a redelivered one stays under way.        *)
Receive(h, m) ==
  /\ handlerPc[h] = "idle"
  /\ m \in hooks
  /\ \/ hooks' = hooks \ {m} /\ UNCHANGED faults
     \/ UNCHANGED hooks /\ CanFail
  /\ handlerTodo' = [handlerTodo EXCEPT ![h] = GroupsForEvent(m[2])]
  /\ handling' = [handling EXCEPT ![h] = IF GroupsForEvent(m[2]) = {} THEN <<>> ELSE m]
  /\ handlerPc' = [handlerPc EXCEPT ![h] =
                     IF GroupsForEvent(m[2]) = {} THEN "idle" ELSE "apply"]
  /\ UNCHANGED <<job, age, readable, auditVars, trackerVars, cursor, wake,
                 hookHistory, grown>>

(* Mutant: handlers do not take demandMu.                                  *)
DemandMuIgnored == TRUE

(* demandMu: the audit holds it from its listing to its Replace.           *)
DemandMuFree == auditPc # "read"

(* persistLocked: memory has already changed when the write fails.         *)
Persist(next) ==
  /\ state' = next
  /\ \/ disk' = next /\ durableHook' = lastHook' /\ UNCHANGED faults
     \/ UNCHANGED <<disk, durableHook>> /\ CanFail

(* Queue or Clear for the next group.                                      *)
ApplyDemand(h, g) ==
  /\ handlerPc[h] = "apply"
  /\ IsFirst(g, handlerTodo[h])
  /\ DemandMuFree
  /\ LET j == handling[h][2]
         queues == handling[h][1] = "queued"
     IN  /\ lastHook' = Put(lastHook, g, j, IF queues THEN "queue" ELSE "clear")
         /\ Persist(Put(Pruned(state), g, j, IF queues THEN 0 ELSE Absent))
         /\ grown' = IF queues THEN [grown EXCEPT ![g] = TRUE] ELSE grown
  /\ handlerPc' = [handlerPc EXCEPT ![h] = "schedule"]
  /\ UNCHANGED <<github, handling, handlerTodo, auditVars, cursor, wake>>

(* The debounced trigger, also when the write failed.                      *)
ScheduleTrigger(h, g) ==
  /\ handlerPc[h] = "schedule"
  /\ IsFirst(g, handlerTodo[h])
  /\ wake' = wake \cup {g}
  /\ handlerTodo' = [handlerTodo EXCEPT ![h] = handlerTodo[h] \ {g}]
  /\ LET done == handlerTodo[h] = {g}
     IN  /\ handlerPc' = [handlerPc EXCEPT ![h] = IF done THEN "idle" ELSE "apply"]
         /\ handling' = [handling EXCEPT ![h] = IF done THEN <<>> ELSE handling[h]]
  /\ UNCHANGED <<github, auditVars, trackerVars, cursor, faults, hookHistory, grown>>

(***************************************************************************)
(* auditQueuedJobs                                                         *)
(***************************************************************************)
AuditTick ==
  /\ auditPc = "idle"
  /\ auditPc' = "next"
  /\ auditTodo' = Groups
  /\ UNCHANGED <<github, handlerVars, auditGroup, auditRepos, found,
                 trackerVars, cursor, wake, faults, hookHistory, grown>>

(* Done with the current group: the next one, or wait for the next tick.   *)
AuditNext(rest) ==
  /\ auditPc' = IF rest = {} THEN "idle" ELSE "next"
  /\ auditTodo' = rest
  /\ auditGroup' = 1
  /\ auditRepos' = {}
  /\ found' = {}

(* demandMu.Lock, then ListQueuedJobs' choice of repositories, or its      *)
(* failure to list them.                                                   *)
AuditLock(g) ==
  /\ auditPc = "next"
  /\ IsFirst(g, auditTodo)
  /\ \/ /\ auditPc' = "read"
        /\ auditGroup' = g
        /\ auditRepos' = WorkflowRepoBatch(g)
        /\ cursor' = NextCursor(g)
        /\ found' = {}
        /\ UNCHANGED <<auditTodo, faults>>
     \/ /\ CanFail
        /\ AuditNext(auditTodo \ {g})
        /\ UNCHANGED cursor
  /\ UNCHANGED <<github, handlerVars, trackerVars, wake, hookHistory, grown>>

(* The queued jobs the audit reads of a repository.                        *)
Listed(r) == {j \in Jobs : JobRepo[j] = r /\ job[j] = "queued" /\ readable[j]}

(* The queued jobs of one repository; any failing call ends the group.     *)
AuditListRepo(r) ==
  /\ auditPc = "read"
  /\ r \in auditRepos
  /\ \/ /\ found' = found \cup Listed(r)
        /\ auditRepos' = auditRepos \ {r}
        /\ UNCHANGED <<auditPc, auditTodo, auditGroup, faults>>
     \/ /\ CanFail
        /\ AuditNext(auditTodo \ {auditGroup})
  /\ UNCHANGED <<github, handlerVars, trackerVars, cursor, wake, hookHistory, grown>>

(* Mutant: a job's labels are compared, not looked up.                     *)
MatchedExactly == {j \in found : GroupMatchesRepo(auditGroup, j) /\ GroupLabels[auditGroup] = JobLabels[j]}

(* The listed jobs this group would run.                                   *)
Matched == {j \in found : GroupMatchesRepo(auditGroup, j) /\ LabelsMatch(j, auditGroup)}

(* Mutant: the audit replaces the demand and triggers nothing.             *)
AuditReplaceSilently ==
  /\ auditPc = "read"
  /\ auditRepos = {}
  /\ UNCHANGED lastHook
  /\ Persist([Pruned(state) EXCEPT ![auditGroup] =
                [j \in Jobs |-> IF j \in Matched THEN age[j] ELSE Absent]])
  /\ grown' = [grown EXCEPT ![auditGroup] =
                 grown[auditGroup] \/ \E j \in Matched : Pruned(state)[auditGroup][j] = Absent]
  /\ AuditNext(auditTodo \ {auditGroup})
  /\ UNCHANGED <<github, handlerVars, cursor, wake>>

(* Mutant: what is tracked is kept, as if it had been queued just now.     *)
AuditReplaceMerging ==
  /\ auditPc = "read"
  /\ auditRepos = {}
  /\ UNCHANGED <<lastHook, grown>>
  /\ Persist([Pruned(state) EXCEPT ![auditGroup] =
                [j \in Jobs |-> IF j \in Matched \/ Pruned(state)[auditGroup][j] # Absent
                               THEN 0 ELSE Absent]])
  /\ AuditNext(auditTodo \ {auditGroup})
  /\ UNCHANGED <<github, handlerVars, cursor, wake>>

(* Replace, then demandMu.Unlock; the trigger follows if a job matched.    *)
AuditReplace ==
  /\ auditPc = "read"
  /\ auditRepos = {}
  /\ UNCHANGED lastHook
  /\ Persist([Pruned(state) EXCEPT ![auditGroup] =
                [j \in Jobs |-> IF j \in Matched THEN age[j] ELSE Absent]])
  /\ grown' = [grown EXCEPT ![auditGroup] =
                 grown[auditGroup] \/ \E j \in Matched : Pruned(state)[auditGroup][j] = Absent]
  /\ \/ /\ Matched # {}
        /\ auditPc' = "trigger"
        /\ UNCHANGED <<auditTodo, auditGroup, auditRepos, found>>
     \/ /\ Matched = {}
        /\ AuditNext(auditTodo \ {auditGroup})
  /\ UNCHANGED <<github, handlerVars, cursor, wake>>

AuditTrigger ==
  /\ auditPc = "trigger"
  /\ wake' = wake \cup {auditGroup}
  /\ AuditNext(auditTodo \ {auditGroup})
  /\ UNCHANGED <<github, handlerVars, trackerVars, cursor, faults, hookHistory, grown>>

(* ListRecentWorkflowRunsShallow, for metrics, takes batches from the same *)
(* cursor.                                                                 *)
MetricsBatch(g) ==
  /\ CollectWorkflows
  /\ ~Unlimited(g)
  /\ cursor' = NextCursor(g)
  /\ UNCHANGED <<github, handlerVars, auditVars, trackerVars, wake, faults,
                 hookHistory, grown>>

(***************************************************************************)
(* Readers, restarts and time                                              *)
(***************************************************************************)

(* A pass reads the group's demand (Snapshot), because it was triggered or *)
(* because the poll ticker came round.  Pruning is not written to disk.    *)
PassReads(g) ==
  /\ state' = Pruned(state)
  /\ grown' = [grown EXCEPT ![g] = FALSE]
  /\ \/ wake' = wake \ {g}
     \/ UNCHANGED wake
  /\ UNCHANGED <<github, handlerVars, auditVars, disk, cursor, faults, hookHistory>>

(* NewTracker                                                              *)
Loaded == Pruned(disk)

(* The daemon dies and starts again; its first pass visits every group.    *)
CrashRestart ==
  /\ CanFail
  /\ handlerPc' = [h \in Handlers |-> "idle"]
  /\ handling' = [h \in Handlers |-> <<>>]
  /\ handlerTodo' = [h \in Handlers |-> {}]
  /\ auditPc' = "idle"
  /\ auditTodo' = {}
  /\ auditGroup' = 1
  /\ auditRepos' = {}
  /\ found' = {}
  /\ cursor' = [g \in Groups |-> 0]
  /\ state' = Loaded
  /\ wake' = Groups
  /\ lastHook' = durableHook
  /\ grown' = [g \in Groups |-> FALSE]
  /\ UNCHANGED <<github, disk, durableHook>>

Older(a) == IF a = Absent \/ a > TTL THEN a ELSE a + 1
AllOlder(s) == [g \in Groups |-> [j \in Jobs |-> Older(s[g][j])]]

Tick ==
  /\ age' = [j \in Jobs |-> IF job[j] = "new" THEN 0 ELSE Older(age[j])]
  /\ state' = AllOlder(state)
  /\ disk' = AllOlder(disk)
  /\ UNCHANGED <<job, readable, hooks, handlerVars, auditVars, cursor, wake, faults,
                 hookHistory, grown>>

GitHubStep ==
  \/ \E j \in Jobs : JobQueued(j) \/ JobStarts(j) \/ JobCompletes(j) \/ JobCancelled(j)
  \/ \E j \in Jobs : JobOvertaken(j)
  \/ \E m \in hooks : HookLost(m)

HandlerStep ==
  \E h \in Handlers :
    \/ \E m \in hooks : Receive(h, m)
    \/ \E g \in Groups : ApplyDemand(h, g) \/ ScheduleTrigger(h, g)

AuditStep ==
  \/ AuditTick \/ AuditReplace \/ AuditTrigger
  \/ \E g \in Groups : AuditLock(g)
  \/ \E r \in Repos : AuditListRepo(r)

Next ==
  \/ GitHubStep \/ HandlerStep \/ AuditStep
  \/ \E g \in Groups : MetricsBatch(g) \/ PassReads(g)
  \/ CrashRestart
  \/ Tick

Spec == Init /\ [][Next]_vars

(* Handlers and the audit go on, the poll ticker keeps passes coming.      *)
FairSpec ==
  /\ Spec
  /\ WF_vars(HandlerStep)
  /\ WF_vars(AuditStep)
  /\ \A g \in Groups : WF_vars(PassReads(g)) /\ WF_vars(MetricsBatch(g))

TimedSpec == FairSpec /\ WF_vars(Tick)

(***************************************************************************)
(* Properties                                                              *)
(***************************************************************************)
Tracked(g, j) == state[g][j] # Absent

(* A cleared job stays cleared: once in_progress or completed was the last *)
(* event applied for a job, neither an audit that was listing meanwhile    *)
(* nor a restart brings it back (auditQueuedJobs holds demandMu from       *)
(* listing to Replace, daemon.go 265-280; persistLocked, tracker.go 176).  *)
(* A restart starts from the events the file has: where the write that     *)
(* cleared the job failed, the restart brings the job back, and            *)
(* PhantomsExpire says for how long.                                       *)
ClearedStaysCleared ==
  \A g \in Groups, j \in Jobs : lastHook[g][j] = "clear" => ~Tracked(g, j)

(* The group's audit looks at all its repositories every time, and would   *)
(* keep the job if it still sees it.                                       *)
CoveredByAudit(g, j) == Unlimited(g) /\ GroupMatchesRepo(g, j) /\ LabelsMatch(j, g)

(* A queued job is kept: while GitHub holds a job queued, its webhook has  *)
(* been applied and it is no older than demand_ttl, it stays tracked       *)
(* through audits that race its queueing and through restarts, provided    *)
(* every audit looks at all repositories (tracker.go 104-128) and the job  *)
(* is among what an audit reads of its repository: one page of jobs of     *)
(* each of the newest runs (ci.go 152-167).  A job beyond that is dropped. *)
QueuedJobKept ==
  \A g \in Groups, j \in Jobs :
    /\ CoveredByAudit(g, j)
    /\ readable[j]
    /\ lastHook[g][j] = "queue"
    /\ job[j] = "queued"
    /\ age[j] <= TTL
    => Tracked(g, j)

(* Whenever a group has gained a job no pass has read, a debounce timer or *)
(* a trigger for it is pending or some goroutine is about to start one,    *)
(* also after a failed write, and also when the audit found the job        *)
(* (webhook.go 174-194, daemon.go 277-283).  What then becomes of timer    *)
(* and trigger is the subject of Debouncer and TriggerLoop.                *)
NewDemandWakes ==
  \A g \in Groups : grown[g] =>
    \/ g \in wake
    \/ auditPc = "trigger" /\ auditGroup = g
    \/ \E h \in Handlers : handlerPc[h] = "schedule" /\ IsFirst(g, handlerTodo[h])

(* Phantom demand goes away: an entry for a job that is no longer queued   *)
(* (its clearing webhook lost, overtaken by its queued webhook, or undone  *)
(* by a restart after a failed write) leaves the tracker (tracker.go 162). *)
PhantomsExpire ==
  \A g \in Groups, j \in Jobs :
    (Tracked(g, j) /\ job[j] # "queued") ~> ~Tracked(g, j)

(* A queued job that the group runs, young enough to count as demand.      *)
Wanted(g, j) ==
  job[j] = "queued" /\ age[j] <= TTL /\ GroupMatchesRepo(g, j) /\ LabelsMatch(j, g)
Demanded(g, j) == state[g][j] \in 0 .. TTL

(* Whatever became of its webhook, a queued job becomes demand that a pass *)
(* of its group reads (Snapshot leaves out what is older than the TTL),    *)
(* unless it leaves the queue, outlives the TTL or moves beyond what an    *)
(* audit reads of its repository (ci.go 146-183), and provided the audit   *)
(* alone moves the repository cursor: time may stop, so outliving the TTL  *)
(* is no excuse for an audit that never finds the job.                     *)
MissedWebhookRecovered ==
  \A g \in Groups, j \in Jobs :
    (Unlimited(g) \/ ~CollectWorkflows) =>
      (Wanted(g, j) /\ readable[j]) ~> (Demanded(g, j) \/ ~Wanted(g, j) \/ ~readable[j])

(* README.md:950: "a five-minute bounded API audit recovers missed         *)
(* webhooks".  The same without regard to the cursor.                      *)
EveryMissedWebhookRecovered ==
  \A g \in Groups, j \in Jobs :
    (Wanted(g, j) /\ readable[j]) ~> (Demanded(g, j) \/ ~Wanted(g, j) \/ ~readable[j])

AuditDrops(j) ==
  /\ auditPc = "read" /\ auditPc' # "read"
  /\ job[j] = "queued"
  /\ state[auditGroup][j] \in 0 .. TTL
  /\ state'[auditGroup][j] = Absent

(* tracker.go:1-2: the package "persists queued workflow jobs until GitHub *)
(* reports that they started or completed", and tracker.go:103: Replace    *)
(* refreshes "from an authoritative audit".  The audit drops no job that   *)
(* GitHub holds queued.                                                    *)
AuditKeepsQueuedJobs == [][\A j \in Jobs : ~AuditDrops(j)]_vars

(* README.md:604: a job that no class matches triggers "all classes for    *)
(* that GitHub target rather than dropping the event".  The demand it      *)
(* stands for is not dropped while it is queued.                           *)
FallbackDemandKept ==
  [][\A j \in Jobs : (\A g \in Groups : ~LabelsMatch(j, g)) => ~AuditDrops(j)]_vars
================================================================================
