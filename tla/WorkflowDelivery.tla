--------------------------- MODULE WorkflowDelivery ---------------------------
(***************************************************************************)
(* Completed workflow runs on their way to Loki: collectWorkflowMetrics    *)
(* (internal/daemon/daemon.go) goes over the classes; for each, the        *)
(* provider lists the newest completed runs of the next batch of its       *)
(* repositories (provider/github/ci.go), the runs whose keys the seen      *)
(* cache holds are dropped, failed jobs are looked up for the failed ones  *)
(* among the rest, and what was pushed is marked delivered.  Classes share *)
(* the seen cache and may share repositories; a provider's queue audits    *)
(* take batches with the same cursor.  GitHub goes on meanwhile: runs      *)
(* complete out of order and are run again.                                *)
(*                                                                         *)
(* A run is its key: what else is sent of it, with what the lookups of     *)
(* failed jobs found, is left out.  pushPayload's retries are in module    *)
(* IssueDelivery; here a push succeeds or fails after them.                *)
(***************************************************************************)
EXTENDS Integers, Sequences, FiniteSets, SequencesExt, SeenCache

CONSTANTS
  GroupRepos,   \* the repositories of each class's target, in order
  RunRepo,      \* the repository of each run; runs are numbered as created
  Window,       \* workflowMetricRunFetchLimit
  RepoBatch,    \* workflowRepoBatchSize, 0 for no limit
  MaxAttempts,  \* bound: attempts of each run
  MaxRunFaults, \* bound: failures and restarts
  MaxAuditMoves \* bound: queue audits that move a cursor

VARIABLES
  runAttempt,   \* GitHub: each run's latest attempt
  done,         \* GitHub: the runs whose latest attempt is completed
  runOrder,     \* the seen cache's keys, oldest first
  runDisk,      \* the same in workflow_metrics_seen.json
  runPc,        \* where the metrics goroutine is
  group,        \* the class it is at
  todo,         \* repositories it has yet to list
  runBatch,     \* wm: keys of the runs
  repoCursor,   \* each class's workflowRepoCursor
  auditMoves,   \* queue audits that moved a cursor so far
  runFaults,    \* faults so far
  runIngested,  \* Loki: keys of the runs it has
  recent,       \* history: keys of the SeenLimit runs last delivered
  runDurable,   \* history: keys on disk since they were last delivered
  runExcused,   \* history: keys Loki may have without the daemon knowing
  runAgain      \* history: keys Loki got twice without such an excuse

githubVars == <<runAttempt, done>>
runSeenVars == <<runOrder, runDisk>>
runCallVars == <<runPc, group, todo, runBatch>>
cursorVars == <<repoCursor, auditMoves>>
lokiVars == <<runIngested, recent, runAgain>>
runHistory == <<runDurable, runExcused>>
workflowVars == <<githubVars, runSeenVars, runCallVars, cursorVars, runFaults, lokiVars,
                  runHistory>>

Runs == DOMAIN RunRepo
Classes == DOMAIN GroupRepos
Attempts(r) == 1 .. MaxAttempts[r]
RunKeys == UNION {{<<r, a>> : a \in Attempts(r)} : r \in Runs}

WorkflowTypeOK ==
  /\ DOMAIN runAttempt = Runs /\ \A r \in Runs : runAttempt[r] \in Attempts(r)
  /\ done \subseteq Runs
  /\ runOrder \in Seq(RunKeys) /\ Len(runOrder) <= SeenLimit
  /\ runDisk \in Seq(RunKeys) /\ Len(runDisk) <= SeenLimit
  /\ runPc \in {"idle", "repos", "list", "enrich", "push", "mark"}
  /\ group \in 1 .. Len(GroupRepos)
  /\ runBatch \in Seq(RunKeys)
  /\ \A g \in Classes : repoCursor[g] \in 0 .. Len(GroupRepos[g]) - 1
  /\ auditMoves \in 0 .. MaxAuditMoves
  /\ runFaults \in 0 .. MaxRunFaults
  /\ runIngested \cup runDurable \cup runExcused \cup runAgain \subseteq RunKeys

WorkflowInit ==
  /\ runAttempt = [r \in Runs |-> 1]
  /\ done = {}
  /\ runOrder = << >>
  /\ runDisk = << >>
  /\ runPc = "idle"
  /\ group = 1
  /\ todo = << >>
  /\ runBatch = << >>
  /\ repoCursor = [g \in Classes |-> 0]
  /\ auditMoves = 0
  /\ runFaults = 0
  /\ runIngested = {}
  /\ recent = << >>
  /\ runDurable = {}
  /\ runExcused = {}
  /\ runAgain = {}

RunFault == runFaults < MaxRunFaults /\ runFaults' = runFaults + 1

(***************************************************************************)
(* GitHub (external)                                                       *)
(***************************************************************************)
Complete(r) ==
  /\ r \notin done
  /\ done' = done \cup {r}
  /\ UNCHANGED <<runAttempt, runSeenVars, runCallVars, cursorVars, runFaults, lokiVars,
                 runHistory>>

RunAgain(r) ==
  /\ r \in done
  /\ runAttempt[r] < MaxAttempts[r]
  /\ runAttempt' = [runAttempt EXCEPT ![r] = @ + 1]
  /\ done' = done \ {r}
  /\ UNCHANGED <<runSeenVars, runCallVars, cursorVars, runFaults, lokiVars, runHistory>>

(* Completed runs are listed newest first, by creation.                    *)
Listing(repo) ==
  LET completed == {r \in done : RunRepo[r] = repo}
  IN  {r \in completed : Cardinality({s \in completed : s > r}) < Window}

NewestFirst(rs) ==
  [k \in 1 .. Cardinality(rs) |->
     CHOOSE r \in rs : Cardinality({s \in rs : s > r}) = k - 1]

(***************************************************************************)
(* collectWorkflowMetrics                                                  *)
(***************************************************************************)

(* workflowMetricKey                                                       *)
WorkflowMetricKey(r) == <<r, runAttempt[r]>>

(* The next class, or the end of the cycle.                                *)
NextGroup ==
  /\ runPc' = IF group < Len(GroupRepos) THEN "repos" ELSE "idle"
  /\ group' = IF group < Len(GroupRepos) THEN group + 1 ELSE 1
  /\ todo' = << >>
  /\ runBatch' = << >>

(* The metrics ticker.                                                     *)
CollectWorkflowMetrics ==
  /\ runPc = "idle"
  /\ runPc' = "repos"
  /\ UNCHANGED <<githubVars, runSeenVars, group, todo, runBatch, cursorVars, runFaults,
                 lokiVars, runHistory>>

(* workflowRepoBatch: all repositories of a class, or the next RepoBatch.  *)
TakesAll(g) == RepoBatch = 0 \/ Len(GroupRepos[g]) <= RepoBatch
WorkflowRepoBatch(g) ==
  IF TakesAll(g) THEN GroupRepos[g]
  ELSE [i \in 1 .. RepoBatch |->
          GroupRepos[g][((repoCursor[g] + i - 1) % Len(GroupRepos[g])) + 1]]

(* Mutant: the cursor stays where it is.                                   *)
CursorStays(g) == UNCHANGED repoCursor

AdvanceCursor(g) ==
  repoCursor' = IF TakesAll(g) THEN repoCursor
                ELSE [repoCursor EXCEPT ![g] = (@ + RepoBatch) % Len(GroupRepos[g])]

(* The repositories, from GitHub or cached, and the batch of them; if      *)
(* listWorkflowRepos fails, nothing is listed for the class.               *)
ListWorkflowRepos ==
  /\ runPc = "repos"
  /\ \/ /\ runPc' = "list"
        /\ todo' = WorkflowRepoBatch(group)
        /\ AdvanceCursor(group)
        /\ UNCHANGED <<group, runBatch, runFaults>>
     \/ RunFault /\ NextGroup /\ UNCHANGED repoCursor
  /\ UNCHANGED <<githubVars, runSeenVars, auditMoves, lokiVars, runHistory>>

(* ListQueuedJobs of the class's audit takes a batch of its own.           *)
AuditTakesBatch(g) ==
  /\ ~TakesAll(g)
  /\ auditMoves < MaxAuditMoves
  /\ auditMoves' = auditMoves + 1
  /\ AdvanceCursor(g)
  /\ UNCHANGED <<githubVars, runSeenVars, runCallVars, runFaults, lokiVars, runHistory>>

(* ListRecentWorkflowRunsShallow, a repository at a time; one that fails   *)
(* is skipped.                                                             *)
ListRecentWorkflowRuns ==
  /\ runPc = "list"
  /\ todo # << >>
  /\ todo' = Tail(todo)
  /\ \/ /\ LET rs == NewestFirst(Listing(Head(todo)))
           IN  runBatch' = runBatch \o [k \in DOMAIN rs |-> WorkflowMetricKey(rs[k])]
        /\ UNCHANGED runFaults
     \/ RunFault /\ UNCHANGED runBatch
  /\ UNCHANGED <<githubVars, runSeenVars, runPc, group, cursorVars, lokiVars, runHistory>>

(* filterNew                                                               *)
FilterNewRuns ==
  /\ runPc = "list"
  /\ todo = << >>
  /\ LET fresh == Unseen(runBatch, runBatch, ToSet(runOrder))
     IN  \/ fresh = << >> /\ NextGroup
         \/ fresh # << >> /\ runPc' = "enrich" /\ runBatch' = fresh /\ UNCHANGED <<group, todo>>
  /\ UNCHANGED <<githubVars, runSeenVars, cursorVars, runFaults, lokiVars, runHistory>>

(* EnrichWorkflowMetrics: whichever lookups fail, all the runs go on.      *)
EnrichWorkflowMetrics ==
  /\ runPc = "enrich"
  /\ runPc' = "push"
  /\ UNCHANGED <<githubVars, runSeenVars, group, todo, runBatch, cursorVars, runFaults,
                 lokiVars, runHistory>>

(* Loki takes the batch.                                                   *)
IngestRuns ==
  /\ runIngested' = runIngested \cup ToSet(runBatch)
  /\ runAgain' = runAgain \cup ((ToSet(runBatch) \cap ToSet(recent)) \ runExcused)

(* 200 or 204                                                              *)
PushRunsSucceeds ==
  /\ runPc = "push"
  /\ IngestRuns
  /\ recent' = LET all == recent \o runBatch
                   first == IF Len(all) > SeenLimit THEN Len(all) - SeenLimit + 1 ELSE 1
               IN  SubSeq(all, first, Len(all))
  /\ runDurable' = runDurable \ ToSet(runBatch)
  /\ runPc' = "mark"
  /\ UNCHANGED <<githubVars, runSeenVars, group, todo, runBatch, cursorVars, runFaults,
                 runExcused>>

(* Mutant: what could not be pushed is marked and not tried again.         *)
PushRunsFailsMarks ==
  /\ runPc = "push"
  /\ RunFault
  /\ runPc' = "mark"
  /\ UNCHANGED <<githubVars, runSeenVars, group, todo, runBatch, cursorVars, lokiVars,
                 runHistory>>

(* A failed push, which Loki may have taken, is left to the next cycle.    *)
PushRunsFails ==
  /\ runPc = "push"
  /\ RunFault
  /\ \/ UNCHANGED <<lokiVars, runExcused>>
     \/ IngestRuns /\ runExcused' = runExcused \cup ToSet(runBatch) /\ UNCHANGED recent
  /\ NextGroup
  /\ UNCHANGED <<githubVars, runSeenVars, cursorVars, runDurable>>

(* markDelivered; a failing write of the file is only logged.              *)
MarkRunsDelivered ==
  /\ runPc = "mark"
  /\ runOrder' = WithKeys(runOrder, runBatch)
  /\ \/ /\ runDisk' = runOrder'
        /\ runDurable' = runDurable \cup ToSet(runOrder')
        /\ UNCHANGED runFaults
     \/ RunFault /\ UNCHANGED <<runDisk, runDurable>>
  /\ NextGroup
  /\ UNCHANGED <<githubVars, cursorVars, lokiVars, runExcused>>

(* load reads the seen cache's file.                                       *)
LoadRuns ==
  /\ runOrder' = runDisk
  /\ runExcused' = runExcused \cup (runIngested \ runDurable)
  /\ UNCHANGED runDisk

(* load cannot read the file or cannot decode it, as when a crash of the   *)
(* machine left it short, and then not before it is written again either:  *)
(* the cache stays empty.                                                  *)
LoadRunsFails ==
  /\ runOrder' = << >>
  /\ runDisk' \in {runDisk, << >>}
  /\ runExcused' = runExcused \cup runIngested

(* The daemon dies and starts again.                                       *)
WorkflowRestart ==
  /\ RunFault
  /\ LoadRuns \/ LoadRunsFails
  /\ runPc' = "idle"
  /\ group' = 1
  /\ todo' = << >>
  /\ runBatch' = << >>
  /\ repoCursor' = [g \in Classes |-> 0]
  /\ UNCHANGED <<githubVars, auditMoves, lokiVars, runDurable>>

WorkflowStep ==
  \/ CollectWorkflowMetrics \/ ListWorkflowRepos \/ ListRecentWorkflowRuns \/ FilterNewRuns
  \/ EnrichWorkflowMetrics \/ PushRunsSucceeds \/ PushRunsFails \/ MarkRunsDelivered

WorkflowNext ==
  \/ \E r \in Runs : Complete(r) \/ RunAgain(r)
  \/ \E g \in Classes : AuditTakesBatch(g)
  \/ WorkflowStep
  \/ WorkflowRestart

WorkflowSpec == WorkflowInit /\ [][WorkflowNext]_workflowVars

(* The metrics ticker goes on.                                             *)
FairWorkflowSpec == WorkflowSpec /\ WF_workflowVars(WorkflowStep)

(***************************************************************************)
(* Properties                                                              *)
(***************************************************************************)

(* Loki gets no attempt of a run twice, whichever classes list it, unless  *)
(* a push failed after Loki had taken it, the daemon died before the mark  *)
(* was on disk, a start could not read or decode the file, or SeenLimit    *)
(* others were delivered since (daemon.go 654-680, seen_cache.go 43-117).  *)
NoRunRedelivered == runAgain = {}

(* What the seen cache or its file takes for delivered, Loki has: a run    *)
(* that filterNew drops is never lost, whatever pushes fail and whenever   *)
(* the daemon starts anew (daemon.go 661-679, seen_cache.go 43-105).       *)
MarkedRunsIngested == ToSet(runOrder) \cup ToSet(runDisk) \subseteq runIngested

(* Every attempt that completes among the newest runs of its repository    *)
(* reaches Loki, unless newer runs or another attempt take its place       *)
(* first: the batches come to every repository, and skipped repositories,  *)
(* failed pushes and restarts are made good by a later cycle.  It is said  *)
(* of cycles whose batches no audit steps over for ever: audits move the   *)
(* cursor only MaxAuditMoves times (daemon.go 650-680, ci.go 715-731).     *)
RunsReachLoki ==
  \A key \in RunKeys :
    LET r == key[1]
        listed == runAttempt[r] = key[2] /\ \E g \in Classes :
                    /\ Contains(GroupRepos[g], RunRepo[r])
                    /\ r \in Listing(RunRepo[r])
    IN  listed ~> (key \in runIngested \/ ~listed)

(* seen_cache.go:21 says the keys are kept "in LRU order".  Then a run     *)
(* that no newer one displaces, and that is looked up in every cycle, is   *)
(* never forgotten while the listings fit the cache.                       *)
ListedRunsRemembered ==
  /\ Cardinality(Runs) <= SeenLimit
  /\ \A r \in Runs : Cardinality({s \in Runs : RunRepo[s] = RunRepo[r]}) <= Window
  => \A key \in ToSet(runBatch) : runPc = "push" /\ key \in runIngested => key \in runExcused
================================================================================
