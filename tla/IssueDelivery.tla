----------------------------- MODULE IssueDelivery -----------------------------
(***************************************************************************)
(* Warnings and errors on their way to Loki: collectLogDerivedMetrics      *)
(* (internal/daemon/analytics.go) takes them from the retained log, or     *)
(* from its per-version cache of it, drops those whose keys the seen cache *)
(* holds (internal/daemon/seen_cache.go), pushes the rest in one request   *)
(* with retries (provider/loki/metrics.go) and marks them delivered.       *)
(* Other goroutines log meanwhile, Loki may fail before or after it has    *)
(* taken a push, the seen cache's file may fail to be written or to be     *)
(* read, and the daemon may restart; what is logged on the way may be an   *)
(* issue itself.                                                           *)
(*                                                                         *)
(* Log entries are numbered and have distinct keys.  The log keeps its     *)
(* newest entries, and module LogStore shows how it does.                  *)
(***************************************************************************)
EXTENDS Integers, Sequences, FiniteSets, SequencesExt, SeenCache

CONSTANTS
  MaxRetained,    \* retained log entries, defaultLogStoreLimit
  Retries,        \* len(b.retries)
  MaxLogged,      \* bound: log entries from elsewhere in the daemon
  MaxIssueFaults  \* bound: failures and restarts

ASSUME RetainedAssumption == MaxRetained \in Nat

VARIABLES
  logged,        \* entries logged so far, the newest one's number
  issues,        \* the logged ones selectIssueLogEntries selects, oldest first
  version,       \* the log store's version
  cacheVersion,  \* logAnalyticsVersion, None while nothing is cached
  cache,         \* cachedIssueLogEntries
  order,         \* the seen cache's keys, oldest first
  disk,          \* the same in issue_events_seen.json
  issuePc,       \* where the metrics goroutine is
  asked,         \* the version it looks the cache up with, then the snapshot's
  batch,         \* issueCandidates, then issueEntries
  attempt,       \* pushPayload's attempt
  elsewhere,     \* entries logged elsewhere so far
  issueFaults,   \* faults so far
  ingested,      \* Loki: the issues it has
  durable,       \* history: issues whose key has been on disk
  excused,       \* history: issues Loki may have without the daemon knowing
  again          \* history: issues Loki got twice without such an excuse

logVars == <<logged, issues, version>>
cacheVars == <<cacheVersion, cache>>
seenVars == <<order, disk>>
callVars == <<issuePc, asked, batch, attempt>>
history == <<ingested, durable, excused, again>>
issueVars == <<logVars, cacheVars, seenVars, callVars, elsewhere, issueFaults, history>>

None == -1

(* Each fault logs one entry at most.                                      *)
IssueIds == 1 .. MaxLogged + MaxIssueFaults

IssueTypeOK ==
  /\ logged \in 0 .. MaxLogged + MaxIssueFaults
  /\ issues \in Seq(1 .. logged)
  /\ version \in Nat
  /\ cacheVersion \in Nat \cup {None}
  /\ cache \in Seq(IssueIds)
  /\ order \in Seq(IssueIds) /\ Len(order) <= SeenLimit
  /\ disk \in Seq(IssueIds) /\ Len(disk) <= SeenLimit
  /\ issuePc \in {"idle", "lookup", "snapshot", "store", "lifecycle", "filter", "push", "mark"}
  /\ asked \in Nat
  /\ batch \in Seq(IssueIds)
  /\ attempt \in 0 .. Retries
  /\ elsewhere \in 0 .. MaxLogged
  /\ issueFaults \in 0 .. MaxIssueFaults
  /\ ingested \subseteq IssueIds
  /\ durable \subseteq IssueIds
  /\ excused \subseteq IssueIds
  /\ again \subseteq IssueIds

IssueInit ==
  /\ logged = 0
  /\ issues = << >>
  /\ version = 0
  /\ cacheVersion = None
  /\ cache = << >>
  /\ order = << >>
  /\ disk = << >>
  /\ issuePc = "idle"
  /\ asked = 0
  /\ batch = << >>
  /\ attempt = 0
  /\ elsewhere = 0
  /\ issueFaults = 0
  /\ ingested = {}
  /\ durable = {}
  /\ excused = {}
  /\ again = {}

IssueFault == issueFaults < MaxIssueFaults /\ issueFaults' = issueFaults + 1

(* selectIssueLogEntries of the retained entries: all but the oldest ones. *)
RetainedIssues == Unseen(issues, issues, 1 .. logged - MaxRetained)

(* slog's handler records an entry, of interest to selectIssueLogEntries   *)
(* or not.                                                                 *)
Log(isIssue) ==
  /\ logged' = logged + 1
  /\ issues' = IF isIssue THEN Append(issues, logged + 1) ELSE issues
  /\ version' = version + 1

(* Some other part of the daemon logs.                                     *)
LoggedElsewhere(isIssue) ==
  /\ elsewhere < MaxLogged
  /\ elsewhere' = elsewhere + 1
  /\ Log(isIssue)
  /\ UNCHANGED <<cacheVars, seenVars, callVars, issueFaults, history>>

(***************************************************************************)
(* The seen cache                                                          *)
(***************************************************************************)
Keys == ToSet(order)

(***************************************************************************)
(* collectLogDerivedMetrics                                                *)
(***************************************************************************)

(* The metrics ticker; Version().                                          *)
Collect ==
  /\ issuePc = "idle"
  /\ asked' = version
  /\ issuePc' = "lookup"
  /\ UNCHANGED <<logVars, cacheVars, seenVars, batch, attempt, elsewhere, issueFaults, history>>

(* cachedLogDerivedMetrics                                                 *)
LookUp ==
  /\ issuePc = "lookup"
  /\ \/ cacheVersion = asked /\ batch' = cache /\ issuePc' = "lifecycle"
     \/ cacheVersion # asked /\ batch' = << >> /\ issuePc' = "snapshot"
  /\ asked' = 0
  /\ UNCHANGED <<logVars, cacheVars, seenVars, attempt, elsewhere, issueFaults, history>>

(* SnapshotWithVersion and selectIssueLogEntries: version and entries of   *)
(* one moment.  Others go on logging before the store.                     *)
Snapshot ==
  /\ issuePc = "snapshot"
  /\ batch' = RetainedIssues
  /\ asked' = version
  /\ issuePc' = "store"
  /\ UNCHANGED <<logVars, cacheVars, seenVars, attempt, elsewhere, issueFaults, history>>

(* Mutant: what is stored is stored under the version of that moment.      *)
StoreAtVersion ==
  /\ issuePc = "store"
  /\ cache' = batch
  /\ cacheVersion' = version
  /\ asked' = 0
  /\ issuePc' = "lifecycle"
  /\ UNCHANGED <<logVars, seenVars, batch, attempt, elsewhere, issueFaults, history>>

(* storeLogDerivedMetrics, under the snapshot's version.                   *)
Store ==
  /\ issuePc = "store"
  /\ cache' = batch
  /\ cacheVersion' = asked
  /\ asked' = 0
  /\ issuePc' = "lifecycle"
  /\ UNCHANGED <<logVars, seenVars, batch, attempt, elsewhere, issueFaults, history>>

(* PushLifecycleMetrics; its failure is logged, as an issue.               *)
PushLifecycle ==
  /\ issuePc = "lifecycle"
  /\ issuePc' = "filter"
  /\ \/ UNCHANGED <<logVars, issueFaults>>
     \/ IssueFault /\ Log(TRUE)
  /\ UNCHANGED <<cacheVars, seenVars, asked, batch, attempt, elsewhere, history>>

(* The call is over.                                                       *)
Return ==
  /\ issuePc' = "idle"
  /\ batch' = << >>
  /\ attempt' = 0

(* filterNew                                                               *)
FilterNew ==
  /\ issuePc = "filter"
  /\ \/ /\ Unseen(batch, batch, Keys) # << >>
        /\ batch' = Unseen(batch, batch, Keys)
        /\ issuePc' = "push"
        /\ UNCHANGED attempt
     \/ /\ Unseen(batch, batch, Keys) = << >>
        /\ Return
  /\ UNCHANGED <<logVars, cacheVars, seenVars, asked, elsewhere, issueFaults, history>>

(* Loki takes the batch.                                                   *)
Ingest ==
  /\ ingested' = ingested \cup ToSet(batch)
  /\ again' = again \cup ((ToSet(batch) \cap ingested) \ excused)

(* 200 or 204                                                              *)
PushSucceeds ==
  /\ issuePc = "push"
  /\ Ingest
  /\ issuePc' = "mark"
  /\ attempt' = 0
  /\ UNCHANGED <<logVars, cacheVars, seenVars, asked, batch, elsewhere, issueFaults,
                 durable, excused>>

(* Mutant: a failed push counts as delivered.                              *)
PushGivesUpMarking ==
  /\ issuePc' = "mark"
  /\ attempt' = 0
  /\ Log(FALSE)
  /\ UNCHANGED batch

(* pushPayload's error is logged as an "issue_events" entry, which is no   *)
(* issue.                                                                  *)
PushGivesUp ==
  /\ Return
  /\ Log(FALSE)

(* An attempt fails, with Loki having taken the batch or not: retried if   *)
(* the error is retryable and attempts are left.                           *)
PushFails ==
  /\ issuePc = "push"
  /\ IssueFault
  /\ \/ UNCHANGED <<ingested, excused, again>>
     \/ Ingest /\ excused' = excused \cup ToSet(batch)
  /\ \/ attempt < Retries /\ attempt' = attempt + 1 /\ UNCHANGED <<logVars, issuePc, batch>>
     \/ PushGivesUp
  /\ UNCHANGED <<cacheVars, seenVars, asked, elsewhere, durable>>

(* markDelivered; a failing write of the file is logged, as an issue.      *)
MarkDelivered ==
  /\ issuePc = "mark"
  /\ order' = WithKeys(order, batch)
  /\ \/ disk' = order' /\ durable' = durable \cup ToSet(order')
        /\ UNCHANGED <<logVars, issueFaults>>
     \/ IssueFault /\ Log(TRUE) /\ UNCHANGED <<disk, durable>>
  /\ Return
  /\ UNCHANGED <<cacheVars, asked, elsewhere, ingested, excused, again>>

(* load reads the seen cache's file.                                       *)
LoadSeen ==
  /\ order' = disk
  /\ excused' = excused \cup (ingested \ durable)
  /\ version' = 0
  /\ UNCHANGED <<logged, issues, disk>>

(* load cannot read the file or cannot decode it, as when a crash of the   *)
(* machine left it short, and then not before it is written again either:  *)
(* the cache stays empty, and a warning is logged, the first entry since   *)
(* the log store was opened.                                               *)
LoadSeenFails ==
  /\ order' = << >>
  /\ disk' \in {disk, << >>}
  /\ excused' = excused \cup ingested
  /\ logged' = logged + 1
  /\ issues' = Append(issues, logged + 1)
  /\ version' = 1

(* The daemon dies and starts again.                                       *)
Restart ==
  /\ IssueFault
  /\ LoadSeen \/ LoadSeenFails
  /\ cacheVersion' = None
  /\ cache' = << >>
  /\ asked' = 0
  /\ Return
  /\ UNCHANGED <<elsewhere, ingested, durable, again>>

CollectStep ==
  \/ Collect \/ LookUp \/ Snapshot \/ Store \/ PushLifecycle \/ FilterNew
  \/ PushSucceeds \/ PushFails \/ MarkDelivered

IssueNext ==
  \/ \E isIssue \in BOOLEAN : LoggedElsewhere(isIssue)
  \/ CollectStep
  \/ Restart

IssueSpec == IssueInit /\ [][IssueNext]_issueVars

(* The metrics ticker goes on.                                             *)
FairIssueSpec == IssueSpec /\ WF_issueVars(CollectStep)

(***************************************************************************)
(* Properties                                                              *)
(***************************************************************************)

(* Loki gets no issue twice, unless a push failed after Loki had taken it, *)
(* the daemon died before the mark was on disk, or a restart could not     *)
(* read or decode the seen cache's file and started with an empty one: not *)
(* after any other restart, and not because the seen cache has forgotten   *)
(* what the log still holds (seen_cache.go 45-117, daemon.go 117, 177 and  *)
(* logs.go 24).                                                            *)
NoIssueRedelivered == again = {}

(* No issue is lost to a mark: what the seen cache takes for delivered,    *)
(* in memory or after a restart, Loki has (analytics.go 36-50).            *)
MarkedIssuesIngested ==
  \A i \in 1 .. Len(order) + Len(disk) : (order \o disk)[i] \in ingested

(* The analytics cache is never stale: whatever was logged between looking *)
(* it up, taking the snapshot and storing what was selected from it, a     *)
(* version that would hit now has the issues of the log as it is now       *)
(* (analytics.go 23-31).                                                   *)
AnalyticsCacheCurrent == cacheVersion = version => cache = RetainedIssues

(* Every issue reaches Loki, or leaves the retained log first: failed      *)
(* pushes, failed marks and restarts are made good by a later collection   *)
(* (analytics.go 17-50).                                                   *)
IssuesReachLoki ==
  \A i \in IssueIds : Contains(RetainedIssues, i)
                 ~> (i \in ingested \/ ~Contains(RetainedIssues, i))
================================================================================
