---------------------------- MODULE InventoryCache ----------------------------
(***************************************************************************)
(* The runner inventory cache of provider/github/ci.go, shared by every    *)
(* provider of one GitHub target: listRunners with its two cache checks,   *)
(* its single-flight fetch and generation-checked store, and the           *)
(* suspension the reconciler puts around everything it changes on GitHub   *)
(* (internal/engine/reconciler.go).  The reconcile goroutine lists and     *)
(* mutates; the metrics goroutine lists, and falls back to stale data when *)
(* the API fails.                                                          *)
(*                                                                         *)
(* A listing is represented by how many of the scaler's own changes it     *)
(* shows.  A paged fetch shows at least those made before its first page.  *)
(***************************************************************************)
EXTENDS Integers

CONSTANTS
  RunnerCacheTTL,  \* runnerCacheTTL, in ticks
  RunnerStaleTTL,  \* runnerStaleTTL, in ticks
  MaxMutations,    \* bound: changes the scaler makes on GitHub
  MaxGeneration    \* bound: generation

ASSUME CacheAssumption ==
  /\ RunnerCacheTTL \in Nat
  /\ RunnerStaleTTL \in Nat
  /\ MaxMutations \in Nat
  /\ MaxGeneration \in Nat

Lister == {"reconcile", "metrics"}
NoOne == "none"

VARIABLES
  mutations,   \* GitHub: the scaler's changes to registrations so far
  cached,      \* runners, as the changes they show; Zero: fetchedAt is zero
  age,         \* ticks since fetchedAt
  suspended,   \* suspended
  generation,  \* generation
  fetchMu,     \* who holds fetchMu
  pc,          \* where each goroutine is in listRunners
  gen,         \* listRunners' generation
  got,         \* the listing a goroutine holds
  window,      \* reconciler: between suspend and resume
  listed,      \* reconciler: it decides from the listing in got
  resumedAt,   \* history: mutations at the last resume
  calledAt     \* history: resumedAt when a goroutine called listRunners

cacheVars == <<cached, age, suspended, generation>>
listVars == <<fetchMu, pc, gen, got, calledAt>>
passVars == <<window, listed, resumedAt>>
vars == <<mutations, cacheVars, listVars, passVars>>

Zero == -1
MaxAge == RunnerCacheTTL + RunnerStaleTTL + 1
Pcs == {"idle", "lock", "recheck", "generation", "fetch", "store"}

TypeOK ==
  /\ mutations \in Nat
  /\ cached \in Nat \cup {Zero}
  /\ age \in 0 .. MaxAge
  /\ suspended \in BOOLEAN
  /\ generation \in Nat
  /\ fetchMu \in Lister \cup {NoOne}
  /\ pc \in [Lister -> Pcs]
  /\ gen \in [Lister -> Nat]
  /\ got \in [Lister -> Nat \cup {Zero}]
  /\ window \in BOOLEAN
  /\ listed \in BOOLEAN
  /\ resumedAt \in Nat
  /\ calledAt \in [Lister -> Nat]

Init ==
  /\ mutations = 0
  /\ cached = Zero
  /\ age = 0
  /\ suspended = FALSE
  /\ generation = 0
  /\ fetchMu = NoOne
  /\ pc = [a \in Lister |-> "idle"]
  /\ gen = [a \in Lister |-> 0]
  /\ got = [a \in Lister |-> Zero]
  /\ window = FALSE
  /\ listed = FALSE
  /\ resumedAt = 0
  /\ calledAt = [a \in Lister |-> 0]

(***************************************************************************)
(* listRunners                                                             *)
(***************************************************************************)

(* cachedRunners(false): a fresh listing, and not within a suspension.     *)
FreshHit ==
  /\ cached # Zero
  /\ ~suspended
  /\ RunnerCacheTTL > 0 /\ age <= RunnerCacheTTL

(* cachedRunners(true): also a stale one, also within a suspension.        *)
StaleHit ==
  /\ cached # Zero
  /\ \/ RunnerCacheTTL > 0 /\ age <= RunnerCacheTTL
     \/ RunnerStaleTTL > 0 /\ age <= RunnerStaleTTL

(* listRunners returns listing v to a, which the reconciler decides from.  *)
Return(a, v) ==
  /\ pc' = [pc EXCEPT ![a] = "idle"]
  /\ got' = [got EXCEPT ![a] = v]
  /\ gen' = [gen EXCEPT ![a] = 0]
  /\ listed' = IF a = "reconcile" THEN v # Zero ELSE listed
  /\ UNCHANGED <<calledAt, window, resumedAt>>

(* Whether goroutine a calls listRunners now: the reconciler at the start  *)
(* of a pass, the metrics loop at any time.                                *)
Calls(a) == pc[a] = "idle" /\ (a = "reconcile" => ~window /\ ~listed)

CheckCache(a) ==
  /\ Calls(a)
  /\ calledAt' = [calledAt EXCEPT ![a] = resumedAt]
  /\ \/ /\ FreshHit
        /\ got' = [got EXCEPT ![a] = cached]
        /\ listed' = IF a = "reconcile" THEN TRUE ELSE listed
        /\ UNCHANGED pc
     \/ /\ ~FreshHit
        /\ pc' = [pc EXCEPT ![a] = "lock"]
        /\ got' = [got EXCEPT ![a] = Zero]
        /\ UNCHANGED listed
  /\ UNCHANGED <<mutations, cacheVars, fetchMu, gen, window, resumedAt>>

LockFetch(a) ==
  /\ pc[a] = "lock"
  /\ fetchMu = NoOne
  /\ fetchMu' = a
  /\ pc' = [pc EXCEPT ![a] = "recheck"]
  /\ UNCHANGED <<mutations, cacheVars, gen, got, calledAt, passVars>>

(* Mutant: a listing found under the lock sends the caller back to wait.   *)
RecheckAgain(a) ==
  /\ pc[a] = "recheck"
  /\ pc' = [pc EXCEPT ![a] = IF FreshHit THEN "lock" ELSE "generation"]
  /\ fetchMu' = IF FreshHit THEN NoOne ELSE fetchMu
  /\ UNCHANGED <<mutations, cacheVars, gen, got, calledAt, passVars>>

(* The second look, after whoever held fetchMu may have stored a listing.  *)
Recheck(a) ==
  /\ pc[a] = "recheck"
  /\ \/ /\ FreshHit
        /\ Return(a, cached)
        /\ fetchMu' = NoOne
     \/ /\ ~FreshHit
        /\ pc' = [pc EXCEPT ![a] = "generation"]
        /\ UNCHANGED <<fetchMu, gen, got, calledAt, passVars>>
  /\ UNCHANGED <<mutations, cacheVars>>

ReadGeneration(a) ==
  /\ pc[a] = "generation"
  /\ gen' = [gen EXCEPT ![a] = generation]
  /\ pc' = [pc EXCEPT ![a] = "fetch"]
  /\ UNCHANGED <<mutations, cacheVars, fetchMu, got, calledAt, passVars>>

(* fetchRunners: its first page.                                           *)
FetchRunners(a) ==
  /\ pc[a] = "fetch"
  /\ got' = [got EXCEPT ![a] = mutations]
  /\ pc' = [pc EXCEPT ![a] = "store"]
  /\ UNCHANGED <<mutations, cacheVars, fetchMu, gen, calledAt, passVars>>

(* Any page fails: metrics take a stale listing if there is one, the       *)
(* reconciler gets the error.                                              *)
FetchFails(a) ==
  /\ pc[a] \in {"fetch", "store"}
  /\ Return(a, IF a = "metrics" /\ StaleHit THEN cached ELSE Zero)
  /\ fetchMu' = NoOne
  /\ UNCHANGED <<mutations, cacheVars>>

(* Mutant: the listing is stored whatever the generation.                  *)
StoreAnyGeneration(a) ==
  /\ cached' = got[a]
  /\ age' = 0

(* storeRunnerCache drops a listing fetched under another generation.      *)
StoreRunnerCache(a) ==
  /\ cached' = IF generation = gen[a] THEN got[a] ELSE cached
  /\ age' = IF generation = gen[a] THEN 0 ELSE age

(* The last page has come: store, return.                                  *)
FetchDone(a) ==
  /\ pc[a] = "store"
  /\ StoreRunnerCache(a)
  /\ Return(a, got[a])
  /\ fetchMu' = NoOne
  /\ UNCHANGED <<mutations, suspended, generation>>

(***************************************************************************)
(* What the reconciler changes on GitHub                                   *)
(***************************************************************************)

(* invalidateRunnerCache, and what suspend and resume do as well.          *)
Invalidate ==
  /\ generation < MaxGeneration
  /\ generation' = generation + 1
  /\ cached' = Zero
  /\ age' = 0

(* scaleUp, scaleDown and ensureBaseline suspend the cache first; getting  *)
(* a token suspends it again.                                              *)
Suspend ==
  /\ listed
  /\ pc["reconcile"] = "idle"
  /\ suspended' = TRUE
  /\ Invalidate
  /\ window' = TRUE
  /\ UNCHANGED <<mutations, listVars, listed, resumedAt>>

(* A registration appears or goes: config.sh, config.sh remove or the API. *)
Mutate ==
  /\ window
  /\ mutations < MaxMutations
  /\ mutations' = mutations + 1
  /\ UNCHANGED <<cacheVars, listVars, passVars>>

(* DeleteRunner, after the API call.                                       *)
DeleteInvalidates ==
  /\ window
  /\ Invalidate
  /\ UNCHANGED <<mutations, suspended, listVars, passVars>>

(* Mutant: resume lifts the suspension and clears nothing.                 *)
ResumeUncleared ==
  /\ window
  /\ suspended' = FALSE
  /\ window' = FALSE
  /\ resumedAt' = mutations
  /\ UNCHANGED <<mutations, cached, age, generation, listVars, listed>>

Resume ==
  /\ window
  /\ suspended' = FALSE
  /\ Invalidate
  /\ window' = FALSE
  /\ resumedAt' = mutations
  /\ UNCHANGED <<mutations, listVars, listed>>

(* The pass is over; the next one lists again.                             *)
EndPass ==
  /\ listed
  /\ ~window
  /\ listed' = FALSE
  /\ UNCHANGED <<mutations, cacheVars, listVars, window, resumedAt>>

Tick ==
  /\ cached # Zero
  /\ age < MaxAge
  /\ age' = age + 1
  /\ UNCHANGED <<mutations, cached, suspended, generation, listVars, passVars>>

ListStep(a) ==
  \/ LockFetch(a) \/ Recheck(a) \/ ReadGeneration(a) \/ FetchRunners(a)
  \/ FetchFails(a) \/ FetchDone(a)

Next ==
  \/ \E a \in Lister : CheckCache(a) \/ ListStep(a)
  \/ Suspend \/ Mutate \/ DeleteInvalidates \/ Resume \/ EndPass
  \/ Tick

Spec == Init /\ [][Next]_vars

(* Goroutines are scheduled, and Go's mutex does not starve a waiter.  The *)
(* client has no timeout and the context no deadline (ci.go 61-67), so no  *)
(* request need ever end: the steps that wait for one are not fair.        *)
LocalStep(a) == Recheck(a) \/ ReadGeneration(a)

FairSpec ==
  /\ Spec
  /\ \A a \in Lister : WF_vars(LocalStep(a)) /\ SF_vars(LockFetch(a))

(***************************************************************************)
(* Properties                                                              *)
(***************************************************************************)

(* Before its pass has changed anything, the reconciler's listing shows    *)
(* every change the scaler ever made: no listing fetched before or during  *)
(* a mutation is cached past the suspension, whichever fetches of the      *)
(* metrics loop were under way (ci.go 193-222, 264-274, 433-462).          *)
DecidesOnOwnChanges ==
  listed /\ ~window => got["reconcile"] >= calledAt["reconcile"]

(* A cache hit the reconciler could take now shows every change so far.    *)
CacheShowsOwnChanges == FreshHit => cached = mutations

(* Metrics show every change made before they asked, stale fallback or not *)
(* (ci.go 207-217: nothing from before a suspension survives it).          *)
MetricsShowFinishedChanges ==
  pc["metrics"] = "idle" /\ got["metrics"] # Zero
    => got["metrics"] >= calledAt["metrics"]

(* If no request hangs for ever, every call returns: no path through the   *)
(* error returns, the rechecks or the stale fallback leaves fetchMu held   *)
(* (ci.go 198-217).  A request that does hang holds fetchMu, and with it   *)
(* every later call of both goroutines.                                    *)
RequestsEnd == \A a \in Lister : []<>(pc[a] \notin {"fetch", "store"})
ListingReturns == RequestsEnd => \A a \in Lister : pc[a] # "idle" ~> pc[a] = "idle"
================================================================================
