------------------------- MODULE InventoryCacheProofs -------------------------
(***************************************************************************)
(* Proofs about InventoryCache, for all TTLs and any number of changes:    *)
(* the reconciler's listing and the cache always show the scaler's own     *)
(* changes, and a listing that has begun only gets nearer to its return.   *)
(***************************************************************************)
EXTENDS InventoryCache, TLAPS

(* The cache is suspended exactly while the reconciler changes GitHub, and *)
(* outside of that nothing has changed since the last resume.              *)
WindowInv ==
  /\ suspended <=> window
  /\ resumedAt <= mutations
  /\ ~window => resumedAt = mutations
  /\ \A a \in Lister : calledAt[a] <= resumedAt

(* A cached listing is not older than the last resume, and complete when   *)
(* nothing is suspended.                                                   *)
CacheInv ==
  cached # Zero => resumedAt <= cached /\ (~suspended => cached = mutations)

(* So is the listing of a fetch whose generation still stands; any other   *)
(* fetch at least shows what was finished before its call.                 *)
FetchInv ==
  \A a \in Lister :
    /\ pc[a] \in {"fetch", "store"} => gen[a] <= generation
    /\ pc[a] = "store" => got[a] # Zero /\ calledAt[a] <= got[a]
    /\ pc[a] = "store" /\ gen[a] = generation
         => resumedAt <= got[a] /\ (~suspended => got[a] = mutations)
    /\ pc[a] = "idle" /\ got[a] # Zero => calledAt[a] <= got[a]

(* The reconciler has a listing while it decides and changes, and is then  *)
(* not inside listRunners.                                                 *)
PassInv ==
  /\ listed => got["reconcile"] # Zero /\ pc["reconcile"] = "idle"
  /\ window => listed

IInv == TypeOK /\ WindowInv /\ CacheInv /\ FetchInv /\ PassInv

LEMMA IInvInit == Init => IInv
<1> SUFFICES ASSUME Init PROVE IInv
  OBVIOUS
<1>1. /\ age \in 0 .. MaxAge /\ cached \in Nat \cup {Zero}
      /\ got \in [Lister -> Nat \cup {Zero}] /\ fetchMu \in Lister \cup {NoOne}
  BY CacheAssumption DEF Init, MaxAge
<1>2. TypeOK
  BY <1>1 DEF Init, TypeOK, Pcs
<1>3. WindowInv /\ CacheInv /\ FetchInv /\ PassInv
  BY DEF Init, WindowInv, CacheInv, FetchInv, PassInv
<1> QED BY <1>2, <1>3 DEF IInv

(* Returning a listing that shows what was finished before the call.       *)
LEMMA ReturnStep ==
  ASSUME IInv, NEW a \in Lister, NEW v \in Nat \cup {Zero},
         v # Zero => calledAt[a] <= v,
         pc[a] # "idle", Return(a, v),
         UNCHANGED <<mutations, suspended, generation>>,
         fetchMu' \in Lister \cup {NoOne}, age' \in 0 .. MaxAge,
         cached' \in Nat \cup {Zero},
         cached' # Zero => resumedAt <= cached' /\ (~suspended => cached' = mutations)
  PROVE  IInv'
<1> USE DEF IInv, Return
<1>1. TypeOK'
  BY DEF TypeOK, Pcs
<1>2. WindowInv'
  BY DEF WindowInv, TypeOK
<1>3. CacheInv'
  BY DEF CacheInv
<1>4. FetchInv'
  <2> SUFFICES ASSUME NEW b \in Lister
               PROVE  /\ pc'[b] \in {"fetch", "store"} => gen'[b] <= generation
                      /\ pc'[b] = "store" => got'[b] # Zero /\ calledAt[b] <= got'[b]
                      /\ pc'[b] = "store" /\ gen'[b] = generation
                           => resumedAt <= got'[b] /\ (~suspended => got'[b] = mutations)
                      /\ pc'[b] = "idle" /\ got'[b] # Zero => calledAt[b] <= got'[b]
    BY DEF FetchInv
  <2>1. CASE b = a
    BY <2>1 DEF TypeOK
  <2>2. CASE b # a
    <3>1. pc'[b] = pc[b] /\ gen'[b] = gen[b] /\ got'[b] = got[b]
      BY <2>2 DEF TypeOK
    <3> QED BY <3>1 DEF FetchInv
  <2> QED BY <2>1, <2>2
<1>5. PassInv'
  BY DEF PassInv, TypeOK, Lister
<1> QED BY <1>1, <1>2, <1>3, <1>4, <1>5

LEMMA IInvStep == IInv /\ [Next]_vars => IInv'
<1> SUFFICES ASSUME IInv, [Next]_vars PROVE IInv'
  OBVIOUS
<1> USE DEF cacheVars, listVars, passVars
<1>1. CASE UNCHANGED vars
  BY <1>1 DEF IInv, TypeOK, WindowInv, CacheInv, FetchInv, PassInv, vars
<1>2. ASSUME NEW a \in Lister, CheckCache(a) PROVE IInv'
  <2>1. CASE FreshHit
    <3>1. cached = mutations /\ cached \in Nat /\ resumedAt <= cached /\ cached # Zero
      BY <2>1 DEF FreshHit, IInv, TypeOK, CacheInv
    <3>2. /\ got' = [got EXCEPT ![a] = cached] /\ calledAt' = [calledAt EXCEPT ![a] = resumedAt]
          /\ listed' = IF a = "reconcile" THEN TRUE ELSE listed
          /\ pc[a] = "idle" /\ (a = "reconcile" => ~window /\ ~listed)
          /\ UNCHANGED <<pc, mutations, cacheVars, fetchMu, gen, window, resumedAt>>
      BY <1>2, <2>1 DEF CheckCache, Calls
    <3>3. TypeOK'
      BY <3>1, <3>2 DEF IInv, TypeOK
    <3>4. WindowInv' /\ CacheInv'
      BY <3>1, <3>2 DEF IInv, TypeOK, WindowInv, CacheInv
    <3>5. FetchInv'
      BY <3>1, <3>2 DEF IInv, TypeOK, FetchInv
    <3>6. PassInv'
      BY <3>1, <3>2 DEF IInv, TypeOK, PassInv, Lister
    <3> QED BY <3>3, <3>4, <3>5, <3>6 DEF IInv
  <2>2. CASE ~FreshHit
    <3>1. /\ pc' = [pc EXCEPT ![a] = "lock"] /\ got' = [got EXCEPT ![a] = Zero]
          /\ calledAt' = [calledAt EXCEPT ![a] = resumedAt]
          /\ a = "reconcile" => ~window /\ ~listed
          /\ UNCHANGED <<listed, mutations, cacheVars, fetchMu, gen, window, resumedAt>>
      BY <1>2, <2>2 DEF CheckCache, Calls
    <3>2. TypeOK'
      BY <3>1 DEF IInv, TypeOK, Pcs
    <3>3. WindowInv' /\ CacheInv'
      BY <3>1 DEF IInv, TypeOK, WindowInv, CacheInv
    <3>4. FetchInv'
      BY <3>1 DEF IInv, TypeOK, FetchInv
    <3>5. PassInv'
      BY <3>1 DEF IInv, TypeOK, PassInv, Lister
    <3> QED BY <3>2, <3>3, <3>4, <3>5 DEF IInv
  <2> QED BY <2>1, <2>2
<1>3. ASSUME NEW a \in Lister, LockFetch(a) PROVE IInv'
  BY <1>3 DEF LockFetch, IInv, TypeOK, WindowInv, CacheInv, FetchInv, PassInv, Lister, Pcs
<1>4. ASSUME NEW a \in Lister, Recheck(a) PROVE IInv'
  <2>1. CASE FreshHit /\ Return(a, cached) /\ fetchMu' = NoOne
    <3>1. cached \in Nat /\ calledAt[a] <= cached
      BY <2>1 DEF FreshHit, IInv, TypeOK, WindowInv, CacheInv
    <3> QED BY <1>4, <2>1, <3>1, ReturnStep DEF Recheck, IInv, TypeOK, CacheInv, FreshHit
  <2>2. CASE ~FreshHit /\ pc' = [pc EXCEPT ![a] = "generation"]
             /\ UNCHANGED <<fetchMu, gen, got, calledAt, passVars>>
    BY <1>4, <2>2 DEF Recheck, IInv, TypeOK, WindowInv, CacheInv, FetchInv, PassInv, Lister, Pcs
  <2> QED BY <1>4, <2>1, <2>2 DEF Recheck
<1>5. ASSUME NEW a \in Lister, ReadGeneration(a) PROVE IInv'
  BY <1>5 DEF ReadGeneration, IInv, TypeOK, WindowInv, CacheInv, FetchInv, PassInv, Lister, Pcs
<1>6. ASSUME NEW a \in Lister, FetchRunners(a) PROVE IInv'
  BY <1>6 DEF FetchRunners, IInv, TypeOK, WindowInv, CacheInv, FetchInv, PassInv, Lister, Pcs, Zero
<1>7. ASSUME NEW a \in Lister, FetchFails(a) PROVE IInv'
  <2> DEFINE v == IF a = "metrics" /\ StaleHit THEN cached ELSE Zero
  <2>1. v \in Nat \cup {Zero} /\ (v # Zero => calledAt[a] <= v)
    BY DEF StaleHit, IInv, TypeOK, WindowInv, CacheInv, Zero
  <2>2. Return(a, v) /\ fetchMu' = NoOne /\ UNCHANGED <<mutations, cacheVars>> /\ pc[a] # "idle"
    BY <1>7 DEF FetchFails
  <2> HIDE DEF v
  <2> QED BY <2>1, <2>2, ReturnStep DEF IInv, TypeOK, CacheInv
<1>8. ASSUME NEW a \in Lister, FetchDone(a) PROVE IInv'
  <2>1. got[a] \in Nat /\ calledAt[a] <= got[a] /\ pc[a] # "idle"
    BY <1>8 DEF FetchDone, IInv, TypeOK, FetchInv
  <2>2. /\ cached' \in Nat \cup {Zero} /\ age' \in 0 .. MaxAge
        /\ cached' # Zero => resumedAt <= cached' /\ (~suspended => cached' = mutations)
    BY <1>8, <2>1, CacheAssumption
    DEF FetchDone, StoreRunnerCache, IInv, TypeOK, FetchInv, CacheInv, MaxAge
  <2> QED BY <1>8, <2>1, <2>2, ReturnStep DEF FetchDone
<1>9. CASE Suspend
  BY <1>9, CacheAssumption
  DEF Suspend, Invalidate, IInv, TypeOK, WindowInv, CacheInv, FetchInv, PassInv, Lister, MaxAge
<1>10. CASE Mutate
  BY <1>10 DEF Mutate, IInv, TypeOK, WindowInv, CacheInv, FetchInv, PassInv
<1>11. CASE DeleteInvalidates
  BY <1>11, CacheAssumption
  DEF DeleteInvalidates, Invalidate, IInv, TypeOK, WindowInv, CacheInv, FetchInv, PassInv, MaxAge
<1>12. CASE Resume
  <2>1. /\ window /\ window' = FALSE /\ suspended' = FALSE /\ resumedAt' = mutations
        /\ generation' = generation + 1 /\ cached' = Zero /\ age' = 0
        /\ UNCHANGED <<mutations, listVars, listed>>
    BY <1>12 DEF Resume, Invalidate
  <2>2. TypeOK'
    <3>1. 0 \in 0 .. MaxAge
      BY CacheAssumption DEF MaxAge
    <3>2. generation' \in Nat /\ cached' \in Nat \cup {Zero} /\ resumedAt' \in Nat /\ age' \in 0 .. MaxAge
      BY <2>1, <3>1 DEF IInv, TypeOK
    <3>3. window' \in BOOLEAN /\ suspended' \in BOOLEAN
      BY <2>1
    <3>4. UNCHANGED <<mutations, fetchMu, pc, gen, got, calledAt, listed>>
      BY <2>1
    <3> QED BY <3>2, <3>3, <3>4 DEF IInv, TypeOK
  <2>3. WindowInv' /\ CacheInv' /\ PassInv'
    BY <2>1 DEF IInv, TypeOK, WindowInv, CacheInv, PassInv
  <2>4. FetchInv'
    BY <2>1 DEF IInv, TypeOK, FetchInv
  <2> QED BY <2>2, <2>3, <2>4 DEF IInv
<1>13. CASE EndPass
  BY <1>13 DEF EndPass, IInv, TypeOK, WindowInv, CacheInv, FetchInv, PassInv
<1>14. CASE Tick
  BY <1>14, CacheAssumption DEF Tick, IInv, TypeOK, WindowInv, CacheInv, FetchInv, PassInv, MaxAge
<1> QED BY <1>1, <1>2, <1>3, <1>4, <1>5, <1>6, <1>7, <1>8, <1>9, <1>10, <1>11, <1>12, <1>13,
          <1>14 DEF Next, ListStep

(* Every variable of the cache and of its users keeps its type.            *)
THEOREM InventoryTypeCorrect == Spec => []TypeOK
<1>1. IInv => TypeOK
  BY DEF IInv
<1> QED BY <1>1, IInvInit, IInvStep, PTL DEF Spec

(* The reconciler never decides on a listing that misses a change of its   *)
(* own: every pass's listing shows all changes made before it was asked    *)
(* for, cached or fetched, with any metrics fetch racing it.               *)
THEOREM ReconcilerReadsItsOwnWrites == Spec => []DecidesOnOwnChanges
<1>1. IInv => DecidesOnOwnChanges
  BY DEF IInv, TypeOK, FetchInv, PassInv, DecidesOnOwnChanges, Lister
<1> QED BY <1>1, IInvInit, IInvStep, PTL DEF Spec

(* Nor is there, at any moment outside a suspension, a usable cache entry  *)
(* that misses one.                                                        *)
THEOREM CacheNeverHidesOwnChanges == Spec => []CacheShowsOwnChanges
<1>1. IInv => CacheShowsOwnChanges
  BY DEF IInv, CacheInv, CacheShowsOwnChanges, FreshHit
<1> QED BY <1>1, IInvInit, IInvStep, PTL DEF Spec

(* Metrics, the stale fallback included, show every change finished before *)
(* they asked.                                                             *)
THEOREM MetricsReadFinishedChanges == Spec => []MetricsShowFinishedChanges
<1>1. IInv => MetricsShowFinishedChanges
  BY DEF IInv, FetchInv, MetricsShowFinishedChanges, Lister
<1> QED BY <1>1, IInvInit, IInvStep, PTL DEF Spec

(***************************************************************************)
(* fetchMu and the way of a call                                           *)
(***************************************************************************)
Holding == {"recheck", "generation", "fetch", "store"}

(* fetchMu is held by the goroutine between its lock and its return, and   *)
(* by no one else.                                                         *)
LockHeldByFetcher ==
  \A a \in Lister : fetchMu = a <=> pc[a] \in Holding

(* The steps left of a call.                                               *)
StepsLeft(a) ==
  IF pc[a] = "lock" THEN 5
  ELSE IF pc[a] = "recheck" THEN 4
  ELSE IF pc[a] = "generation" THEN 3
  ELSE IF pc[a] = "fetch" THEN 2
  ELSE IF pc[a] = "store" THEN 1 ELSE 0

CallsGetShorter ==
  [][\A a \in Lister : pc[a] # "idle" =>
       \/ ListStep(a) /\ StepsLeft(a)' < StepsLeft(a)
       \/ pc'[a] = pc[a]]_vars

LEMMA LockStep == TypeOK /\ LockHeldByFetcher /\ [Next]_vars => LockHeldByFetcher'
<1> SUFFICES ASSUME TypeOK, LockHeldByFetcher, [Next]_vars PROVE LockHeldByFetcher'
  OBVIOUS
<1> USE DEF listVars, Holding
<1>0. NoOne \notin Lister
  BY DEF NoOne, Lister
<1>1. CASE UNCHANGED listVars
  BY <1>1 DEF LockHeldByFetcher
<1>2. ASSUME NEW a \in Lister, CheckCache(a) PROVE LockHeldByFetcher'
  <2>1. /\ pc[a] = "idle" /\ fetchMu' = fetchMu
        /\ pc' = pc \/ pc' = [pc EXCEPT ![a] = "lock"]
    BY <1>2 DEF CheckCache, Calls
  <2> QED BY <2>1 DEF LockHeldByFetcher, TypeOK
<1>3. ASSUME NEW a \in Lister, LockFetch(a) PROVE LockHeldByFetcher'
  <2>1. /\ pc[a] = "lock" /\ fetchMu = NoOne /\ fetchMu' = a
        /\ pc' = [pc EXCEPT ![a] = "recheck"]
    BY <1>3 DEF LockFetch
  <2> QED BY <1>0, <2>1 DEF LockHeldByFetcher, TypeOK
<1>4. ASSUME NEW a \in Lister, pc[a] \in Holding, fetchMu' = NoOne,
             pc' = [pc EXCEPT ![a] = "idle"]
      PROVE  LockHeldByFetcher'
  <2>1. fetchMu = a
    BY <1>4 DEF LockHeldByFetcher
  <2> QED BY <1>0, <1>4, <2>1 DEF LockHeldByFetcher, TypeOK
<1>5. ASSUME NEW a \in Lister, pc[a] \in Holding, fetchMu' = fetchMu, NEW p \in Holding,
             pc' = [pc EXCEPT ![a] = p]
      PROVE  LockHeldByFetcher'
  BY <1>5 DEF LockHeldByFetcher, TypeOK
<1>6. ASSUME NEW a \in Lister, Recheck(a) \/ ReadGeneration(a) \/ FetchRunners(a)
      PROVE  LockHeldByFetcher'
  BY <1>4, <1>5, <1>6 DEF Recheck, ReadGeneration, FetchRunners, Return
<1>7. ASSUME NEW a \in Lister, FetchFails(a) \/ FetchDone(a) PROVE LockHeldByFetcher'
  BY <1>4, <1>7 DEF FetchFails, FetchDone, Return
<1>8. CASE Suspend \/ Mutate \/ DeleteInvalidates \/ Resume \/ EndPass \/ Tick \/ UNCHANGED vars
  BY <1>1, <1>8 DEF Suspend, Mutate, DeleteInvalidates, Resume, EndPass, Tick, vars
<1> QED BY <1>2, <1>3, <1>6, <1>7, <1>8 DEF Next, ListStep

(* A step on the way of another goroutine's call leaves this one's.        *)
LEMMA CallStep ==
  ASSUME TypeOK, [Next]_vars, NEW a \in Lister, pc[a] # "idle"
  PROVE  (ListStep(a) /\ StepsLeft(a)' < StepsLeft(a)) \/ pc'[a] = pc[a]
<1>1. CASE ListStep(a)
  <2> USE DEF TypeOK, StepsLeft
  <2>1. CASE LockFetch(a) \/ ReadGeneration(a) \/ FetchRunners(a)
    BY <1>1, <2>1 DEF LockFetch, ReadGeneration, FetchRunners
  <2>2. CASE Recheck(a)
    BY <1>1, <2>2 DEF Recheck, Return
  <2>3. CASE FetchFails(a) \/ FetchDone(a)
    BY <1>1, <2>3 DEF FetchFails, FetchDone, Return
  <2> QED BY <1>1, <2>1, <2>2, <2>3 DEF ListStep
<1>2. ASSUME NEW b \in Lister, CheckCache(b) \/ ListStep(b), b # a PROVE pc'[a] = pc[a]
  <2>1. pc' = pc \/ \E p \in Pcs : pc' = [pc EXCEPT ![b] = p]
    BY <1>2 DEF CheckCache, ListStep, LockFetch, Recheck, ReadGeneration, FetchRunners,
       FetchFails, FetchDone, Return, Pcs
  <2> QED BY <1>2, <2>1 DEF TypeOK
<1>3. ~CheckCache(a)
  BY DEF CheckCache, Calls
<1>4. CASE Suspend \/ Mutate \/ DeleteInvalidates \/ Resume \/ EndPass \/ Tick \/ UNCHANGED vars
  BY <1>4 DEF Suspend, Mutate, DeleteInvalidates, Resume, EndPass, Tick, vars, listVars
<1> QED BY <1>1, <1>2, <1>3, <1>4 DEF Next

(* At most one goroutine fetches, every path out of listRunners (the hit   *)
(* under the lock, the error with and without stale data, the store) gives *)
(* fetchMu back, and a call only ever moves towards its return, in at most *)
(* five steps: whoever waits at the lock waits for a goroutine that is on  *)
(* its way out (ci.go 193-222).  To ListingReturns only the fairness of    *)
(* requests and of the mutex is left.                                      *)
THEOREM ListingsMakeProgress == Spec => []LockHeldByFetcher /\ CallsGetShorter
<1> DEFINE Shorter == \A a \in Lister : pc[a] # "idle" =>
                        \/ ListStep(a) /\ StepsLeft(a)' < StepsLeft(a)
                        \/ pc'[a] = pc[a]
<1>1. Init => LockHeldByFetcher
  BY DEF Init, LockHeldByFetcher, Holding, Lister, NoOne
<1>2. TypeOK /\ [Next]_vars => [Shorter]_vars
  BY CallStep
<1> HIDE DEF Shorter
<1>3. Spec => []LockHeldByFetcher /\ [][Shorter]_vars
  BY <1>1, <1>2, LockStep, InventoryTypeCorrect, PTL DEF Spec
<1>4. [][Shorter]_vars <=> CallsGetShorter
  BY DEF Shorter, CallsGetShorter
<1> QED BY <1>3, <1>4, PTL
===============================================================================
