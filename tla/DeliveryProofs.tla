----------------------------- MODULE DeliveryProofs -----------------------------
(***************************************************************************)
(* Proofs about what Loki is given: issue events (IssueDelivery) and       *)
(* workflow runs (WorkflowDelivery), which use the seen cache alike.       *)
(***************************************************************************)
EXTENDS IssueDelivery, WorkflowDelivery, SequenceTheorems, FiniteSetTheorems,
        WellFoundedInduction, TLAPS

(***************************************************************************)
(* The loop of the seen cache                                              *)
(***************************************************************************)
LEMMA LeastMember ==
  ASSUME NEW T \in SUBSET Nat, T # {}
  PROVE  \E x \in T : \A y \in T : ~(y < x)
<1> DEFINE R == OpToRel(<, Nat)
<1>1. IsWellFoundedOn(R, Nat)
  BY NatLessThanWellFounded
<1>2. \A x, y \in Nat : <<y, x>> \in R <=> y < x
  BY DEF OpToRel
<1> HIDE DEF R
<1>3. \E x \in T : \A y \in T : ~(<<y, x>> \in R)
  BY <1>1, WFMin
<1> QED BY <1>2, <1>3

(* A set that has 0 and, with a number below n, the next one, has all      *)
(* numbers up to n.                                                        *)
LEMMA UpTo ==
  ASSUME NEW n \in Nat, NEW S, 0 \in S, \A i \in 1 .. n : i - 1 \in S => i \in S
  PROVE  \A i \in 0 .. n : i \in S
<1> DEFINE T == {i \in 0 .. n : i \notin S}
<1> SUFFICES ASSUME T # {} PROVE FALSE
  OBVIOUS
<1>1. T \in SUBSET Nat
  OBVIOUS
<1> HIDE DEF T
<1>2. PICK x \in T : \A y \in T : ~(y < x)
  BY <1>1, LeastMember
<1>3. x \in 1 .. n /\ x - 1 \in 0 .. n /\ x - 1 < x /\ x \notin S
  BY <1>2 DEF T
<1>4. x - 1 \in S
  BY <1>2, <1>3 DEF T
<1> QED BY <1>3, <1>4

(* An item is passed over if its key is seen or came up before.            *)
Passed(keys, seen, i) == keys[i] \in seen \/ \E j \in 1 .. i - 1 : keys[j] = keys[i]

(* One turn of the loop.                                                   *)
Turn(items, keys, seen, f, i) ==
  IF i = 0 THEN << >>
  ELSE IF Passed(keys, seen, i) THEN f[i - 1] ELSE Append(f[i - 1], items[i])

(* The loop has run: f[i] is what it has kept after i turns.               *)
Loop(items, keys, seen, f, n) == f = [i \in 0 .. n |-> Turn(items, keys, seen, f, i)]

LEMMA LoopRuns ==
  ASSUME NEW items, NEW keys, NEW seen, NEW n \in Nat
  PROVE  \E f : Loop(items, keys, seen, f, n)
<1> DEFINE S == {m \in 0 .. n : \E f : Loop(items, keys, seen, f, m)}
<1>1. 0 \in S
  <2> DEFINE g == [i \in 0 .. 0 |-> << >>]
  <2>1. g = [i \in 0 .. 0 |-> Turn(items, keys, seen, g, i)]
    BY DEF Turn
  <2> QED BY <2>1 DEF Loop
<1>2. ASSUME NEW m \in 1 .. n, m - 1 \in S PROVE m \in S
  <2>1. PICK f : Loop(items, keys, seen, f, m - 1)
    BY <1>2
  <2>2. \A i \in 0 .. m - 1 : f[i] = Turn(items, keys, seen, f, i)
    BY <2>1 DEF Loop
  <2> DEFINE g == [i \in 0 .. m |-> IF i < m THEN f[i] ELSE Turn(items, keys, seen, f, m)]
  <2>3. ASSUME NEW i \in 0 .. m PROVE g[i] = Turn(items, keys, seen, g, i)
    <3>1. i # 0 => g[i - 1] = f[i - 1]
      OBVIOUS
    <3>2. Turn(items, keys, seen, g, i) = Turn(items, keys, seen, f, i)
      BY <3>1 DEF Turn
    <3>3. i < m => i \in 0 .. m - 1
      OBVIOUS
    <3>4. ~(i < m) => i = m
      OBVIOUS
    <3> QED BY <2>2, <3>2, <3>3, <3>4
  <2>4. Loop(items, keys, seen, g, m)
    BY <2>3 DEF Loop
  <2> HIDE DEF g
  <2> QED BY <2>4
<1> HIDE DEF S
<1>3. n \in S
  BY <1>1, <1>2, UpTo
<1> QED BY <1>3 DEF S

LEMMA UnseenLoops ==
  ASSUME NEW V, NEW items \in Seq(V), NEW keys, NEW seen
  PROVE  \E f : /\ Loop(items, keys, seen, f, Len(items))
                /\ Unseen(items, keys, seen) = f[Len(items)]
<1>1. Len(items) \in Nat
  BY LenProperties
<1> DEFINE f == CHOOSE f : Loop(items, keys, seen, f, Len(items))
<1>2. Loop(items, keys, seen, f, Len(items))
  BY <1>1, LoopRuns
<1>3. Unseen(items, keys, seen) = f[Len(items)]
  BY DEF Unseen, Loop, Turn, Passed
<1> HIDE DEF f
<1> QED BY <1>2, <1>3

(* What the loop keeps of the first n items: those at the positions at[k], *)
(* in order, which are not passed over; no other key is unseen.            *)
Selection(items, keys, seen, n, kept, at) ==
  /\ at \in [1 .. Len(kept) -> 1 .. n]
  /\ \A k, l \in 1 .. Len(kept) : k < l => at[k] < at[l]
  /\ \A k \in 1 .. Len(kept) : kept[k] = items[at[k]] /\ ~Passed(keys, seen, at[k])
  /\ \A i \in 1 .. n : keys[i] \in seen \/ \E k \in 1 .. Len(kept) : keys[at[k]] = keys[i]

LEMMA SelectionPasses ==
  ASSUME NEW items, NEW keys, NEW seen, NEW n \in Nat, n # 0, NEW V, NEW kept \in Seq(V), NEW at,
         Selection(items, keys, seen, n - 1, kept, at), Passed(keys, seen, n)
  PROVE  Selection(items, keys, seen, n, kept, at)
<1>1. Len(kept) \in Nat
  BY LenProperties
<1>2. at \in [1 .. Len(kept) -> 1 .. n]
  BY <1>1 DEF Selection
<1>3. ASSUME NEW i \in 1 .. n
      PROVE  keys[i] \in seen \/ \E k \in 1 .. Len(kept) : keys[at[k]] = keys[i]
  <2>1. CASE i \in 1 .. n - 1
    BY <2>1 DEF Selection
  <2>2. CASE i = n
    BY <2>2 DEF Selection, Passed
  <2> QED BY <2>1, <2>2
<1> QED BY <1>2, <1>3 DEF Selection

LEMMA SelectionKeeps ==
  ASSUME NEW items, NEW keys, NEW seen, NEW n \in Nat, n # 0, NEW V, NEW kept \in Seq(V), NEW at,
         items[n] \in V, Selection(items, keys, seen, n - 1, kept, at), ~Passed(keys, seen, n)
  PROVE  \E to : Selection(items, keys, seen, n, Append(kept, items[n]), to)
<1> DEFINE m == Len(kept)
           all == Append(kept, items[n])
           to == [k \in 1 .. m + 1 |-> IF k <= m THEN at[k] ELSE n]
<1>1. m \in Nat
  BY LenProperties
<1>2. Len(all) = m + 1 /\ (\A k \in 1 .. m : all[k] = kept[k]) /\ all[m + 1] = items[n]
  BY AppendProperties
<1>3. \A k \in 1 .. m : at[k] \in 1 .. n - 1 /\ kept[k] = items[at[k]] /\ ~Passed(keys, seen, at[k])
  BY DEF Selection
<1>4. \A k, l \in 1 .. m : k < l => at[k] < at[l]
  BY DEF Selection
<1>5. \A i \in 1 .. n - 1 : keys[i] \in seen \/ \E k \in 1 .. m : keys[at[k]] = keys[i]
  BY DEF Selection
<1> HIDE DEF m, all
<1>6. \A k \in 1 .. m : to[k] = at[k]
  BY <1>1
<1>7. to[m + 1] = n /\ to \in [1 .. m + 1 -> 1 .. n]
  BY <1>1, <1>3
<1> HIDE DEF to
<1>8. ASSUME NEW k \in 1 .. m + 1, NEW l \in 1 .. m + 1, k < l PROVE to[k] < to[l]
  <2>1. k \in 1 .. m /\ (l \in 1 .. m \/ l = m + 1)
    BY <1>1, <1>8
  <2> QED BY <1>3, <1>4, <1>6, <1>7, <1>8, <2>1
<1>9. ASSUME NEW k \in 1 .. m + 1 PROVE all[k] = items[to[k]] /\ ~Passed(keys, seen, to[k])
  <2>1. k \in 1 .. m \/ k = m + 1
    BY <1>1
  <2> QED BY <1>2, <1>3, <1>6, <1>7, <2>1
<1>10. ASSUME NEW i \in 1 .. n
       PROVE  keys[i] \in seen \/ \E k \in 1 .. m + 1 : keys[to[k]] = keys[i]
  <2>1. CASE i = n
    <3>1. m + 1 \in 1 .. m + 1
      BY <1>1
    <3> QED BY <1>7, <2>1, <3>1
  <2>2. CASE i \in 1 .. n - 1
    <3>1. \A k \in 1 .. m : k \in 1 .. m + 1
      BY <1>1
    <3> QED BY <1>5, <1>6, <2>2, <3>1
  <2> QED BY <2>1, <2>2
<1>11. Selection(items, keys, seen, n, all, to)
  BY <1>2, <1>7, <1>8, <1>9, <1>10 DEF Selection
<1> QED BY <1>11 DEF all

LEMMA UnseenSelects ==
  ASSUME NEW V, NEW items \in Seq(V), NEW keys, NEW seen
  PROVE  /\ Unseen(items, keys, seen) \in Seq(V)
         /\ \E at : Selection(items, keys, seen, Len(items), Unseen(items, keys, seen), at)
<1> DEFINE n == Len(items)
<1>1. PICK f : Loop(items, keys, seen, f, n) /\ Unseen(items, keys, seen) = f[n]
  BY UnseenLoops
<1>2. n \in Nat /\ \A i \in 1 .. n : items[i] \in V
  BY LenProperties, ElementOfSeq
<1> HIDE DEF n
<1> DEFINE S == {i \in 0 .. n : /\ f[i] \in Seq(V)
                                /\ \E at : Selection(items, keys, seen, i, f[i], at)}
<1>3. \A i \in 0 .. n : f[i] = Turn(items, keys, seen, f, i)
  BY <1>1 DEF Loop
<1>4. 0 \in S
  <2>1. f[0] = << >>
    BY <1>2, <1>3 DEF Turn
  <2>2. << >> \in Seq(V) /\ Len(<< >>) = 0
    BY EmptySeq
  <2>3. Selection(items, keys, seen, 0, << >>, << >>)
    <3>1. 1 .. 0 = {}
      OBVIOUS
    <3>2. << >> \in [1 .. 0 -> 1 .. 0]
      BY <3>1
    <3> QED BY <2>2, <3>1, <3>2 DEF Selection
  <2>4. f[0] \in Seq(V) /\ \E at : Selection(items, keys, seen, 0, f[0], at)
    BY <2>1, <2>2, <2>3
  <2>5. 0 \in 0 .. n
    BY <1>2
  <2> QED BY <2>4, <2>5
<1>5. ASSUME NEW i \in 1 .. n, i - 1 \in S PROVE i \in S
  <2>1. i \in 0 .. n /\ i \in Nat /\ i # 0 /\ items[i] \in V
    BY <1>2
  <2>2. f[i - 1] \in Seq(V)
    BY <1>5
  <2>3. PICK at : Selection(items, keys, seen, i - 1, f[i - 1], at)
    BY <1>5
  <2> HIDE DEF S
  <2>4. CASE Passed(keys, seen, i)
    <3>1. f[i] = f[i - 1]
      BY <1>3, <2>1, <2>4 DEF Turn
    <3>2. Selection(items, keys, seen, i, f[i], at)
      BY <2>1, <2>2, <2>3, <2>4, <3>1, SelectionPasses
    <3> QED BY <2>1, <2>2, <3>1, <3>2 DEF S
  <2>5. CASE ~Passed(keys, seen, i)
    <3>1. f[i] = Append(f[i - 1], items[i])
      BY <1>3, <2>1, <2>5 DEF Turn
    <3>2. f[i] \in Seq(V)
      BY <2>1, <2>2, <3>1, AppendProperties
    <3>3. \E to : Selection(items, keys, seen, i, f[i], to)
      BY <2>1, <2>2, <2>3, <2>5, <3>1, SelectionKeeps
    <3> QED BY <2>1, <3>2, <3>3 DEF S
  <2> QED BY <2>4, <2>5
<1> HIDE DEF S
<1>6. \A i \in 0 .. n : i \in S
  BY <1>2, <1>4, <1>5, UpTo
<1>7. n \in S
  BY <1>2, <1>6
<1> QED BY <1>1, <1>7 DEF S, n

LEMMA ToSetMeans ==
  ASSUME NEW V, NEW s \in Seq(V)
  PROVE  /\ Len(s) \in Nat
         /\ DOMAIN s = 1 .. Len(s)
         /\ \A x : x \in ToSet(s) <=> \E i \in 1 .. Len(s) : s[i] = x
         /\ ToSet(s) \subseteq V
         /\ \A i \in 1 .. Len(s) : s[i] \in V /\ s[i] \in ToSet(s)
BY LenProperties, ElementOfSeq DEF ToSet

LEMMA ToSetEmpty == ToSet(<< >>) = {}
BY EmptySeq DEF ToSet

LEMMA ToSetAppend ==
  ASSUME NEW V, NEW s \in Seq(V), NEW e \in V
  PROVE  Append(s, e) \in Seq(V) /\ ToSet(Append(s, e)) = ToSet(s) \cup {e}
<1> DEFINE t == Append(s, e)
<1>1. t \in Seq(V) /\ Len(t) = Len(s) + 1 /\ (\A i \in 1 .. Len(s) : t[i] = s[i])
      /\ t[Len(s) + 1] = e
  BY AppendProperties
<1>2. \A x : x \in ToSet(t) <=> \E i \in 1 .. Len(t) : t[i] = x
  BY <1>1, ToSetMeans
<1>3. Len(s) \in Nat /\ \A x : x \in ToSet(s) <=> \E i \in 1 .. Len(s) : s[i] = x
  BY ToSetMeans
<1> HIDE DEF t
<1>4. 1 .. Len(t) = (1 .. Len(s)) \cup {Len(s) + 1}
  BY <1>1, <1>3
<1>5. \A x : x \in ToSet(t) <=> x \in ToSet(s) \/ x = e
  BY <1>1, <1>2, <1>3, <1>4
<1>6. ToSet(t) = ToSet(s) \cup {e}
  BY <1>5
<1> QED BY <1>1, <1>6 DEF t

LEMMA ToSetConcat ==
  ASSUME NEW V, NEW s \in Seq(V), NEW t \in Seq(V)
  PROVE  ToSet(s \o t) = ToSet(s) \cup ToSet(t)
<1> DEFINE u == s \o t
<1>1. u \in Seq(V) /\ Len(u) = Len(s) + Len(t)
      /\ \A i \in 1 .. Len(s) + Len(t) : u[i] = IF i <= Len(s) THEN s[i] ELSE t[i - Len(s)]
  BY ConcatProperties
<1>2. \A x : x \in ToSet(u) <=> \E i \in 1 .. Len(u) : u[i] = x
  BY <1>1, ToSetMeans
<1>3. /\ Len(s) \in Nat /\ Len(t) \in Nat
      /\ \A x : x \in ToSet(s) <=> \E i \in 1 .. Len(s) : s[i] = x
      /\ \A x : x \in ToSet(t) <=> \E i \in 1 .. Len(t) : t[i] = x
  BY ToSetMeans
<1> HIDE DEF u
<1>4. ASSUME NEW x \in ToSet(u) PROVE x \in ToSet(s) \cup ToSet(t)
  <2>1. PICK i \in 1 .. Len(u) : u[i] = x
    BY <1>2
  <2>2. CASE i <= Len(s)
    BY <1>1, <1>3, <2>1, <2>2
  <2>3. CASE ~(i <= Len(s))
    <3>1. i - Len(s) \in 1 .. Len(t) /\ i \in 1 .. Len(s) + Len(t)
      BY <1>1, <1>3, <2>3
    <3>2. t[i - Len(s)] = x
      BY <1>1, <2>1, <2>3, <3>1
    <3> QED BY <1>3, <3>1, <3>2
  <2> QED BY <2>2, <2>3
<1>5. ASSUME NEW x \in ToSet(s) PROVE x \in ToSet(u)
  BY <1>1, <1>2, <1>3
<1>6. ASSUME NEW x \in ToSet(t) PROVE x \in ToSet(u)
  <2>1. PICK i \in 1 .. Len(t) : t[i] = x
    BY <1>3
  <2>2. i + Len(s) \in 1 .. Len(s) + Len(t) /\ ~(i + Len(s) <= Len(s)) /\ i + Len(s) - Len(s) = i
    BY <1>3
  <2>3. u[i + Len(s)] = x
    BY <1>1, <2>1, <2>2
  <2> QED BY <1>1, <1>2, <2>2, <2>3
<1>7. ToSet(u) = ToSet(s) \cup ToSet(t)
  BY <1>4, <1>5, <1>6
<1> QED BY <1>7 DEF u

(* What the loop keeps of items that are their own keys.                   *)
LEMMA UnseenIs ==
  ASSUME NEW V, NEW items \in Seq(V), NEW seen
  PROVE  /\ Unseen(items, items, seen) \in Seq(V)
         /\ ToSet(Unseen(items, items, seen)) = ToSet(items) \ seen
<1> DEFINE kept == Unseen(items, items, seen)
<1>1. kept \in Seq(V)
  BY UnseenSelects
<1>2. PICK at : Selection(items, items, seen, Len(items), kept, at)
  BY UnseenSelects
<1> HIDE DEF kept
<1>3. /\ \A x : x \in ToSet(kept) <=> \E i \in 1 .. Len(kept) : kept[i] = x
      /\ \A x : x \in ToSet(items) <=> \E i \in 1 .. Len(items) : items[i] = x
  BY <1>1, ToSetMeans
<1>4. ASSUME NEW x \in ToSet(kept) PROVE x \in ToSet(items) \ seen
  <2>1. PICK k \in 1 .. Len(kept) : kept[k] = x
    BY <1>3
  <2>2. at[k] \in 1 .. Len(items) /\ x = items[at[k]] /\ x \notin seen
    BY <1>2, <2>1 DEF Selection, Passed
  <2> QED BY <1>3, <2>2
<1>5. ASSUME NEW x \in ToSet(items), x \notin seen PROVE x \in ToSet(kept)
  <2>1. PICK i \in 1 .. Len(items) : items[i] = x
    BY <1>3
  <2>2. PICK k \in 1 .. Len(kept) : items[at[k]] = items[i]
    BY <1>2, <1>5, <2>1 DEF Selection
  <2>3. kept[k] = x
    BY <1>2, <2>1, <2>2 DEF Selection
  <2> QED BY <1>3, <2>3
<1>6. ToSet(kept) = ToSet(items) \ seen
  BY <1>4, <1>5
<1> QED BY <1>1, <1>6 DEF kept

Increasing(s) == \A i, j \in 1 .. Len(s) : i < j => s[i] < s[j]

LEMMA UnseenIncreasing ==
  ASSUME NEW items \in Seq(Int), NEW keys, NEW seen, Increasing(items)
  PROVE  Increasing(Unseen(items, keys, seen))
<1> DEFINE kept == Unseen(items, keys, seen)
<1>1. PICK at : Selection(items, keys, seen, Len(items), kept, at)
  BY UnseenSelects
<1> HIDE DEF kept
<1>2. Increasing(kept)
  <2> SUFFICES ASSUME NEW k \in 1 .. Len(kept), NEW l \in 1 .. Len(kept), k < l
               PROVE  kept[k] < kept[l]
    BY DEF Increasing
  <2>1. at[k] < at[l] /\ at[k] \in 1 .. Len(items) /\ at[l] \in 1 .. Len(items)
    BY <1>1 DEF Selection
  <2>2. kept[k] = items[at[k]] /\ kept[l] = items[at[l]]
    BY <1>1 DEF Selection
  <2> QED BY <2>1, <2>2 DEF Increasing
<1> QED BY <1>2 DEF kept

LEMMA AppendIncreasing ==
  ASSUME NEW s \in Seq(Int), NEW e \in Int, Increasing(s), \A k \in ToSet(s) : k < e
  PROVE  Increasing(Append(s, e))
<1> DEFINE t == Append(s, e)
<1>1. Len(t) = Len(s) + 1 /\ (\A i \in 1 .. Len(s) : t[i] = s[i]) /\ t[Len(s) + 1] = e
  BY AppendProperties
<1>2. Len(s) \in Nat /\ \A i \in 1 .. Len(s) : s[i] < e
  BY ToSetMeans
<1> HIDE DEF t
<1>3. ASSUME NEW i \in 1 .. Len(t), NEW j \in 1 .. Len(t), i < j PROVE t[i] < t[j]
  <2>1. i \in 1 .. Len(s) /\ (j \in 1 .. Len(s) \/ j = Len(s) + 1)
    BY <1>1, <1>2, <1>3
  <2> QED BY <1>1, <1>2, <1>3, <2>1 DEF Increasing
<1> QED BY <1>3 DEF t, Increasing

LEMMA ConcatIncreasing ==
  ASSUME NEW s \in Seq(Int), NEW t \in Seq(Int), Increasing(s), Increasing(t),
         \A k \in ToSet(s), l \in ToSet(t) : k < l
  PROVE  Increasing(s \o t)
<1> DEFINE u == s \o t
<1>1. /\ Len(u) = Len(s) + Len(t)
      /\ \A i \in 1 .. Len(s) + Len(t) : u[i] = IF i <= Len(s) THEN s[i] ELSE t[i - Len(s)]
  BY ConcatProperties
<1>2. /\ Len(s) \in Nat /\ Len(t) \in Nat
      /\ \A i \in 1 .. Len(s), j \in 1 .. Len(t) : s[i] < t[j]
  BY ToSetMeans
<1> HIDE DEF u
<1>3. ASSUME NEW i \in 1 .. Len(u), NEW j \in 1 .. Len(u), i < j PROVE u[i] < u[j]
  <2>0. i \in 1 .. Len(s) + Len(t) /\ j \in 1 .. Len(s) + Len(t)
    BY <1>1
  <2>1. CASE j <= Len(s)
    <3>1. i <= Len(s) /\ i \in 1 .. Len(s) /\ j \in 1 .. Len(s)
      BY <1>2, <1>3, <2>0, <2>1
    <3>2. u[i] = s[i] /\ u[j] = s[j]
      BY <1>1, <2>0, <2>1, <3>1
    <3> QED BY <1>3, <3>1, <3>2 DEF Increasing
  <2>2. CASE ~(j <= Len(s)) /\ i <= Len(s)
    <3>1. i \in 1 .. Len(s) /\ j - Len(s) \in 1 .. Len(t)
      BY <1>2, <2>0, <2>2
    <3>2. u[i] = s[i] /\ u[j] = t[j - Len(s)]
      BY <1>1, <2>0, <2>2
    <3> QED BY <1>2, <3>1, <3>2
  <2>3. CASE ~(j <= Len(s)) /\ ~(i <= Len(s))
    <3>1. i - Len(s) \in 1 .. Len(t) /\ j - Len(s) \in 1 .. Len(t) /\ i - Len(s) < j - Len(s)
      BY <1>2, <1>3, <2>0, <2>3
    <3>2. u[i] = t[i - Len(s)] /\ u[j] = t[j - Len(s)]
      BY <1>1, <2>0, <2>3
    <3> QED BY <3>1, <3>2 DEF Increasing
  <2> QED BY <2>1, <2>2, <2>3
<1> QED BY <1>3 DEF u, Increasing

(* Increasing numbers grow by one at least.                                *)
LEMMA IncreasingGrows ==
  ASSUME NEW s \in Seq(Int), Increasing(s), NEW i \in 1 .. Len(s), NEW d \in Nat,
         i + d \in 1 .. Len(s)
  PROVE  s[i] + d <= s[i + d]
<1>1. Len(s) \in Nat /\ \A k \in 1 .. Len(s) : s[k] \in Int
  BY LenProperties, ElementOfSeq
<1> DEFINE S == {e \in 0 .. d : s[i] + e <= s[i + e]}
<1>2. 0 \in S
  BY <1>1
<1>3. ASSUME NEW e \in 1 .. d, e - 1 \in S PROVE e \in S
  <2>1. /\ i + (e - 1) \in 1 .. Len(s) /\ i + e \in 1 .. Len(s) /\ i + (e - 1) < i + e
        /\ e \in 0 .. d
    BY <1>1
  <2>2. s[i + (e - 1)] < s[i + e]
    BY <2>1 DEF Increasing
  <2>3. s[i] + (e - 1) <= s[i + (e - 1)]
    BY <1>3
  <2>4. s[i] \in Int /\ s[i + (e - 1)] \in Int /\ s[i + e] \in Int
    BY <1>1, <2>1
  <2>5. \A x, y, z \in Int : x + (e - 1) <= y /\ y < z => x + e <= z
    BY <2>1
  <2>6. s[i] + e <= s[i + e]
    BY <2>2, <2>3, <2>4, <2>5
  <2> QED BY <2>1, <2>6
<1> HIDE DEF S
<1>4. \A e \in 0 .. d : e \in S
  BY <1>2, <1>3, UpTo
<1>5. d \in S
  BY <1>4
<1> QED BY <1>5 DEF S

(* What goes beyond the limit, and how far what is left moves.             *)
Excess(s) == IF Len(s) > SeenLimit THEN Len(s) - SeenLimit ELSE 0

LEMMA TrimIs ==
  ASSUME NEW V, NEW s \in Seq(V), SeenLimit \in Nat
  PROVE  /\ Trim(s) \in Seq(V)
         /\ Excess(s) \in 0 .. Len(s)
         /\ Len(Trim(s)) = Len(s) - Excess(s)
         /\ Len(Trim(s)) <= SeenLimit
         /\ \A i \in 1 .. Len(Trim(s)) : Trim(s)[i] = s[i + Excess(s)]
<1> DEFINE d == Excess(s)
           t == SubSeq(s, d + 1, Len(s))
<1>1. Len(s) \in Nat /\ (\A i \in 1 .. Len(s) : s[i] \in V) /\ d \in 0 .. Len(s)
  BY ToSetMeans DEF Excess
<1>2. Trim(s) = t
  BY <1>1 DEF Trim, Excess
<1> HIDE DEF d
<1>3. \A i \in d + 1 .. Len(s) : s[i] \in V
  BY <1>1
<1>4. /\ t \in Seq(V)
      /\ Len(t) = IF d + 1 <= Len(s) THEN Len(s) - (d + 1) + 1 ELSE 0
      /\ \A i \in 1 .. Len(s) - (d + 1) + 1 : t[i] = s[d + 1 + i - 1]
  BY <1>1, <1>3, SubSeqProperties
<1> HIDE DEF t
<1>5. Len(t) = Len(s) - d
  <2>1. Len(t) = IF d + 1 <= Len(s) THEN Len(s) - (d + 1) + 1 ELSE 0
    BY <1>4
  <2> QED BY <1>1, <2>1
<1>6. ASSUME NEW i \in 1 .. Len(t) PROVE t[i] = s[i + d]
  <2>1. i \in 1 .. Len(s) - (d + 1) + 1 /\ d + 1 + i - 1 = i + d
    BY <1>1, <1>5
  <2> QED BY <1>4, <2>1
<1>7. Len(s) - d <= SeenLimit
  BY <1>1 DEF d, Excess
<1> QED BY <1>1, <1>2, <1>4, <1>5, <1>6, <1>7 DEF d

(* Increasing numbers stay so, and only those are dropped that as many     *)
(* higher ones follow as the limit allows.                                 *)
LEMMA TrimIncreasing ==
  ASSUME NEW s \in Seq(Int), SeenLimit \in Nat, Increasing(s), NEW top \in Int,
         \A x \in ToSet(s) : x <= top
  PROVE  /\ Increasing(Trim(s))
         /\ ToSet(Trim(s)) \subseteq ToSet(s)
         /\ \A x \in ToSet(s) : x \in ToSet(Trim(s)) \/ x <= top - SeenLimit
<1> DEFINE t == Trim(s)
           d == Excess(s)
<1>1. /\ t \in Seq(Int) /\ d \in 0 .. Len(s) /\ Len(t) = Len(s) - d
      /\ \A i \in 1 .. Len(t) : t[i] = s[i + d]
  BY TrimIs
<1>2. d > 0 => Len(s) = SeenLimit + d
  BY ToSetMeans DEF Excess
<1> HIDE DEF t, d
<1>3. /\ Len(s) \in Nat
      /\ \A i \in 1 .. Len(s) : s[i] \in Int /\ s[i] \in ToSet(s)
      /\ \A x : x \in ToSet(s) <=> \E i \in 1 .. Len(s) : s[i] = x
  BY ToSetMeans
<1>4. Len(t) \in Nat /\ \A x : x \in ToSet(t) <=> \E i \in 1 .. Len(t) : t[i] = x
  BY <1>1, ToSetMeans
<1>5. \A i \in 1 .. Len(t) : i + d \in 1 .. Len(s)
  BY <1>1, <1>3
<1>6. Increasing(t)
  <2> SUFFICES ASSUME NEW i \in 1 .. Len(t), NEW j \in 1 .. Len(t), i < j PROVE t[i] < t[j]
    BY DEF Increasing
  <2>1. i + d < j + d
    BY <1>1, <1>3
  <2> QED BY <1>1, <1>5, <2>1 DEF Increasing
<1>7. ToSet(t) \subseteq ToSet(s)
  BY <1>1, <1>3, <1>4, <1>5
<1>8. ASSUME NEW x \in ToSet(s), x \notin ToSet(t) PROVE x <= top - SeenLimit
  <2>1. PICK i \in 1 .. Len(s) : s[i] = x
    BY <1>3
  <2>2. i <= d
    <3> SUFFICES ASSUME i > d PROVE FALSE
      BY <1>1, <1>3
    <3>1. i - d \in 1 .. Len(t) /\ i - d + d = i
      BY <1>1, <1>3
    <3>2. t[i - d] = x
      BY <1>1, <2>1, <3>1
    <3> QED BY <1>4, <1>8, <3>1, <3>2
  <2>3. i + SeenLimit \in 1 .. Len(s) /\ SeenLimit \in Nat
    BY <1>1, <1>2, <1>3, <2>2
  <2>4. x + SeenLimit <= s[i + SeenLimit]
    BY <2>1, <2>3, IncreasingGrows
  <2>5. s[i + SeenLimit] <= top /\ s[i + SeenLimit] \in Int /\ x \in Int
    BY <1>3, <2>1, <2>3
  <2> QED BY <2>4, <2>5
<1> QED BY <1>6, <1>7, <1>8 DEF t

(***************************************************************************)
(* Issue events                                                            *)
(***************************************************************************)

(* The entry has left a retained log whose newest entry is n.              *)
Expired(i, n) == i <= n - MaxRetained

(* Entries up to the n-th.                                                 *)
Dated(s, n) == s \in Seq(Int) /\ ToSet(s) \subseteq 1 .. n

Numbered ==
  /\ logged \in Nat
  /\ Dated(issues, logged) /\ Increasing(issues)
  /\ Dated(cache, logged)
  /\ Dated(order, logged)
  /\ Dated(disk, logged)
  /\ Dated(batch, logged)

(* Everything is kept in the order it was logged.                          *)
Sorted == Increasing(cache) /\ Increasing(order) /\ Increasing(disk) /\ Increasing(batch)

(* The version stored is none to come, and the current one is that of the  *)
(* log as it is; so is the version about to be stored.                     *)
CacheCurrent ==
  /\ version \in Nat
  /\ cacheVersion \in Int
  /\ cacheVersion <= version
  /\ cacheVersion = version => cache = RetainedIssues
  /\ issuePc = "store" =>
       asked \in Int /\ asked <= version /\ (asked = version => batch = RetainedIssues)

(* What is marked, or about to be, has been taken by Loki.                 *)
MarksIngested ==
  /\ ToSet(order) \subseteq ingested
  /\ ToSet(disk) \subseteq ingested
  /\ issuePc = "mark" => ToSet(batch) \subseteq ingested

Above(i, S) == \A k \in S : k < i

(* The keys K have no gaps: an issue of S is among them, newer than all of *)
(* them, or has expired.                                                   *)
NoGaps(K, S, n) == \A i \in S : i \in K \/ Above(i, K) \/ Expired(i, n)

(* The seen cache, its file and what is known to have been in it.          *)
Remembered ==
  /\ NoGaps(ToSet(order), ToSet(issues), logged)
  /\ NoGaps(ToSet(disk), ToSet(issues), logged)
  /\ durable \subseteq Int
  /\ \A i \in durable : i \in ToSet(disk) \/ Expired(i, logged) \/ i \in excused
  /\ \A i \in ToSet(disk) : i \in ToSet(order) \/ Expired(i, logged) \/ i \in excused

(* Loki has nothing the seen cache should know of and does not, but the    *)
(* batch about to be marked.                                               *)
Accounted ==
  /\ ingested \subseteq Int
  /\ \A i \in ingested \ excused :
       i \in ToSet(order) \/ Expired(i, logged) \/ (issuePc = "mark" /\ i \in ToSet(batch))

(* Candidates B for delivery leave no gap above the keys K, and are newer. *)
NextInLine(B, K, S, n) ==
  /\ \A j \in B : j \in K \/ Above(j, K)
  /\ \A j \in B, i \in S : i <= j => i \in B \/ i \in K \/ Expired(i, n)

(* What Loki has of them is among the keys.                                *)
Undelivered(B, K) == B \cap (ingested \ excused) \subseteq K

Lined ==
  /\ issuePc = "lookup" /\ cacheVersion = asked =>
       /\ NextInLine(ToSet(cache), ToSet(order), ToSet(issues), logged)
       /\ Undelivered(ToSet(cache), ToSet(order))
  /\ issuePc \in {"store", "lifecycle", "filter", "push", "mark"} =>
       NextInLine(ToSet(batch), ToSet(order), ToSet(issues), logged)
  /\ issuePc \in {"store", "lifecycle", "filter", "push"} => Undelivered(ToSet(batch), ToSet(order))
  /\ issuePc \in {"push", "mark"} => ToSet(batch) \cap ToSet(order) = {}

LEMMA SeqWider ==
  ASSUME NEW s, NEW n \in Int, NEW m \in Int, n <= m, Dated(s, n)
  PROVE  Dated(s, m)
BY DEF Dated

LEMMA DatedEmpty == \A n : Dated(<< >>, n)
BY EmptySeq, ToSetEmpty DEF Dated

LEMMA IncreasingEmpty == Increasing(<< >>)
BY EmptySeq DEF Increasing

(* What a step may do to the log.                                          *)
Logs(isIssue) ==
  logged' = logged + 1 /\ issues' = IF isIssue THEN Append(issues, logged + 1) ELSE issues
MayLog == UNCHANGED <<logged, issues>> \/ \E isIssue \in BOOLEAN : Logs(isIssue)

(* Every step of the specification is one of these.                        *)
LEMMA IssueSteps ==
  ASSUME [IssueNext]_issueVars
  PROVE  \/ \E isIssue \in BOOLEAN : LoggedElsewhere(isIssue)
         \/ Collect \/ LookUp \/ Snapshot \/ Store \/ PushLifecycle \/ FilterNew
         \/ PushSucceeds \/ PushFails \/ MarkDelivered \/ Restart \/ UNCHANGED issueVars
BY DEF IssueNext, CollectStep

LEMMA StepsMayLog == [IssueNext]_issueVars => MayLog
<1> SUFFICES ASSUME [IssueNext]_issueVars PROVE MayLog
  OBVIOUS
<1>1. CASE \E isIssue \in BOOLEAN : LoggedElsewhere(isIssue)
  BY <1>1 DEF LoggedElsewhere, Log, Logs, MayLog
<1>2. CASE Collect \/ LookUp \/ Snapshot \/ Store \/ FilterNew \/ PushSucceeds
  BY <1>2 DEF Collect, LookUp, Snapshot, Store, FilterNew, PushSucceeds, logVars, MayLog
<1>3. CASE PushLifecycle
  BY <1>3 DEF PushLifecycle, logVars, Log, Logs, MayLog
<1>4. CASE PushFails
  BY <1>4 DEF PushFails, PushGivesUp, logVars, Log, Logs, MayLog
<1>5. CASE MarkDelivered
  BY <1>5 DEF MarkDelivered, logVars, Log, Logs, MayLog
<1>6. CASE Restart
  BY <1>6 DEF Restart, LoadSeen, LoadSeenFails, Logs, MayLog
<1>7. CASE UNCHANGED issueVars
  BY <1>7 DEF issueVars, logVars, MayLog
<1> QED BY <1>1, <1>2, <1>3, <1>4, <1>5, <1>6, <1>7, IssueSteps

LEMMA LogGrows ==
  ASSUME Numbered, MayLog
  PROVE  /\ logged' \in Nat /\ logged <= logged'
         /\ Dated(issues', logged') /\ Increasing(issues')
         /\ ToSet(issues) \subseteq ToSet(issues')
         /\ \A i \in ToSet(issues') : i \in ToSet(issues) \/ logged < i
<1>1. /\ logged \in Nat /\ issues \in Seq(Int) /\ ToSet(issues) \subseteq 1 .. logged
      /\ Increasing(issues)
  BY DEF Numbered, Dated
<1>2. CASE UNCHANGED <<logged, issues>>
  BY <1>1, <1>2 DEF Dated
<1>3. ASSUME NEW isIssue \in BOOLEAN, Logs(isIssue)
      PROVE  /\ logged' \in Nat /\ logged <= logged'
             /\ Dated(issues', logged') /\ Increasing(issues')
             /\ ToSet(issues) \subseteq ToSet(issues')
             /\ \A i \in ToSet(issues') : i \in ToSet(issues) \/ logged < i
  <2>1. logged' = logged + 1 /\ issues' = IF isIssue THEN Append(issues, logged + 1) ELSE issues
    BY <1>3 DEF Logs
  <2> DEFINE t == Append(issues, logged + 1)
  <2>2. t \in Seq(Int) /\ ToSet(t) = ToSet(issues) \cup {logged + 1}
    BY <1>1, ToSetAppend
  <2>3. Increasing(t)
    <3>1. \A k \in ToSet(issues) : k < logged + 1
      BY <1>1
    <3> QED BY <1>1, <3>1, AppendIncreasing
  <2> HIDE DEF t
  <2>4. issues' = t \/ issues' = issues
    BY <2>1 DEF t
  <2>5. ToSet(t) \subseteq 1 .. logged + 1 /\ ToSet(issues) \subseteq 1 .. logged + 1
    BY <1>1, <2>2
  <2>6. Dated(issues', logged') /\ Increasing(issues')
    BY <1>1, <2>1, <2>2, <2>3, <2>4, <2>5 DEF Dated
  <2>7. ToSet(issues') = ToSet(t) \/ ToSet(issues') = ToSet(issues)
    BY <2>4
  <2> QED BY <1>1, <2>1, <2>2, <2>6, <2>7
<1> QED BY <1>2, <1>3 DEF MayLog

(* What a restart leaves of the seen cache and of the call under way.      *)
LEMMA RestartIs ==
  ASSUME Restart
  PROVE  /\ issuePc' = "idle" /\ batch' = << >> /\ cache' = << >> /\ cacheVersion' = None
         /\ UNCHANGED <<ingested, durable, again>>
         /\ version' \in {0, 1}
         /\ \/ order' = disk /\ disk' = disk /\ excused' = excused \cup (ingested \ durable)
            \/ order' = << >> /\ disk' \in {disk, << >>} /\ excused' = excused \cup ingested
BY DEF Restart, LoadSeen, LoadSeenFails, Return

(* The issues among the retained entries.                                  *)
LEMMA RetainedIssuesAre ==
  ASSUME Numbered, MaxRetained \in Nat
  PROVE  /\ Dated(RetainedIssues, logged) /\ Increasing(RetainedIssues)
         /\ \A i : i \in ToSet(RetainedIssues) <=> i \in ToSet(issues) /\ ~Expired(i, logged)
<1>1. /\ logged \in Nat /\ issues \in Seq(Int) /\ ToSet(issues) \subseteq 1 .. logged
      /\ Increasing(issues)
  BY DEF Numbered, Dated
<1> DEFINE kept == RetainedIssues
<1>2. kept \in Seq(Int) /\ ToSet(kept) = ToSet(issues) \ (1 .. logged - MaxRetained)
  BY <1>1, UnseenIs DEF RetainedIssues
<1>3. Increasing(kept)
  BY <1>1, UnseenIncreasing DEF RetainedIssues
<1> HIDE DEF kept
<1>4. \A i : i \in ToSet(kept) <=> i \in ToSet(issues) /\ ~Expired(i, logged)
  BY <1>1, <1>2 DEF Expired
<1>5. Dated(kept, logged)
  BY <1>1, <1>2 DEF Dated
<1> QED BY <1>3, <1>4, <1>5 DEF kept

(* What filterNew leaves of the batch.                                     *)
LEMMA FreshIs ==
  ASSUME Numbered
  PROVE  /\ Dated(Unseen(batch, batch, Keys), logged)
         /\ ToSet(Unseen(batch, batch, Keys)) = ToSet(batch) \ ToSet(order)
         /\ Increasing(batch) => Increasing(Unseen(batch, batch, Keys))
<1>1. batch \in Seq(Int) /\ ToSet(batch) \subseteq 1 .. logged
  BY DEF Numbered, Dated
<1>2. Unseen(batch, batch, Keys) \in Seq(Int) /\ ToSet(Unseen(batch, batch, Keys)) = ToSet(batch) \ Keys
  BY <1>1, UnseenIs
<1>3. Increasing(batch) => Increasing(Unseen(batch, batch, Keys))
  BY <1>1, UnseenIncreasing
<1> QED BY <1>1, <1>2, <1>3 DEF Dated, Keys

(* markDelivered adds the batch and drops what has left the log.           *)
LEMMA MarkedIs ==
  ASSUME Numbered, SeenLimit \in Nat
  PROVE  /\ Dated(WithKeys(order, batch), logged)
         /\ ToSet(WithKeys(order, batch)) \subseteq ToSet(order) \cup ToSet(batch)
<1> DEFINE u == Unseen(batch, batch, Keys)
           t == order \o u
<1>1. order \in Seq(Int) /\ ToSet(order) \subseteq 1 .. logged /\ ToSet(batch) \subseteq 1 .. logged
  BY DEF Numbered, Dated
<1>2. u \in Seq(Int) /\ ToSet(u) = ToSet(batch) \ ToSet(order)
  BY FreshIs DEF Dated
<1> HIDE DEF u
<1>3. t \in Seq(Int) /\ ToSet(t) = ToSet(order) \cup ToSet(u)
  BY <1>1, <1>2, ToSetConcat, ConcatProperties
<1>4. WithKeys(order, batch) = Trim(t)
  BY DEF WithKeys, u, Keys
<1> HIDE DEF t
<1>5. /\ Trim(t) \in Seq(Int) /\ Excess(t) \in 0 .. Len(t) /\ Len(Trim(t)) = Len(t) - Excess(t)
      /\ \A i \in 1 .. Len(Trim(t)) : Trim(t)[i] = t[i + Excess(t)]
  BY <1>3, TrimIs
<1>6. ToSet(Trim(t)) \subseteq ToSet(t)
  <2> SUFFICES ASSUME NEW x \in ToSet(Trim(t)) PROVE x \in ToSet(t)
    OBVIOUS
  <2>1. Len(t) \in Nat /\ \A i \in 1 .. Len(t) : t[i] \in ToSet(t)
    BY <1>3, ToSetMeans
  <2>2. PICK i \in 1 .. Len(Trim(t)) : Trim(t)[i] = x
    BY <1>5, ToSetMeans
  <2>3. i + Excess(t) \in 1 .. Len(t)
    BY <1>5, <2>1
  <2> QED BY <1>5, <2>1, <2>2, <2>3
<1> QED BY <1>1, <1>2, <1>3, <1>4, <1>5, <1>6 DEF Dated

LEMMA NumberedInit == IssueInit => Numbered
BY DatedEmpty, IncreasingEmpty DEF IssueInit, Numbered

LEMMA NumberedStep ==
  ASSUME MaxRetained \in Nat, SeenLimit \in Nat, Numbered, [IssueNext]_issueVars
  PROVE  Numbered'
<1>1. MayLog
  BY StepsMayLog
<1>2. /\ logged' \in Nat /\ logged <= logged' /\ logged \in Nat
      /\ Dated(issues', logged') /\ Increasing(issues')
  BY <1>1, LogGrows DEF Numbered
<1>3. \A s : Dated(s, logged) => Dated(s, logged')
  BY <1>2, SeqWider
<1>4. Dated(cache, logged) /\ Dated(order, logged) /\ Dated(disk, logged) /\ Dated(batch, logged)
  BY DEF Numbered
<1>5. Dated(cache', logged) /\ Dated(order', logged) /\ Dated(disk', logged) /\ Dated(batch', logged)
  <2>1. CASE (\E isIssue \in BOOLEAN : LoggedElsewhere(isIssue)) \/ UNCHANGED issueVars
    BY <1>4, <2>1 DEF LoggedElsewhere, issueVars, cacheVars, seenVars, callVars
  <2>2. CASE Collect \/ PushLifecycle \/ PushSucceeds
    BY <1>4, <2>2 DEF Collect, PushLifecycle, PushSucceeds, cacheVars, seenVars, callVars
  <2>3. CASE LookUp
    BY <1>4, <2>3, DatedEmpty DEF LookUp, cacheVars, seenVars
  <2>4. CASE Snapshot
    BY <1>4, <2>4, RetainedIssuesAre DEF Snapshot, cacheVars, seenVars
  <2>9. CASE Store
    BY <1>4, <2>9 DEF Store, seenVars
  <2>5. CASE FilterNew
    BY <1>4, <2>5, FreshIs, DatedEmpty DEF FilterNew, Return, cacheVars, seenVars
  <2>6. CASE PushFails
    BY <1>4, <2>6, DatedEmpty DEF PushFails, PushGivesUp, Return, cacheVars, seenVars
  <2>7. CASE MarkDelivered
    BY <1>4, <2>7, MarkedIs, DatedEmpty DEF MarkDelivered, Return, cacheVars
  <2>8. CASE Restart
    BY <1>4, <2>8, DatedEmpty, RestartIs
  <2> QED BY <2>1, <2>2, <2>3, <2>4, <2>5, <2>6, <2>7, <2>8, <2>9, IssueSteps
<1> QED BY <1>2, <1>3, <1>5 DEF Numbered

LEMMA CacheCurrentStep ==
  ASSUME CacheCurrent, [IssueNext]_issueVars
  PROVE  CacheCurrent'
<1>1. ASSUME UNCHANGED <<logged, issues, version, cacheVersion, cache>>,
             issuePc' = "store" => UNCHANGED <<issuePc, asked, batch>>
      PROVE  CacheCurrent'
  BY <1>1 DEF CacheCurrent, RetainedIssues
<1>2. ASSUME NEW isIssue \in BOOLEAN, Log(isIssue), UNCHANGED cacheVars,
             issuePc' = "store" => UNCHANGED <<issuePc, asked>>
      PROVE  CacheCurrent'
  BY <1>2 DEF CacheCurrent, Log, cacheVars
<1>3. CASE \E isIssue \in BOOLEAN : LoggedElsewhere(isIssue)
  BY <1>2, <1>3 DEF LoggedElsewhere, callVars
<1>4. CASE Collect \/ LookUp \/ FilterNew \/ PushSucceeds \/ UNCHANGED issueVars
  BY <1>1, <1>4 DEF Collect, LookUp, FilterNew, Return, PushSucceeds, issueVars, logVars,
     cacheVars, callVars
<1>5. CASE Snapshot
  <2>1. /\ asked' = version /\ batch' = RetainedIssues
        /\ UNCHANGED <<logged, issues, version, cacheVersion, cache>>
    BY <1>5 DEF Snapshot, logVars, cacheVars
  <2>2. RetainedIssues' = RetainedIssues
    BY <2>1 DEF RetainedIssues
  <2> QED BY <2>1, <2>2 DEF CacheCurrent
<1>6. CASE Store
  <2>1. /\ issuePc = "store" /\ issuePc' = "lifecycle" /\ cache' = batch
        /\ cacheVersion' = asked /\ UNCHANGED <<logged, issues, version>>
    BY <1>6 DEF Store, logVars
  <2>2. RetainedIssues' = RetainedIssues
    BY <2>1 DEF RetainedIssues
  <2> QED BY <2>1, <2>2 DEF CacheCurrent
<1>7. CASE PushLifecycle
  BY <1>1, <1>2, <1>7 DEF PushLifecycle, logVars, cacheVars
<1>8. CASE PushFails
  BY <1>1, <1>2, <1>8 DEF PushFails, PushGivesUp, Return, logVars, cacheVars
<1>9. CASE MarkDelivered
  BY <1>1, <1>2, <1>9 DEF MarkDelivered, Return, logVars, cacheVars
<1>10. CASE Restart
  BY <1>10, RestartIs DEF CacheCurrent, None
<1> QED BY <1>3, <1>4, <1>5, <1>6, <1>7, <1>8, <1>9, <1>10, IssueSteps

LEMMA MarksIngestedStep ==
  ASSUME SeenLimit \in Nat, Numbered, MarksIngested, [IssueNext]_issueVars
  PROVE  MarksIngested'
<1>1. CASE (\E isIssue \in BOOLEAN : LoggedElsewhere(isIssue)) \/ UNCHANGED issueVars
  BY <1>1 DEF LoggedElsewhere, issueVars, seenVars, callVars, history, MarksIngested
<1>2. CASE Collect \/ LookUp \/ Snapshot \/ Store \/ PushLifecycle
  BY <1>2 DEF Collect, LookUp, Snapshot, Store, PushLifecycle, seenVars, history, MarksIngested
<1>3. CASE FilterNew
  BY <1>3 DEF FilterNew, Return, seenVars, history, MarksIngested
<1>4. CASE PushSucceeds
  BY <1>4 DEF PushSucceeds, Ingest, seenVars, MarksIngested
<1>5. CASE PushFails
  BY <1>5 DEF PushFails, PushGivesUp, Return, Ingest, seenVars, MarksIngested
<1>6. CASE MarkDelivered
  <2>1. /\ ToSet(order') \subseteq ToSet(order) \cup ToSet(batch)
        /\ issuePc = "mark" /\ issuePc' = "idle" /\ ingested' = ingested
        /\ disk' = order' \/ disk' = disk
    BY <1>6, MarkedIs DEF MarkDelivered, Return
  <2>2. ToSet(disk') = ToSet(order') \/ ToSet(disk') = ToSet(disk)
    BY <2>1
  <2> QED BY <2>1, <2>2 DEF MarksIngested
<1>7. CASE Restart
  BY <1>7, RestartIs, ToSetEmpty DEF MarksIngested
<1> QED BY <1>1, <1>2, <1>3, <1>4, <1>5, <1>6, <1>7, IssueSteps

LEMMA MarksAreIngested == Numbered /\ MarksIngested => MarkedIssuesIngested
<1> SUFFICES ASSUME Numbered, MarksIngested, NEW i \in 1 .. Len(order) + Len(disk)
             PROVE  (order \o disk)[i] \in ingested
  BY DEF MarkedIssuesIngested
<1>1. order \in Seq(Int) /\ disk \in Seq(Int)
  BY DEF Numbered, Dated
<1>2. /\ order \o disk \in Seq(Int) /\ Len(order \o disk) = Len(order) + Len(disk)
      /\ ToSet(order \o disk) = ToSet(order) \cup ToSet(disk)
  BY <1>1, ToSetConcat, ConcatProperties
<1>3. (order \o disk)[i] \in ToSet(order \o disk)
  BY <1>2, ToSetMeans
<1> QED BY <1>2, <1>3 DEF MarksIngested

(* The analytics cache is never stale: what is stored under a version was  *)
(* selected from the log of that version, whatever was logged before the   *)
(* store.                                                                  *)
THEOREM AnalyticsCacheIsCurrent == IssueSpec => []AnalyticsCacheCurrent
<1>1. IssueInit => CacheCurrent
  BY DEF IssueInit, CacheCurrent, None
<1>2. CacheCurrent /\ [IssueNext]_issueVars => CacheCurrent'
  BY CacheCurrentStep
<1>3. CacheCurrent => AnalyticsCacheCurrent
  BY DEF CacheCurrent, AnalyticsCacheCurrent
<1> QED BY <1>1, <1>2, <1>3, PTL DEF IssueSpec

(* What the seen cache takes for delivered, Loki has.                      *)
THEOREM MarkedIssuesAreIngested == IssueSpec => []MarkedIssuesIngested
<1>1. IssueInit => Numbered /\ MarksIngested
  BY NumberedInit, ToSetEmpty DEF IssueInit, MarksIngested
<1>2. Numbered /\ MarksIngested /\ [IssueNext]_issueVars => Numbered' /\ MarksIngested'
  BY NumberedStep, MarksIngestedStep, RetainedAssumption, SeenAssumption
<1> QED BY <1>1, <1>2, MarksAreIngested, PTL DEF IssueSpec

(* What is logged is newer than every key.                                 *)
LEMMA NoGapsGrow ==
  ASSUME NEW n \in Int, NEW m \in Int, n <= m, MaxRetained \in Int,
         NEW S, NEW T \in SUBSET Int, \A i \in T : i \in S \/ n < i,
         NEW K \in SUBSET (1 .. n), NoGaps(K, S, n)
  PROVE  NoGaps(K, T, m)
<1> SUFFICES ASSUME NEW i \in T PROVE i \in K \/ Above(i, K) \/ Expired(i, m)
  BY DEF NoGaps
<1>1. CASE i \in S
  BY <1>1 DEF NoGaps, Expired
<1>2. CASE n < i
  BY <1>2 DEF Above
<1> QED BY <1>1, <1>2

LEMMA NextInLineGrow ==
  ASSUME NEW n \in Int, NEW m \in Int, n <= m, MaxRetained \in Int,
         NEW S, NEW T \in SUBSET Int, \A i \in T : i \in S \/ n < i,
         NEW K, NEW B \in SUBSET (1 .. n), NextInLine(B, K, S, n)
  PROVE  NextInLine(B, K, T, m)
<1>1. ASSUME NEW j \in B, NEW i \in T, i <= j PROVE i \in B \/ i \in K \/ Expired(i, m)
  <2>1. i \in S
    BY <1>1
  <2> QED BY <1>1, <2>1 DEF NextInLine, Expired
<1> QED BY <1>1 DEF NextInLine

(* The retained issues are next in line.                                   *)
LEMMA RetainedInLine ==
  ASSUME NEW n, NEW S, NEW K, NoGaps(K, S, n), NEW B,
         \A i : i \in B <=> i \in S /\ ~Expired(i, n)
  PROVE  NextInLine(B, K, S, n)
BY DEF NextInLine, NoGaps

LEMMA MarkedNoGaps ==
  ASSUME NEW n \in Int, NEW S \in SUBSET Int, NEW K, NEW B \in SUBSET Int, NEW H,
         NoGaps(K, S, n), NextInLine(B, K, S, n),
         H \subseteq K \cup B, \A x \in K \cup B : x \in H \/ Expired(x, n)
  PROVE  NoGaps(H, S, n)
<1> SUFFICES ASSUME NEW i \in S, i \notin H, ~Expired(i, n) PROVE Above(i, H)
  BY DEF NoGaps
<1>1. i \notin K /\ i \notin B
  OBVIOUS
<1>2. Above(i, K)
  BY <1>1 DEF NoGaps
<1>3. \A j \in B : ~(i <= j)
  BY <1>1 DEF NextInLine
<1>4. \A j \in B : j < i
  BY <1>3
<1> QED BY <1>2, <1>4 DEF Above

(* The seen cache drops no key of a retained entry: it holds as many.      *)
LEMMA MarkedKeeps ==
  ASSUME Numbered, Sorted, SeenLimit \in Nat, MaxRetained \in Nat, MaxRetained <= SeenLimit,
         \A j \in ToSet(batch) : j \in ToSet(order) \/ Above(j, ToSet(order))
  PROVE  /\ Increasing(WithKeys(order, batch))
         /\ \A x \in ToSet(order) \cup ToSet(batch) :
              x \in ToSet(WithKeys(order, batch)) \/ Expired(x, logged)
<1> DEFINE u == Unseen(batch, batch, Keys)
           t == order \o u
<1>1. /\ logged \in Nat /\ order \in Seq(Int) /\ ToSet(order) \subseteq 1 .. logged
      /\ ToSet(batch) \subseteq 1 .. logged /\ Increasing(order)
  BY DEF Numbered, Dated, Sorted
<1>2. u \in Seq(Int) /\ ToSet(u) = ToSet(batch) \ ToSet(order) /\ Increasing(u)
  BY FreshIs DEF Dated, Sorted
<1> HIDE DEF u
<1>3. t \in Seq(Int) /\ ToSet(t) = ToSet(order) \cup ToSet(batch)
  BY <1>1, <1>2, ToSetConcat, ConcatProperties
<1>4. Increasing(t)
  <2>1. \A k \in ToSet(order), l \in ToSet(u) : k < l
    BY <1>2 DEF Above
  <2> QED BY <1>1, <1>2, <2>1, ConcatIncreasing
<1>5. WithKeys(order, batch) = Trim(t)
  BY DEF WithKeys, u, Keys
<1> HIDE DEF t
<1>6. \A x \in ToSet(t) : x <= logged /\ x \in Int
  BY <1>1, <1>3
<1>7. /\ Increasing(Trim(t))
      /\ \A x \in ToSet(t) : x \in ToSet(Trim(t)) \/ x <= logged - SeenLimit
  BY <1>1, <1>3, <1>4, <1>6, TrimIncreasing
<1>8. \A x \in ToSet(t) : x <= logged - SeenLimit => Expired(x, logged)
  BY <1>1, <1>6 DEF Expired
<1> QED BY <1>3, <1>5, <1>7, <1>8

(* The inductive invariant.                                                *)
DeliveredOnce ==
  /\ Numbered /\ Sorted /\ CacheCurrent
  /\ MarksIngested /\ Remembered /\ Accounted /\ Lined
  /\ again = {}

LEMMA SortedStep ==
  ASSUME SeenLimit \in Nat, MaxRetained \in Nat, MaxRetained <= SeenLimit,
         Numbered, Sorted, Lined, [IssueNext]_issueVars
  PROVE  Sorted'
<1>1. CASE (\E isIssue \in BOOLEAN : LoggedElsewhere(isIssue)) \/ UNCHANGED issueVars
  BY <1>1 DEF LoggedElsewhere, issueVars, cacheVars, seenVars, callVars, Sorted
<1>2. CASE Collect \/ PushLifecycle \/ PushSucceeds
  BY <1>2 DEF Collect, PushLifecycle, PushSucceeds, cacheVars, seenVars, callVars, Sorted
<1>3. CASE LookUp
  BY <1>3, IncreasingEmpty DEF LookUp, cacheVars, seenVars, Sorted
<1>4. CASE Snapshot
  BY <1>4, RetainedIssuesAre DEF Snapshot, cacheVars, seenVars, Sorted
<1>9. CASE Store
  BY <1>9 DEF Store, seenVars, Sorted
<1>5. CASE FilterNew
  BY <1>5, FreshIs, IncreasingEmpty DEF FilterNew, Return, cacheVars, seenVars, Sorted
<1>6. CASE PushFails
  BY <1>6, IncreasingEmpty DEF PushFails, PushGivesUp, Return, cacheVars, seenVars, Sorted
<1>7. CASE MarkDelivered
  <2>1. \A j \in ToSet(batch) : j \in ToSet(order) \/ Above(j, ToSet(order))
    BY <1>7 DEF MarkDelivered, Lined, NextInLine
  <2>2. Increasing(order')
    BY <1>7, <2>1, MarkedKeeps DEF MarkDelivered
  <2> QED BY <1>7, <2>2, IncreasingEmpty DEF MarkDelivered, Return, cacheVars, Sorted
<1>8. CASE Restart
  BY <1>8, RestartIs, IncreasingEmpty DEF Sorted
<1> QED BY <1>1, <1>2, <1>3, <1>4, <1>5, <1>6, <1>7, <1>8, <1>9, IssueSteps

LEMMA RememberedStep ==
  ASSUME SeenLimit \in Nat, MaxRetained \in Nat, MaxRetained <= SeenLimit,
         DeliveredOnce, [IssueNext]_issueVars
  PROVE  Remembered'
<1> DEFINE S == ToSet(issues)
           T == ToSet(issues')
           n == logged
           m == logged'
           K == ToSet(order)
           D == ToSet(disk)
           H == ToSet(order')
<1>1. /\ n \in Int /\ m \in Int /\ n <= m /\ MaxRetained \in Int
      /\ T \in SUBSET Int /\ S \in SUBSET Int /\ (\A i \in T : i \in S \/ n < i)
      /\ K \in SUBSET (1 .. n) /\ D \in SUBSET (1 .. n)
  BY StepsMayLog, LogGrows DEF DeliveredOnce, Numbered, Dated
<1>2. /\ NoGaps(K, S, n) /\ NoGaps(D, S, n) /\ durable \subseteq Int
      /\ \A i \in durable : i \in D \/ Expired(i, n) \/ i \in excused
      /\ \A i \in D : i \in K \/ Expired(i, n) \/ i \in excused
  BY DEF DeliveredOnce, Remembered
<1> HIDE DEF S, T, n, m, K, D
<1>0. K \subseteq Int /\ D \subseteq Int
  BY <1>1
<1>3. NoGaps(K, T, m) /\ NoGaps(D, T, m)
  BY <1>1, <1>2, NoGapsGrow
<1>4. \A i \in Int : Expired(i, n) => Expired(i, m)
  BY <1>1 DEF Expired
<1>5. CASE UNCHANGED <<order, disk, durable>> /\ excused \subseteq excused'
  <2>1. /\ ToSet(order') = K /\ ToSet(disk') = D /\ durable' = durable
        /\ excused \subseteq excused'
    BY <1>5 DEF K, D
  <2>2. \A i \in durable' : i \in ToSet(disk') \/ Expired(i, m) \/ i \in excused'
    BY <1>2, <1>4, <2>1
  <2>3. \A i \in ToSet(disk') : i \in ToSet(order') \/ Expired(i, m) \/ i \in excused'
    BY <1>0, <1>2, <1>4, <2>1
  <2> QED BY <1>2, <1>3, <2>1, <2>2, <2>3 DEF Remembered, T, m
<1>6. CASE MarkDelivered
  <2> DEFINE B == ToSet(batch)
  <2>1. NextInLine(B, K, S, n) /\ B \in SUBSET (1 .. n)
    BY <1>6 DEF MarkDelivered, DeliveredOnce, Lined, Numbered, Dated, K, S, n
  <2>2. H \subseteq K \cup B /\ \A x \in K \cup B : x \in H \/ Expired(x, n)
    <3>1. order' = WithKeys(order, batch)
      BY <1>6 DEF MarkDelivered
    <3>2. \A j \in ToSet(batch) : j \in ToSet(order) \/ Above(j, ToSet(order))
      BY <2>1 DEF NextInLine, K
    <3> QED BY <3>1, <3>2, MarkedIs, MarkedKeeps DEF DeliveredOnce, K, n
  <2> HIDE DEF B, H
  <2>3. H \in SUBSET (1 .. n)
    BY <1>1, <2>1, <2>2
  <2>4. NoGaps(H, S, n)
    <3>1. B \in SUBSET Int /\ S \in SUBSET Int /\ n \in Int
      BY <1>1, <2>1
    <3> QED BY <1>2, <2>1, <2>2, <3>1, MarkedNoGaps
  <2>5. NoGaps(H, T, m)
    BY <1>1, <2>3, <2>4, NoGapsGrow
  <2>6. \A i \in K : i \in H \/ Expired(i, m)
    BY <1>0, <1>4, <2>2
  <2>9. excused' = excused
    BY <1>6 DEF MarkDelivered
  <2>7. CASE disk' = order' /\ durable' = durable \cup ToSet(order')
    <3>1. ToSet(disk') = H /\ durable' = durable \cup H
      BY <2>7 DEF H
    <3>2. durable' \subseteq Int
      BY <1>1, <1>2, <2>3, <3>1
    <3>3. \A i \in durable' : i \in ToSet(disk') \/ Expired(i, m) \/ i \in excused'
      BY <1>0, <1>2, <1>4, <2>6, <2>9, <3>1
    <3> QED BY <2>5, <3>1, <3>2, <3>3 DEF Remembered, T, m, H
  <2>8. CASE UNCHANGED <<disk, durable>>
    <3>1. ToSet(disk') = D /\ durable' = durable
      BY <2>8 DEF D
    <3>2. \A i \in durable' : i \in ToSet(disk') \/ Expired(i, m) \/ i \in excused'
      BY <1>2, <1>4, <2>9, <3>1
    <3>3. \A i \in ToSet(disk') : i \in H \/ Expired(i, m) \/ i \in excused'
      BY <1>0, <1>2, <1>4, <2>6, <2>9, <3>1
    <3> QED BY <1>2, <1>3, <2>5, <3>1, <3>2, <3>3 DEF Remembered, T, m, H
  <2> QED BY <1>6, <2>7, <2>8 DEF MarkDelivered
<1>7. CASE Restart
  <2>1. /\ durable' = durable /\ excused \subseteq excused'
        /\ \/ ToSet(order') = D /\ ToSet(disk') = D
           \/ ToSet(order') = {} /\ ToSet(disk') \in {D, {}} /\ excused' = excused \cup ingested
    BY <1>7, RestartIs, ToSetEmpty DEF D
  <2>2. D \subseteq ingested
    BY DEF DeliveredOnce, MarksIngested, D
  <2>3. NoGaps({}, T, m)
    BY DEF NoGaps, Above
  <2>4. NoGaps(ToSet(order'), T, m) /\ NoGaps(ToSet(disk'), T, m)
    BY <1>3, <2>1, <2>3
  <2>5. \A i \in durable' : i \in ToSet(disk') \/ Expired(i, m) \/ i \in excused'
    BY <1>2, <1>4, <2>1, <2>2
  <2>6. \A i \in ToSet(disk') : i \in ToSet(order') \/ Expired(i, m) \/ i \in excused'
    BY <2>1, <2>2
  <2> QED BY <1>2, <2>1, <2>4, <2>5, <2>6 DEF Remembered, T, m
<1>8. CASE (\E isIssue \in BOOLEAN : LoggedElsewhere(isIssue)) \/ UNCHANGED issueVars
  BY <1>5, <1>8 DEF LoggedElsewhere, issueVars, seenVars, history
<1>9. CASE Collect \/ LookUp \/ Snapshot \/ Store \/ PushLifecycle \/ FilterNew \/ PushSucceeds \/ PushFails
  BY <1>5, <1>9 DEF Collect, LookUp, Snapshot, Store, PushLifecycle, FilterNew, PushSucceeds, PushFails,
     seenVars, history
<1> QED BY <1>6, <1>7, <1>8, <1>9, IssueSteps

LEMMA AccountedStep ==
  ASSUME SeenLimit \in Nat, MaxRetained \in Nat, MaxRetained <= SeenLimit,
         DeliveredOnce, [IssueNext]_issueVars
  PROVE  Accounted'
<1> DEFINE n == logged
           m == logged'
           K == ToSet(order)
           B == ToSet(batch)
<1>1. /\ n \in Int /\ m \in Int /\ n <= m /\ MaxRetained \in Int
      /\ K \in SUBSET (1 .. n) /\ B \in SUBSET (1 .. n)
  BY StepsMayLog, LogGrows DEF DeliveredOnce, Numbered, Dated
<1>2. /\ ingested \subseteq Int
      /\ \A i \in ingested \ excused : i \in K \/ Expired(i, n) \/ (issuePc = "mark" /\ i \in B)
  BY DEF DeliveredOnce, Accounted
<1>3. /\ durable \subseteq Int
      /\ \A i \in durable : i \in ToSet(disk) \/ Expired(i, n) \/ i \in excused
  BY DEF DeliveredOnce, Remembered
<1> HIDE DEF n, m, K, B
<1>0. K \subseteq Int /\ B \subseteq Int
  BY <1>1
<1>4. \A i \in Int : Expired(i, n) => Expired(i, m)
  BY <1>1 DEF Expired
<1>5. CASE UNCHANGED <<order, ingested, excused>> /\ (issuePc = "mark" => UNCHANGED <<issuePc, batch>>)
  <2>1. ToSet(order') = K /\ (issuePc = "mark" => issuePc' = "mark" /\ ToSet(batch') = B)
    BY <1>5 DEF K, B
  <2>2. \A i \in ingested \ excused : i \in ToSet(order') \/ Expired(i, m) \/ (issuePc' = "mark" /\ i \in ToSet(batch'))
    BY <1>2, <1>4, <2>1
  <2> QED BY <1>2, <1>5, <2>2 DEF Accounted, m
<1>6. CASE PushSucceeds
  <2>1. /\ ToSet(order') = K /\ ToSet(batch') = B /\ issuePc = "push" /\ issuePc' = "mark"
        /\ ingested' = ingested \cup B /\ excused' = excused
    BY <1>6 DEF PushSucceeds, Ingest, seenVars, K, B
  <2>2. ingested' \subseteq Int
    BY <1>0, <1>2, <2>1
  <2>3. \A i \in ingested' \ excused' : i \in ToSet(order') \/ Expired(i, m) \/ (issuePc' = "mark" /\ i \in ToSet(batch'))
    BY <1>2, <1>4, <2>1
  <2> QED BY <2>2, <2>3 DEF Accounted, m
<1>7. CASE PushFails
  <2>1. /\ ToSet(order') = K /\ issuePc = "push"
        /\ \/ ingested' = ingested /\ excused' = excused
           \/ ingested' = ingested \cup B /\ excused' = excused \cup B
    BY <1>7 DEF PushFails, Ingest, seenVars, K, B
  <2>2. ingested' \subseteq Int
    BY <1>0, <1>2, <2>1
  <2>3. \A i \in ingested' \ excused' : i \in ToSet(order') \/ Expired(i, m)
    BY <1>2, <1>4, <2>1
  <2> QED BY <2>2, <2>3 DEF Accounted, m
<1>8. CASE MarkDelivered
  <2>1. \A j \in ToSet(batch) : j \in ToSet(order) \/ Above(j, ToSet(order))
    BY <1>8 DEF MarkDelivered, DeliveredOnce, Lined, NextInLine
  <2>2. \A x \in K \cup B : x \in ToSet(order') \/ Expired(x, n)
    BY <1>8, <2>1, MarkedKeeps DEF MarkDelivered, DeliveredOnce, K, B, n
  <2>3. ingested' = ingested /\ excused' = excused
    BY <1>8 DEF MarkDelivered
  <2>4. \A i \in ingested' \ excused' : i \in ToSet(order') \/ Expired(i, m)
    BY <1>0, <1>2, <1>4, <2>2, <2>3
  <2> QED BY <1>2, <2>3, <2>4 DEF Accounted, m
<1>9. CASE Restart
  <2>1. /\ ingested' = ingested
        /\ \/ ToSet(order') = ToSet(disk) /\ excused' = excused \cup (ingested \ durable)
           \/ excused' = excused \cup ingested
    BY <1>9, RestartIs
  <2>2. \A i \in ingested' \ excused' : i \in ToSet(order') \/ Expired(i, m)
    BY <1>3, <1>4, <2>1
  <2> QED BY <1>2, <2>1, <2>2 DEF Accounted, m
<1>10. CASE (\E isIssue \in BOOLEAN : LoggedElsewhere(isIssue)) \/ UNCHANGED issueVars
  BY <1>5, <1>10 DEF LoggedElsewhere, issueVars, seenVars, callVars, history
<1>11. CASE Collect \/ LookUp \/ Snapshot \/ Store \/ PushLifecycle \/ FilterNew
  BY <1>5, <1>11 DEF Collect, LookUp, Snapshot, Store, PushLifecycle, FilterNew, seenVars, history
<1> QED BY <1>6, <1>7, <1>8, <1>9, <1>10, <1>11, IssueSteps

(* What is in line stays so while the log grows.                           *)
LEMMA LinedStays ==
  ASSUME MaxRetained \in Nat, Numbered, MayLog, UNCHANGED order, NEW B,
         B \subseteq 1 .. logged,
         NextInLine(B, ToSet(order), ToSet(issues), logged)
  PROVE  NextInLine(B, ToSet(order'), ToSet(issues'), logged')
<1> DEFINE S == ToSet(issues)
           T == ToSet(issues')
<1>1. /\ logged \in Int /\ logged' \in Int /\ logged <= logged' /\ MaxRetained \in Int
      /\ T \in SUBSET Int /\ S \in SUBSET Int /\ (\A i \in T : i \in S \/ logged < i)
  BY LogGrows DEF Numbered, Dated
<1>2. ToSet(order') = ToSet(order) /\ B \in SUBSET (1 .. logged)
  OBVIOUS
<1> QED BY <1>1, <1>2, NextInLineGrow

LEMMA FreshInLine ==
  ASSUME NEW n, NEW S, NEW K, NEW B, NextInLine(B, K, S, n)
  PROVE  NextInLine(B \ K, K, S, n)
BY DEF NextInLine

(* Unless the batch is being marked, Loki has nothing of the retained      *)
(* issues but what the seen cache holds.                                   *)
LEMMA RetainedLined ==
  ASSUME MaxRetained \in Nat, DeliveredOnce, issuePc # "mark"
  PROVE  /\ NextInLine(ToSet(RetainedIssues), ToSet(order), ToSet(issues), logged)
         /\ Undelivered(ToSet(RetainedIssues), ToSet(order))
<1>1. \A i : i \in ToSet(RetainedIssues) <=> i \in ToSet(issues) /\ ~Expired(i, logged)
  BY RetainedIssuesAre DEF DeliveredOnce
<1>2. NoGaps(ToSet(order), ToSet(issues), logged)
  BY DEF DeliveredOnce, Remembered
<1>3. NextInLine(ToSet(RetainedIssues), ToSet(order), ToSet(issues), logged)
  BY <1>1, <1>2, RetainedInLine
<1>4. Undelivered(ToSet(RetainedIssues), ToSet(order))
  BY <1>1 DEF Undelivered, DeliveredOnce, Accounted
<1> QED BY <1>3, <1>4

LEMMA LinedStep ==
  ASSUME MaxRetained \in Nat, DeliveredOnce, [IssueNext]_issueVars
  PROVE  Lined'
<1>1. MayLog /\ Numbered /\ Lined
  BY StepsMayLog DEF DeliveredOnce
<1>2. ToSet(cache) \subseteq 1 .. logged /\ ToSet(batch) \subseteq 1 .. logged
  BY <1>1 DEF Numbered, Dated
<1>3. CASE UNCHANGED <<order, cache, cacheVersion, issuePc, asked, batch, ingested, excused>>
  <2>1. /\ ToSet(order') = ToSet(order) /\ ToSet(cache') = ToSet(cache) /\ ToSet(batch') = ToSet(batch)
    BY <1>3
  <2>2. NextInLine(ToSet(cache), ToSet(order), ToSet(issues), logged)
          => NextInLine(ToSet(cache), ToSet(order'), ToSet(issues'), logged')
    BY <1>1, <1>2, <1>3, LinedStays
  <2>3. NextInLine(ToSet(batch), ToSet(order), ToSet(issues), logged)
          => NextInLine(ToSet(batch), ToSet(order'), ToSet(issues'), logged')
    BY <1>1, <1>2, <1>3, LinedStays
  <2> QED BY <1>1, <1>3, <2>1, <2>2, <2>3 DEF Lined, Undelivered
<1>4. CASE (\E isIssue \in BOOLEAN : LoggedElsewhere(isIssue)) \/ UNCHANGED issueVars
  BY <1>3, <1>4 DEF LoggedElsewhere, issueVars, cacheVars, seenVars, callVars, history
<1>5. CASE Collect
  <2>1. /\ issuePc = "idle" /\ issuePc' = "lookup" /\ asked' = version
        /\ UNCHANGED <<logged, issues, cacheVersion, cache, order, ingested, excused>>
    BY <1>5 DEF Collect, logVars, cacheVars, seenVars, history
  <2>2. cacheVersion = version =>
          /\ NextInLine(ToSet(cache), ToSet(order), ToSet(issues), logged)
          /\ Undelivered(ToSet(cache), ToSet(order))
    BY <2>1, RetainedLined DEF DeliveredOnce, CacheCurrent
  <2> QED BY <2>1, <2>2 DEF Lined, Undelivered
<1>6. CASE LookUp
  <2>1. /\ issuePc = "lookup"
        /\ \/ cacheVersion = asked /\ batch' = cache /\ issuePc' = "lifecycle"
           \/ issuePc' = "snapshot"
        /\ UNCHANGED <<logged, issues, order, ingested, excused>>
    BY <1>6 DEF LookUp, logVars, seenVars, history
  <2> QED BY <1>1, <2>1 DEF Lined, Undelivered
<1>7. CASE Snapshot
  <2>1. /\ issuePc = "snapshot" /\ issuePc' = "store" /\ batch' = RetainedIssues
        /\ UNCHANGED <<logged, issues, order, ingested, excused>>
    BY <1>7 DEF Snapshot, logVars, seenVars, history
  <2>2. /\ NextInLine(ToSet(batch'), ToSet(order), ToSet(issues), logged)
        /\ Undelivered(ToSet(batch'), ToSet(order))
    BY <2>1, RetainedLined
  <2> QED BY <2>1, <2>2 DEF Lined, Undelivered
<1>13. CASE Store
  <2>1. /\ issuePc = "store" /\ issuePc' = "lifecycle"
        /\ UNCHANGED <<logged, issues, order, batch, ingested, excused>>
    BY <1>13 DEF Store, logVars, seenVars, history
  <2> QED BY <1>1, <2>1 DEF Lined, Undelivered
<1>8. CASE PushLifecycle
  <2>1. issuePc = "lifecycle" /\ issuePc' = "filter" /\ UNCHANGED <<order, batch, ingested, excused>>
    BY <1>8 DEF PushLifecycle, seenVars, history
  <2>2. /\ NextInLine(ToSet(batch), ToSet(order), ToSet(issues), logged)
        /\ Undelivered(ToSet(batch), ToSet(order))
    BY <1>1, <2>1 DEF Lined
  <2>3. NextInLine(ToSet(batch), ToSet(order'), ToSet(issues'), logged')
    BY <1>1, <1>2, <2>1, <2>2, LinedStays
  <2> QED BY <2>1, <2>2, <2>3 DEF Lined, Undelivered
<1>9. CASE FilterNew
  <2>1. /\ issuePc = "filter"
        /\ \/ issuePc' = "push" /\ batch' = Unseen(batch, batch, Keys)
           \/ issuePc' = "idle"
        /\ UNCHANGED <<logged, issues, order, ingested, excused>>
    BY <1>9 DEF FilterNew, Return, logVars, seenVars, history
  <2>2. CASE issuePc' = "idle"
    BY <2>2 DEF Lined
  <2>3. CASE issuePc' = "push" /\ batch' = Unseen(batch, batch, Keys)
    <3>1. ToSet(batch') = ToSet(batch) \ ToSet(order)
      BY <1>1, <2>3, FreshIs
    <3>2. /\ NextInLine(ToSet(batch), ToSet(order), ToSet(issues), logged)
          /\ Undelivered(ToSet(batch), ToSet(order))
      BY <1>1, <2>1 DEF Lined
    <3>3. NextInLine(ToSet(batch'), ToSet(order), ToSet(issues), logged)
      BY <3>1, <3>2, FreshInLine
    <3>4. Undelivered(ToSet(batch'), ToSet(order)) /\ ToSet(batch') \cap ToSet(order) = {}
      BY <3>1, <3>2 DEF Undelivered
    <3> QED BY <2>1, <2>3, <3>3, <3>4 DEF Lined, Undelivered
  <2> QED BY <2>1, <2>2, <2>3
<1>10. CASE PushSucceeds
  <2>1. issuePc = "push" /\ issuePc' = "mark" /\ UNCHANGED <<logged, issues, order, batch>>
    BY <1>10 DEF PushSucceeds, logVars, seenVars
  <2> QED BY <1>1, <2>1 DEF Lined
<1>11. CASE PushFails
  <2>1. /\ issuePc = "push" /\ UNCHANGED order
        /\ \/ UNCHANGED <<ingested, excused>>
           \/ ingested' = ingested \cup ToSet(batch) /\ excused' = excused \cup ToSet(batch)
        /\ \/ issuePc' = "idle"
           \/ UNCHANGED <<logged, issues, issuePc, batch>>
    BY <1>11 DEF PushFails, PushGivesUp, Return, Ingest, logVars, seenVars
  <2>2. CASE issuePc' = "idle"
    BY <2>2 DEF Lined
  <2>3. CASE UNCHANGED <<logged, issues, issuePc, batch>>
    <3>1. /\ NextInLine(ToSet(batch), ToSet(order), ToSet(issues), logged)
          /\ Undelivered(ToSet(batch), ToSet(order))
          /\ ToSet(batch) \cap ToSet(order) = {}
      BY <1>1, <2>1 DEF Lined
    <3>2. ToSet(batch) \cap (ingested' \ excused') \subseteq ToSet(order)
      BY <2>1, <3>1 DEF Undelivered
    <3> QED BY <2>1, <2>3, <3>1, <3>2 DEF Lined, Undelivered
  <2> QED BY <2>1, <2>2, <2>3
<1>12. CASE MarkDelivered \/ Restart
  <2>1. issuePc' = "idle"
    BY <1>12, RestartIs DEF MarkDelivered, Return
  <2> QED BY <2>1 DEF Lined
<1> QED BY <1>4, <1>5, <1>6, <1>7, <1>8, <1>9, <1>10, <1>11, <1>12, <1>13, IssueSteps

LEMMA AgainStep ==
  ASSUME DeliveredOnce, [IssueNext]_issueVars
  PROVE  (again = {})'
<1>1. again = {} /\ Lined
  BY DEF DeliveredOnce
<1>2. CASE UNCHANGED again
  BY <1>1, <1>2
<1>3. CASE issuePc = "push" /\ again' = again \cup ((ToSet(batch) \cap ingested) \ excused)
  BY <1>1, <1>3 DEF Lined, Undelivered
<1>4. CASE PushSucceeds \/ PushFails
  BY <1>2, <1>3, <1>4 DEF PushSucceeds, PushFails, Ingest
<1>5. CASE (\E isIssue \in BOOLEAN : LoggedElsewhere(isIssue)) \/ UNCHANGED issueVars
  BY <1>2, <1>5 DEF LoggedElsewhere, issueVars, history
<1>6. CASE Collect \/ LookUp \/ Snapshot \/ Store \/ PushLifecycle \/ FilterNew \/ MarkDelivered \/ Restart
  BY <1>2, <1>6 DEF Collect, LookUp, Snapshot, Store, PushLifecycle, FilterNew, MarkDelivered, Restart,
     history
<1> QED BY <1>4, <1>5, <1>6, IssueSteps

(* Loki gets no issue twice but for a failed push that it had taken, a     *)
(* death before the mark was on disk or a start that could not load the    *)
(* seen cache, whenever the cache has room for the retained log, as it     *)
(* does: both limits are 20000 (daemon.go 117, 177, logs.go 24).           *)
THEOREM IssuesAreDeliveredOnce ==
  ASSUME MaxRetained <= SeenLimit
  PROVE  IssueSpec => []NoIssueRedelivered
<1> USE RetainedAssumption, SeenAssumption
<1>1. IssueInit => DeliveredOnce
  <2> SUFFICES ASSUME IssueInit PROVE DeliveredOnce
    OBVIOUS
  <2>1. /\ ToSet(issues) = {} /\ ToSet(order) = {} /\ ToSet(disk) = {}
        /\ durable = {} /\ ingested = {} /\ again = {} /\ issuePc = "idle"
    BY ToSetEmpty DEF IssueInit
  <2>2. Numbered
    BY NumberedInit
  <2>3. Sorted
    BY IncreasingEmpty DEF IssueInit, Sorted
  <2>4. CacheCurrent
    BY DEF IssueInit, CacheCurrent, None
  <2>5. Remembered
    BY <2>1 DEF Remembered, NoGaps
  <2>6. Accounted /\ Lined
    BY <2>1 DEF Accounted, Lined
  <2>7. MarksIngested
    BY <2>1 DEF MarksIngested
  <2> QED BY <2>1, <2>2, <2>3, <2>4, <2>5, <2>6, <2>7 DEF DeliveredOnce
<1>2. DeliveredOnce /\ [IssueNext]_issueVars => DeliveredOnce'
  <2> SUFFICES ASSUME DeliveredOnce, [IssueNext]_issueVars PROVE DeliveredOnce'
    OBVIOUS
  <2>1. Numbered /\ Sorted /\ CacheCurrent /\ MarksIngested /\ Lined
    BY DEF DeliveredOnce
  <2> QED BY <2>1, NumberedStep, SortedStep, CacheCurrentStep, MarksIngestedStep, RememberedStep, AccountedStep,
             LinedStep, AgainStep DEF DeliveredOnce
<1>3. DeliveredOnce => NoIssueRedelivered
  BY DEF DeliveredOnce, NoIssueRedelivered
<1> QED BY <1>1, <1>2, <1>3, PTL DEF IssueSpec

(***************************************************************************)
(* Workflow runs                                                           *)
(***************************************************************************)

(* Items that are all new and different are all kept.                      *)
LEMMA UnseenAll ==
  ASSUME NEW V, NEW items \in Seq(V), NEW seen,
         \A i \in 1 .. Len(items) : items[i] \notin seen,
         \A i, j \in 1 .. Len(items) : items[i] = items[j] => i = j
  PROVE  Unseen(items, items, seen) = items
<1> DEFINE n == Len(items)
<1>1. PICK f : Loop(items, items, seen, f, n) /\ Unseen(items, items, seen) = f[n]
  BY UnseenLoops
<1>2. n \in Nat /\ \A i \in 1 .. n : items[i] \in V
  BY LenProperties, ElementOfSeq
<1>3. \A i \in 1 .. n : ~Passed(items, seen, i)
  <2> SUFFICES ASSUME NEW i \in 1 .. n, NEW j \in 1 .. i - 1 PROVE items[j] # items[i]
    BY DEF Passed
  <2>1. j \in 1 .. n /\ j # i
    BY <1>2
  <2> QED BY <2>1
<1> HIDE DEF n
<1> DEFINE S == {i \in 0 .. n : f[i] \in Seq(V) /\ Len(f[i]) = i /\ \A j \in 1 .. i : f[i][j] = items[j]}
<1>4. \A i \in 0 .. n : f[i] = Turn(items, items, seen, f, i)
  BY <1>1 DEF Loop
<1>5. 0 \in S
  <2>1. f[0] = << >> /\ 0 \in 0 .. n
    BY <1>2, <1>4 DEF Turn
  <2>2. << >> \in Seq(V) /\ Len(<< >>) = 0 /\ 1 .. 0 = {}
    BY EmptySeq
  <2>3. f[0] \in Seq(V) /\ Len(f[0]) = 0 /\ \A j \in 1 .. 0 : f[0][j] = items[j]
    BY <2>1, <2>2
  <2> QED BY <2>1, <2>3
<1>6. ASSUME NEW i \in 1 .. n, i - 1 \in S PROVE i \in S
  <2> DEFINE g == f[i - 1]
  <2>1. i \in 0 .. n /\ i \in Nat /\ i # 0 /\ items[i] \in V
    BY <1>2
  <2>2. g \in Seq(V) /\ Len(g) = i - 1 /\ \A j \in 1 .. i - 1 : g[j] = items[j]
    BY <1>6
  <2>3. f[i] = Append(g, items[i])
    BY <1>3, <1>4, <2>1 DEF Turn
  <2> HIDE DEF g, S
  <2>4. /\ f[i] \in Seq(V) /\ Len(f[i]) = Len(g) + 1
        /\ \A j \in 1 .. Len(g) : f[i][j] = g[j]
        /\ f[i][Len(g) + 1] = items[i]
    BY <2>1, <2>2, <2>3, AppendProperties
  <2>5. Len(f[i]) = i /\ Len(g) + 1 = i
    BY <2>1, <2>2, <2>4
  <2>6. ASSUME NEW j \in 1 .. i PROVE f[i][j] = items[j]
    <3>1. j \in 1 .. i - 1 \/ j = i
      BY <2>1
    <3> QED BY <2>2, <2>4, <2>5, <3>1
  <2> QED BY <2>1, <2>4, <2>5, <2>6 DEF S
<1> HIDE DEF S
<1>7. \A i \in 0 .. n : i \in S
  BY <1>2, <1>5, <1>6, UpTo
<1>8. n \in S
  BY <1>2, <1>7
<1>9. f[n] \in Seq(V) /\ Len(f[n]) = Len(items) /\ \A j \in 1 .. Len(items) : f[n][j] = items[j]
  BY <1>8 DEF S, n
<1>10. f[n] = items
  BY <1>9, SeqEqual
<1> QED BY <1>1, <1>10

(* A key is among the last d + 1 of s.                                     *)
Near(k, s, d) == \E q \in 1 .. Len(s) : s[q] = k /\ Len(s) - q <= d

(* Every key of r is in s at least as near the end, but for those in X.    *)
Covers(s, r, X) == \A p \in 1 .. Len(r) : r[p] \in X \/ Near(r[p], s, Len(r) - p)

LEMMA CoversMore ==
  ASSUME NEW s, NEW r, NEW X, NEW Y, X \subseteq Y, Covers(s, r, X)
  PROVE  Covers(s, r, Y)
BY DEF Covers

LEMMA ConcatAt ==
  ASSUME NEW K, NEW s \in Seq(K), NEW b \in Seq(K)
  PROVE  /\ s \o b \in Seq(K) /\ Len(s) \in Nat /\ Len(b) \in Nat
         /\ Len(s \o b) = Len(s) + Len(b)
         /\ \A i \in 1 .. Len(s) : (s \o b)[i] = s[i]
         /\ \A i \in 1 .. Len(b) : (s \o b)[Len(s) + i] = b[i]
<1> DEFINE u == s \o b
<1>1. u \in Seq(K) /\ Len(u) = Len(s) + Len(b)
      /\ \A i \in 1 .. Len(s) + Len(b) : u[i] = IF i <= Len(s) THEN s[i] ELSE b[i - Len(s)]
  BY ConcatProperties
<1>2. Len(s) \in Nat /\ Len(b) \in Nat
  BY LenProperties
<1> HIDE DEF u
<1>3. ASSUME NEW i \in 1 .. Len(s) PROVE u[i] = s[i]
  <2>1. i \in 1 .. Len(s) + Len(b) /\ i <= Len(s)
    BY <1>2
  <2> QED BY <1>1, <2>1
<1>4. ASSUME NEW i \in 1 .. Len(b) PROVE u[Len(s) + i] = b[i]
  <2>1. Len(s) + i \in 1 .. Len(s) + Len(b) /\ ~(Len(s) + i <= Len(s)) /\ Len(s) + i - Len(s) = i
    BY <1>2
  <2> QED BY <1>1, <2>1
<1> QED BY <1>1, <1>2, <1>3, <1>4 DEF u

LEMMA CoversConcat ==
  ASSUME NEW K, NEW s \in Seq(K), NEW r \in Seq(K), NEW b \in Seq(K), NEW X, Covers(s, r, X)
  PROVE  Covers(s \o b, r \o b, X)
<1> DEFINE u == s \o b
           v == r \o b
<1>1. /\ Len(s) \in Nat /\ Len(b) \in Nat /\ Len(u) = Len(s) + Len(b)
      /\ \A i \in 1 .. Len(s) : u[i] = s[i]
      /\ \A i \in 1 .. Len(b) : u[Len(s) + i] = b[i]
  BY ConcatAt
<1>2. /\ Len(r) \in Nat /\ Len(v) = Len(r) + Len(b)
      /\ \A i \in 1 .. Len(r) : v[i] = r[i]
      /\ \A i \in 1 .. Len(b) : v[Len(r) + i] = b[i]
  BY ConcatAt
<1> HIDE DEF u, v
<1>3. ASSUME NEW p \in 1 .. Len(v), v[p] \notin X PROVE Near(v[p], u, Len(v) - p)
  <2>1. CASE p \in 1 .. Len(r)
    <3>1. v[p] = r[p] /\ Near(r[p], s, Len(r) - p)
      BY <1>2, <1>3, <2>1 DEF Covers
    <3>2. PICK q \in 1 .. Len(s) : s[q] = r[p] /\ Len(s) - q <= Len(r) - p
      BY <3>1 DEF Near
    <3>3. q \in 1 .. Len(u) /\ Len(u) - q <= Len(v) - p
      BY <1>1, <1>2, <2>1, <3>2
    <3> QED BY <1>1, <3>1, <3>2, <3>3 DEF Near
  <2>2. CASE p \notin 1 .. Len(r)
    <3>1. PICK i : i = p - Len(r)
      OBVIOUS
    <3>2. i \in 1 .. Len(b) /\ p = Len(r) + i
      BY <1>2, <2>2, <3>1, <1>1
    <3>3. Len(s) + i \in 1 .. Len(u) /\ Len(u) - (Len(s) + i) <= Len(v) - p
      BY <1>1, <1>2, <3>2
    <3>4. u[Len(s) + i] = v[p]
      BY <1>1, <1>2, <3>2
    <3> QED BY <3>3, <3>4 DEF Near
  <2> QED BY <2>1, <2>2
<1> QED BY <1>3 DEF Covers, u, v

LEMMA CoversLater ==
  ASSUME NEW K, NEW s \in Seq(K), NEW r \in Seq(K), NEW b \in Seq(K), NEW X, Covers(s, r, X)
  PROVE  Covers(s, r \o b, X \cup ToSet(b))
<1> DEFINE v == r \o b
<1>1. /\ Len(s) \in Nat /\ Len(b) \in Nat /\ \A i \in 1 .. Len(b) : b[i] \in ToSet(b)
  BY ToSetMeans
<1>2. /\ Len(r) \in Nat /\ Len(v) = Len(r) + Len(b)
      /\ \A i \in 1 .. Len(r) : v[i] = r[i]
      /\ \A i \in 1 .. Len(b) : v[Len(r) + i] = b[i]
  BY ConcatAt
<1> HIDE DEF v
<1>3. ASSUME NEW p \in 1 .. Len(v), v[p] \notin X, v[p] \notin ToSet(b)
      PROVE  Near(v[p], s, Len(v) - p)
  <2>1. CASE p \in 1 .. Len(r)
    <3>1. v[p] = r[p] /\ Near(r[p], s, Len(r) - p)
      BY <1>2, <1>3, <2>1 DEF Covers
    <3>2. PICK q \in 1 .. Len(s) : s[q] = r[p] /\ Len(s) - q <= Len(r) - p
      BY <3>1 DEF Near
    <3>3. Len(s) - q <= Len(v) - p
      BY <1>1, <1>2, <2>1, <3>2
    <3> QED BY <3>1, <3>2, <3>3 DEF Near
  <2>2. CASE p \notin 1 .. Len(r)
    <3>1. PICK i : i = p - Len(r)
      OBVIOUS
    <3>2. i \in 1 .. Len(b) /\ p = Len(r) + i
      BY <1>2, <2>2, <3>1, <1>1
    <3>3. v[p] = b[i]
      BY <1>2, <3>2
    <3> QED BY <1>1, <1>3, <3>2, <3>3
  <2> QED BY <2>1, <2>2
<1> QED BY <1>3 DEF Covers, v

(* Trimming what is covered, or what covers as many as are kept.           *)
LEMMA CoversTrimmed ==
  ASSUME NEW K, NEW s, NEW r \in Seq(K), NEW X, SeenLimit \in Nat, Covers(s, r, X)
  PROVE  Covers(s, Trim(r), X)
<1> DEFINE t == Trim(r)
           d == Excess(r)
<1>1. /\ d \in 0 .. Len(r) /\ Len(t) = Len(r) - d /\ Len(r) \in Nat
      /\ \A i \in 1 .. Len(t) : t[i] = r[i + d]
  BY TrimIs, LenProperties
<1> HIDE DEF t, d
<1>2. ASSUME NEW p \in 1 .. Len(t) PROVE t[p] \in X \/ Near(t[p], s, Len(t) - p)
  <2>1. p + d \in 1 .. Len(r) /\ Len(r) - (p + d) = Len(t) - p
    BY <1>1
  <2> QED BY <1>1, <2>1 DEF Covers
<1> QED BY <1>2 DEF Covers, t

LEMMA TrimCovers ==
  ASSUME NEW K, NEW s \in Seq(K), NEW r \in Seq(K), NEW X, SeenLimit \in Nat, Covers(s, r, X),
         Len(r) <= SeenLimit
  PROVE  Covers(Trim(s), r, X)
<1> DEFINE t == Trim(s)
           d == Excess(s)
<1>1. /\ d \in 0 .. Len(s) /\ Len(t) = Len(s) - d /\ Len(s) \in Nat /\ Len(r) \in Nat
      /\ \A i \in 1 .. Len(t) : t[i] = s[i + d]
  BY TrimIs, LenProperties
<1>2. d = 0 \/ Len(s) - d = SeenLimit
  BY <1>1 DEF Excess
<1> HIDE DEF t, d
<1>3. ASSUME NEW p \in 1 .. Len(r), r[p] \notin X PROVE Near(r[p], t, Len(r) - p)
  <2>1. PICK q \in 1 .. Len(s) : s[q] = r[p] /\ Len(s) - q <= Len(r) - p
    BY <1>3 DEF Covers, Near
  <2>2. PICK i : i = q - d
    OBVIOUS
  <2>3. i \in 1 .. Len(t) /\ i + d = q /\ Len(t) - i <= Len(r) - p
    BY <1>1, <1>2, <2>1, <2>2
  <2> QED BY <1>1, <2>1, <2>3 DEF Near
<1> QED BY <1>3 DEF Covers, t

(* A trimmed sequence has nothing else.                                    *)
LEMMA TrimSubset ==
  ASSUME NEW K, NEW s \in Seq(K), SeenLimit \in Nat
  PROVE  ToSet(Trim(s)) \subseteq ToSet(s)
<1> DEFINE t == Trim(s)
           d == Excess(s)
<1>1. /\ t \in Seq(K) /\ d \in 0 .. Len(s) /\ Len(t) = Len(s) - d
      /\ \A i \in 1 .. Len(t) : t[i] = s[i + d]
  BY TrimIs
<1>2. Len(s) \in Nat /\ \A i \in 1 .. Len(s) : s[i] \in ToSet(s)
  BY ToSetMeans
<1>3. \A x : x \in ToSet(t) <=> \E i \in 1 .. Len(t) : t[i] = x
  BY <1>1, ToSetMeans
<1> HIDE DEF t, d
<1>4. \A i \in 1 .. Len(t) : i + d \in 1 .. Len(s)
  BY <1>1, <1>2
<1>5. ToSet(t) \subseteq ToSet(s)
  BY <1>1, <1>2, <1>3, <1>4
<1> QED BY <1>5 DEF t

LEMMA FunctionIsSeq ==
  ASSUME NEW S, NEW n \in Nat, NEW f \in [1 .. n -> S]
  PROVE  f \in Seq(S) /\ Len(f) = n
<1>1. f \in Seq(S)
  BY SeqDef
<1>2. Len(f) \in Nat /\ 1 .. Len(f) = 1 .. n
  BY <1>1, LenProperties
<1> QED BY <1>1, <1>2

LEMMA SeqSubset ==
  ASSUME NEW S, NEW T, S \subseteq T, NEW s \in Seq(S)
  PROVE  s \in Seq(T)
<1>1. Len(s) \in Nat /\ s \in [1 .. Len(s) -> S]
  BY LenProperties
<1>2. s \in [1 .. Len(s) -> T]
  BY <1>1
<1> QED BY <1>1, <1>2, FunctionIsSeq

(* Keys are from some set: which runs are listed when does not matter.     *)
KeysIn(K) ==
  /\ runOrder \in Seq(K)
  /\ runDisk \in Seq(K)
  /\ recent \in Seq(K)
  /\ runBatch \in Seq(K)

RunsTyped ==
  /\ \E K : KeysIn(K)
  /\ IsFiniteSet(done)
  /\ Len(recent) <= SeenLimit

(* What filterNew let through has keys of its own that are not yet seen.   *)
RunsFresh ==
  runPc \in {"enrich", "push", "mark"} =>
    /\ \A k, l \in 1 .. Len(runBatch) : runBatch[k] = runBatch[l] => k = l
    /\ \A k \in 1 .. Len(runBatch) : runBatch[k] \notin ToSet(runOrder)

(* The seen cache, with the batch that is being marked, covers what was    *)
(* last delivered, and its file covers what would not be excused by a      *)
(* restart.                                                                *)
RunsCovered ==
  /\ Covers(IF runPc = "mark" THEN runOrder \o runBatch ELSE runOrder, recent, runExcused)
  /\ Covers(runDisk, recent, runExcused \cup (runIngested \ runDurable))

(* What was last delivered, Loki has.                                      *)
RecentIngested == ToSet(recent) \subseteq runIngested

LEMMA RunSteps ==
  ASSUME [WorkflowNext]_workflowVars
  PROVE  \/ \E r \in Runs : Complete(r) \/ RunAgain(r)
         \/ \E g \in Classes : AuditTakesBatch(g)
         \/ CollectWorkflowMetrics \/ ListWorkflowRepos \/ ListRecentWorkflowRuns
         \/ FilterNewRuns \/ EnrichWorkflowMetrics \/ PushRunsSucceeds
         \/ PushRunsFails \/ MarkRunsDelivered \/ WorkflowRestart
         \/ UNCHANGED workflowVars
BY DEF WorkflowNext, WorkflowStep

(***************************************************************************)
(* The steps, as far as the proofs need them.                              *)
(***************************************************************************)
Delivery == <<runOrder, runDisk, recent, runIngested, runDurable, runExcused, runAgain>>

LEMMA GitHubSteps ==
  ASSUME NEW r, Complete(r) \/ RunAgain(r)
  PROVE  /\ UNCHANGED <<Delivery, runPc, runBatch>>
         /\ done' = done \cup {r} \/ done' = done \ {r}
BY DEF Complete, RunAgain, runSeenVars, runCallVars,
   lokiVars, runHistory, Delivery

LEMMA AuditSteps ==
  ASSUME NEW g, AuditTakesBatch(g)
  PROVE  UNCHANGED <<Delivery, runPc, runBatch, done>>
BY DEF AuditTakesBatch, githubVars, runSeenVars, runCallVars,
   lokiVars, runHistory, Delivery

LEMMA ListSteps ==
  ASSUME CollectWorkflowMetrics \/ ListWorkflowRepos
  PROVE  /\ UNCHANGED <<Delivery, done>> /\ (runBatch' = runBatch \/ runBatch' = << >>)
         /\ runPc \in {"idle", "repos"} /\ runPc' \in {"idle", "repos", "list"}
BY DEF CollectWorkflowMetrics, ListWorkflowRepos, NextGroup, githubVars,
   runSeenVars, lokiVars, runHistory, Delivery

LEMMA ListingSteps ==
  ASSUME ListRecentWorkflowRuns
  PROVE  UNCHANGED <<Delivery, done, runPc>> /\ runPc = "list"
BY DEF ListRecentWorkflowRuns, githubVars, runSeenVars,
   lokiVars, runHistory, Delivery

LEMMA FilterSteps ==
  ASSUME FilterNewRuns
  PROVE  /\ UNCHANGED <<Delivery, done>> /\ runPc = "list"
         /\ \/ runBatch' = << >> /\ runPc' \in {"idle", "repos"}
            \/ /\ runBatch' = Unseen(runBatch, runBatch, ToSet(runOrder))
               /\ runPc' = "enrich"
BY DEF FilterNewRuns, NextGroup, githubVars, runSeenVars,
   lokiVars, runHistory, Delivery

LEMMA EnrichSteps ==
  ASSUME EnrichWorkflowMetrics
  PROVE  /\ UNCHANGED <<Delivery, done>> /\ runPc = "enrich" /\ runPc' = "push"
         /\ UNCHANGED runBatch
BY DEF EnrichWorkflowMetrics, githubVars, runSeenVars,
   lokiVars, runHistory, Delivery

LEMMA SuccessSteps ==
  ASSUME PushRunsSucceeds
  PROVE  /\ UNCHANGED <<runOrder, runDisk, runExcused, runBatch, done>>
         /\ runPc = "push" /\ runPc' = "mark"
         /\ recent' = Trim(recent \o runBatch)
         /\ runIngested' = runIngested \cup ToSet(runBatch)
         /\ runDurable' = runDurable \ ToSet(runBatch)
         /\ runAgain' = runAgain \cup ((ToSet(runBatch) \cap ToSet(recent)) \ runExcused)
BY DEF PushRunsSucceeds, IngestRuns, githubVars, runSeenVars, Trim

LEMMA FailureSteps ==
  ASSUME PushRunsFails
  PROVE  /\ UNCHANGED <<runOrder, runDisk, recent, runDurable, done>>
         /\ runPc = "push" /\ runPc' \in {"idle", "repos"} /\ runBatch' = << >>
         /\ \/ UNCHANGED <<runIngested, runExcused, runAgain>>
            \/ /\ runIngested' = runIngested \cup ToSet(runBatch)
               /\ runExcused' = runExcused \cup ToSet(runBatch)
               /\ runAgain' = runAgain \cup ((ToSet(runBatch) \cap ToSet(recent)) \ runExcused)
BY DEF PushRunsFails, IngestRuns, NextGroup, githubVars,
   runSeenVars, lokiVars

LEMMA MarkSteps ==
  ASSUME MarkRunsDelivered
  PROVE  /\ UNCHANGED <<recent, runIngested, runExcused, runAgain, done>>
         /\ runPc = "mark" /\ runPc' \in {"idle", "repos"} /\ runBatch' = << >>
         /\ runOrder' = WithKeys(runOrder, runBatch)
         /\ \/ runDisk' = runOrder' /\ runDurable' = runDurable \cup ToSet(runOrder')
            \/ UNCHANGED <<runDisk, runDurable>>
BY DEF MarkRunsDelivered, NextGroup, githubVars, lokiVars

LEMMA RestartSteps ==
  ASSUME WorkflowRestart
  PROVE  /\ UNCHANGED <<recent, runIngested, runDurable, runAgain, done>>
         /\ runPc' = "idle" /\ runBatch' = << >>
         /\ \/ /\ runOrder' = runDisk /\ UNCHANGED runDisk
               /\ runExcused' = runExcused \cup (runIngested \ runDurable)
            \/ /\ runOrder' = << >> /\ runDisk' \in {runDisk, << >>}
               /\ runExcused' = runExcused \cup runIngested
BY DEF WorkflowRestart, LoadRuns, LoadRunsFails, githubVars, lokiVars

LEMMA StutterSteps ==
  ASSUME UNCHANGED workflowVars
  PROVE  UNCHANGED <<Delivery, runPc, runBatch, done>>
BY DEF workflowVars, githubVars, runSeenVars, runCallVars,
   lokiVars, runHistory, Delivery

(* What filterNew keeps.                                                   *)
LEMMA FilteredIs ==
  ASSUME NEW K, runBatch \in Seq(K), NEW seen, NEW b,
         b = Unseen(runBatch, runBatch, seen)
  PROVE  /\ b \in Seq(K)
         /\ \A k, l \in 1 .. Len(b) : b[k] = b[l] => k = l
         /\ \A k \in 1 .. Len(b) : b[k] \notin seen
<1>1. b \in Seq(K)
  BY UnseenSelects
<1>2. PICK at : Selection(runBatch, runBatch, seen, Len(runBatch), b, at)
  BY UnseenSelects
<1>3. Len(runBatch) \in Nat
  BY LenProperties
<1>4. Len(b) \in Nat
  BY <1>1, LenProperties
<1>5. \A k \in 1 .. Len(b) : /\ at[k] \in 1 .. Len(runBatch) /\ b[k] = runBatch[at[k]]
                             /\ ~Passed(runBatch, seen, at[k])
  BY <1>2 DEF Selection
<1>6. \A k \in 1 .. Len(b) : b[k] \notin seen
  BY <1>5 DEF Passed
<1>7. ASSUME NEW k \in 1 .. Len(b), NEW l \in 1 .. Len(b), k < l PROVE b[k] # b[l]
  <2>1. at[k] < at[l]
    BY <1>2, <1>7 DEF Selection
  <2>2. at[k] \in 1 .. at[l] - 1
    BY <1>3, <1>5, <2>1
  <2> QED BY <1>5, <2>2 DEF Passed
<1>8. ASSUME NEW k \in 1 .. Len(b), NEW l \in 1 .. Len(b), b[k] = b[l] PROVE k = l
  <2>1. ~(k < l) /\ ~(l < k)
    BY <1>7, <1>8
  <2> QED BY <1>4, <2>1
<1> QED BY <1>1, <1>6, <1>8

(* A repository's listing is a sequence of runs, whatever GitHub has done. *)
LEMMA ListedIs ==
  ASSUME IsFiniteSet(done), NEW repo
  PROVE  \E n \in Nat : DOMAIN NewestFirst(Listing(repo)) = 1 .. n
<1> DEFINE rs == Listing(repo)
<1>1. rs \subseteq done
  BY DEF Listing
<1>2. IsFiniteSet(rs)
  BY <1>1, FS_Subset
<1> HIDE DEF rs
<1>3. Cardinality(rs) \in Nat
  BY <1>2, FS_CardinalityType
<1>4. Cardinality(rs) = Cardinality(rs)
  BY DEF Cardinality, Cardinality
<1>5. DOMAIN NewestFirst(rs) = 1 .. Cardinality(rs)
  BY <1>4 DEF NewestFirst
<1> QED BY <1>3, <1>5 DEF rs

LEMMA ListingTyped ==
  ASSUME NEW K, KeysIn(K), IsFiniteSet(done), ListRecentWorkflowRuns
  PROVE  (\E L : KeysIn(L))'
<1> DEFINE rs == NewestFirst(Listing(Head(todo)))
           key(r) == WorkflowMetricKey(r)
           L == K \cup {key(rs[k]) : k \in DOMAIN rs}
           add == [k \in DOMAIN rs |-> key(rs[k])]
<1>1. runBatch' = runBatch \/ runBatch' = runBatch \o add
  BY DEF ListRecentWorkflowRuns
<1>2. PICK n \in Nat : DOMAIN rs = 1 .. n
  BY ListedIs
<1>3. K \subseteq L
  OBVIOUS
<1>4. add \in [1 .. n -> L]
  BY <1>2
<1> HIDE DEF add, L, key, rs
<1>5. add \in Seq(L)
  BY <1>2, <1>4, FunctionIsSeq
<1>6. runOrder \in Seq(L) /\ runDisk \in Seq(L) /\ recent \in Seq(L) /\ runBatch \in Seq(L)
  BY <1>3, SeqSubset DEF KeysIn
<1>7. runBatch' \in Seq(L)
  BY <1>1, <1>5, <1>6, ConcatProperties
<1>8. runOrder' \in Seq(L) /\ runDisk' \in Seq(L) /\ recent' \in Seq(L)
  BY <1>6, ListingSteps DEF Delivery
<1>9. \E M : runOrder' \in Seq(M) /\ runDisk' \in Seq(M) /\ recent' \in Seq(M) /\ runBatch' \in Seq(M)
  BY <1>7, <1>8
<1> QED BY <1>9 DEF KeysIn

(* Delivered keys are appended to what was last delivered, and to the seen *)
(* cache.                                                                  *)
LEMMA AppendedIs ==
  ASSUME SeenLimit \in Nat, NEW K, KeysIn(K)
  PROVE  /\ Trim(recent \o runBatch) \in Seq(K)
         /\ Len(Trim(recent \o runBatch)) <= SeenLimit
         /\ WithKeys(runOrder, runBatch) \in Seq(K)
<1>1. recent \in Seq(K) /\ runOrder \in Seq(K) /\ runBatch \in Seq(K)
  BY DEF KeysIn
<1>2. recent \o runBatch \in Seq(K)
  BY <1>1, ConcatProperties
<1>3. Unseen(runBatch, runBatch, ToSet(runOrder)) \in Seq(K)
  BY <1>1, UnseenSelects
<1>4. runOrder \o Unseen(runBatch, runBatch, ToSet(runOrder)) \in Seq(K)
  BY <1>1, <1>3, ConcatProperties
<1> QED BY <1>2, <1>4, TrimIs DEF WithKeys

LEMMA RunsTypedStep ==
  ASSUME SeenLimit \in Nat, RunsTyped, [WorkflowNext]_workflowVars
  PROVE  RunsTyped'
<1>1. PICK K : KeysIn(K)
  BY DEF RunsTyped
<1>2. IsFiniteSet(done) /\ Len(recent) <= SeenLimit
  BY DEF RunsTyped
<1>3. /\ runOrder \in Seq(K) /\ runDisk \in Seq(K) /\ recent \in Seq(K)
      /\ runBatch \in Seq(K) /\ << >> \in Seq(K)
  BY <1>1, EmptySeq DEF KeysIn
<1>4. ASSUME runOrder' \in Seq(K), runDisk' \in Seq(K), recent' \in Seq(K), runBatch' \in Seq(K),
             IsFiniteSet(done'), Len(recent') <= SeenLimit
      PROVE  RunsTyped'
  <2>1. \E M : runOrder' \in Seq(M) /\ runDisk' \in Seq(M) /\ recent' \in Seq(M) /\ runBatch' \in Seq(M)
    BY <1>4
  <2> QED BY <1>4, <2>1 DEF RunsTyped, KeysIn
<1>5. ASSUME NEW r, Complete(r) \/ RunAgain(r)
      PROVE  RunsTyped'
  <2>1. IsFiniteSet(done \cup {r})
    BY <1>2, FS_AddElement
  <2>2. IsFiniteSet(done \ {r})
    BY <1>2, FS_RemoveElement
  <2>3. UNCHANGED <<Delivery, runPc, runBatch>> /\ (done' = done \cup {r} \/ done' = done \ {r})
    BY <1>5, GitHubSteps
  <2> QED BY <1>2, <1>3, <1>4, <2>1, <2>2, <2>3 DEF Delivery
<1>6. CASE CollectWorkflowMetrics \/ ListWorkflowRepos
  BY <1>2, <1>3, <1>4, <1>6, ListSteps DEF Delivery
<1>7. CASE ListRecentWorkflowRuns
  <2>1. (\E L : KeysIn(L))'
    BY <1>1, <1>2, <1>7, ListingTyped
  <2>2. done' = done /\ recent' = recent
    BY <1>7, ListingSteps DEF Delivery
  <2> QED BY <1>2, <2>1, <2>2 DEF RunsTyped
<1>8. CASE FilterNewRuns
  <2>1. Unseen(runBatch, runBatch, ToSet(runOrder)) \in Seq(K)
    BY <1>3, UnseenSelects
  <2> QED BY <1>2, <1>3, <1>4, <1>8, <2>1, FilterSteps DEF Delivery
<1>9. CASE EnrichWorkflowMetrics
  BY <1>2, <1>3, <1>4, <1>9, EnrichSteps DEF Delivery
<1>10. CASE PushRunsSucceeds
  BY <1>1, <1>2, <1>3, <1>4, <1>10, SuccessSteps, AppendedIs
<1>11. CASE PushRunsFails
  BY <1>2, <1>3, <1>4, <1>11, FailureSteps
<1>12. CASE MarkRunsDelivered
  BY <1>1, <1>2, <1>3, <1>4, <1>12, MarkSteps, AppendedIs
<1>13. CASE WorkflowRestart
  BY <1>2, <1>3, <1>4, <1>13, RestartSteps
<1>14. CASE UNCHANGED workflowVars \/ \E g \in Classes : AuditTakesBatch(g)
  BY <1>2, <1>3, <1>4, <1>14, StutterSteps, AuditSteps DEF Delivery
<1> QED BY <1>5, <1>6, <1>7, <1>8, <1>9, <1>10, <1>11, <1>12, <1>13, <1>14, RunSteps

LEMMA RunsFreshStep ==
  ASSUME RunsTyped, RunsFresh, [WorkflowNext]_workflowVars
  PROVE  RunsFresh'
<1>1. PICK K : runBatch \in Seq(K)
  BY DEF RunsTyped, KeysIn
<1>2. CASE runPc' \notin {"enrich", "push", "mark"}
  BY <1>2 DEF RunsFresh
<1>3. CASE UNCHANGED <<runOrder, runPc, runBatch>>
  BY <1>3 DEF RunsFresh
<1>4. ASSUME NEW r, Complete(r) \/ RunAgain(r)
      PROVE  RunsFresh'
  BY <1>3, <1>4, GitHubSteps DEF Delivery
<1>5. CASE CollectWorkflowMetrics \/ ListWorkflowRepos
  BY <1>2, <1>5, ListSteps
<1>6. CASE ListRecentWorkflowRuns
  BY <1>2, <1>6, ListingSteps
<1>7. CASE FilterNewRuns
  <2>1. CASE runBatch' = Unseen(runBatch, runBatch, ToSet(runOrder))
    <3>1. /\ \A k, l \in 1 .. Len(runBatch') : runBatch'[k] = runBatch'[l] => k = l
          /\ \A k \in 1 .. Len(runBatch') : runBatch'[k] \notin ToSet(runOrder)
      BY <1>1, <2>1, FilteredIs
    <3>2. runOrder' = runOrder
      BY <1>7, FilterSteps DEF Delivery
    <3> QED BY <3>1, <3>2 DEF RunsFresh
  <2> QED BY <1>2, <1>7, <2>1, FilterSteps
<1>8. CASE EnrichWorkflowMetrics
  BY <1>8, EnrichSteps DEF RunsFresh, Delivery
<1>9. CASE PushRunsSucceeds
  BY <1>9, SuccessSteps DEF RunsFresh
<1>10. CASE PushRunsFails \/ MarkRunsDelivered \/ WorkflowRestart
  BY <1>2, <1>10, FailureSteps, MarkSteps, RestartSteps
<1>11. CASE UNCHANGED workflowVars \/ \E g \in Classes : AuditTakesBatch(g)
  BY <1>3, <1>11, StutterSteps, AuditSteps DEF Delivery
<1> QED BY <1>4, <1>5, <1>6, <1>7, <1>8, <1>9, <1>10, <1>11, RunSteps

(* At a push, Loki has none of the batch among what it was given last, but *)
(* what is excused.                                                        *)
LEMMA NothingTwice ==
  ASSUME RunsTyped, RunsFresh, RunsCovered, runPc = "push"
  PROVE  (ToSet(runBatch) \cap ToSet(recent)) \ runExcused = {}
<1>1. PICK K : KeysIn(K)
  BY DEF RunsTyped
<1> DEFINE b == runBatch
<1>2. b \in Seq(K) /\ \A k \in 1 .. Len(b) : runPc = "push" => b[k] \notin ToSet(runOrder)
  BY <1>1 DEF KeysIn, RunsFresh
<1>3. recent \in Seq(K) /\ runOrder \in Seq(K)
  BY <1>1 DEF KeysIn
<1> HIDE DEF b
<1> SUFFICES ASSUME NEW x \in ToSet(b), x \in ToSet(recent), x \notin runExcused PROVE FALSE
  BY DEF b
<1>4. PICK p \in 1 .. Len(recent) : recent[p] = x
  BY <1>3, ToSetMeans
<1>5. Near(x, runOrder, Len(recent) - p)
  BY <1>4 DEF RunsCovered, Covers
<1>6. x \in ToSet(runOrder)
  BY <1>3, <1>5, ToSetMeans DEF Near
<1>7. PICK k \in 1 .. Len(b) : b[k] = x
  BY <1>2, ToSetMeans
<1> QED BY <1>2, <1>6, <1>7

LEMMA RecentIngestedStep ==
  ASSUME SeenLimit \in Nat, RunsTyped, RecentIngested, [WorkflowNext]_workflowVars
  PROVE  RecentIngested'
<1>1. PICK K : KeysIn(K)
  BY DEF RunsTyped
<1> DEFINE b == runBatch
<1>2. recent \in Seq(K) /\ b \in Seq(K)
  BY <1>1 DEF KeysIn
<1>3. CASE UNCHANGED recent /\ runIngested \subseteq runIngested'
  BY <1>3 DEF RecentIngested
<1>4. ASSUME NEW r, Complete(r) \/ RunAgain(r)
      PROVE  RecentIngested'
  BY <1>3, <1>4, GitHubSteps DEF Delivery
<1>5. CASE CollectWorkflowMetrics \/ ListWorkflowRepos \/ ListRecentWorkflowRuns
           \/ FilterNewRuns \/ EnrichWorkflowMetrics
  BY <1>3, <1>5, ListSteps, ListingSteps, FilterSteps, EnrichSteps DEF Delivery
<1>6. CASE PushRunsSucceeds
  <2>1. recent' = Trim(recent \o b) /\ runIngested' = runIngested \cup ToSet(b)
    BY <1>6, SuccessSteps
  <2> HIDE DEF b
  <2>2. recent \o b \in Seq(K) /\ ToSet(recent \o b) = ToSet(recent) \cup ToSet(b)
    BY <1>2, ToSetConcat, ConcatProperties
  <2>3. ToSet(Trim(recent \o b)) \subseteq ToSet(recent \o b)
    BY <2>2, TrimSubset
  <2> QED BY <2>1, <2>2, <2>3 DEF RecentIngested
<1>7. CASE PushRunsFails
  BY <1>3, <1>7, FailureSteps
<1>8. CASE \/ MarkRunsDelivered \/ WorkflowRestart \/ UNCHANGED workflowVars
           \/ \E g \in Classes : AuditTakesBatch(g)
  BY <1>3, <1>8, MarkSteps, RestartSteps, StutterSteps, AuditSteps DEF Delivery
<1> QED BY <1>4, <1>5, <1>6, <1>7, <1>8, RunSteps

LEMMA RunsCoveredStep ==
  ASSUME SeenLimit \in Nat, RunsTyped, RunsFresh, RunsCovered, RecentIngested, [WorkflowNext]_workflowVars
  PROVE  RunsCovered'
<1>1. PICK K : KeysIn(K)
  BY DEF RunsTyped
<1> DEFINE b == runBatch
           X == runExcused
           Y == runExcused \cup (runIngested \ runDurable)
<1>2. runOrder \in Seq(K) /\ runDisk \in Seq(K) /\ recent \in Seq(K) /\ b \in Seq(K)
  BY <1>1 DEF KeysIn
<1>3. Len(recent) <= SeenLimit
  BY DEF RunsTyped
<1>4. /\ runPc # "mark" => Covers(runOrder, recent, X)
      /\ runPc = "mark" => Covers(runOrder \o b, recent, X)
      /\ Covers(runDisk, recent, Y)
  BY DEF RunsCovered
<1>5. CASE UNCHANGED Delivery /\ runPc # "mark" /\ runPc' # "mark"
  BY <1>4, <1>5 DEF Delivery, RunsCovered
<1>6. CASE UNCHANGED <<Delivery, runPc, runBatch>>
  BY <1>4, <1>6 DEF Delivery, RunsCovered
<1>7. ASSUME NEW r, Complete(r) \/ RunAgain(r)
      PROVE  RunsCovered'
  BY <1>6, <1>7, GitHubSteps
<1>8. CASE UNCHANGED workflowVars \/ \E g \in Classes : AuditTakesBatch(g)
  BY <1>6, <1>8, StutterSteps, AuditSteps
<1>9. CASE CollectWorkflowMetrics \/ ListWorkflowRepos \/ ListRecentWorkflowRuns
  BY <1>5, <1>9, ListSteps, ListingSteps
<1>10. CASE FilterNewRuns \/ EnrichWorkflowMetrics
  BY <1>5, <1>10, FilterSteps, EnrichSteps
<1>11. CASE PushRunsSucceeds
  <2>1. /\ UNCHANGED <<runOrder, runDisk, runExcused, runBatch>> /\ runPc = "push" /\ runPc' = "mark"
        /\ recent' = Trim(recent \o b)
        /\ runIngested' = runIngested \cup ToSet(b)
        /\ runDurable' = runDurable \ ToSet(b)
    BY <1>11, SuccessSteps
  <2>2. runBatch' = b
    BY <2>1
  <2> HIDE DEF b
  <2>3. recent \o b \in Seq(K)
    BY <1>2, ConcatProperties
  <2>4. Covers(runOrder \o b, recent \o b, X)
    BY <1>2, <1>4, <2>1, CoversConcat
  <2>5. Covers(runOrder \o b, Trim(recent \o b), X)
    BY <2>3, <2>4, CoversTrimmed
  <2>6. Covers(runDisk, recent \o b, Y \cup ToSet(b))
    BY <1>2, <1>4, CoversLater
  <2>7. Covers(runDisk, Trim(recent \o b), Y \cup ToSet(b))
    BY <2>3, <2>6, CoversTrimmed
  <2>8. Y \cup ToSet(b) \subseteq runExcused' \cup (runIngested' \ runDurable')
    BY <2>1
  <2>9. Covers(runDisk, Trim(recent \o b), runExcused' \cup (runIngested' \ runDurable'))
    BY <2>7, <2>8, CoversMore
  <2> QED BY <2>1, <2>2, <2>5, <2>9 DEF RunsCovered
<1>12. CASE PushRunsFails
  <2>1. /\ UNCHANGED <<runOrder, runDisk, recent, runDurable>> /\ runPc = "push" /\ runPc' # "mark"
        /\ X \subseteq runExcused' /\ runIngested \subseteq runIngested'
    BY <1>12, FailureSteps
  <2>2. Y \subseteq runExcused' \cup (runIngested' \ runDurable')
    BY <2>1
  <2>3. Covers(runOrder, recent, runExcused') /\ Covers(runDisk, recent, runExcused' \cup (runIngested' \ runDurable'))
    BY <1>4, <2>1, <2>2, CoversMore
  <2> QED BY <2>1, <2>3 DEF RunsCovered
<1>13. CASE MarkRunsDelivered
  <2>1. /\ UNCHANGED <<recent, runIngested, runExcused>> /\ runPc = "mark" /\ runPc' # "mark"
        /\ runOrder' = WithKeys(runOrder, b)
        /\ \/ runDisk' = runOrder'
           \/ UNCHANGED <<runDisk, runDurable>>
    BY <1>13, MarkSteps
  <2> HIDE DEF b
  <2>2. Unseen(b, b, ToSet(runOrder)) = b
    <3>1. \A k \in 1 .. Len(b) : b[k] \notin ToSet(runOrder)
      BY <1>2, <2>1 DEF RunsFresh, b
    <3>2. \A k, l \in 1 .. Len(b) : b[k] = b[l] => k = l
      BY <1>2, <2>1 DEF RunsFresh, b
    <3> QED BY <1>2, <3>1, <3>2, UnseenAll
  <2>3. runOrder' = Trim(runOrder \o b)
    BY <2>1, <2>2 DEF WithKeys
  <2>4. runOrder \o b \in Seq(K)
    BY <1>2, ConcatProperties
  <2>5. Covers(Trim(runOrder \o b), recent, X)
    BY <1>2, <1>3, <1>4, <2>1, <2>4, TrimCovers
  <2>6. CASE runDisk' = runOrder'
    <3>1. Covers(runDisk', recent, X)
      BY <2>3, <2>5, <2>6
    <3>2. Covers(runDisk', recent, X \cup (runIngested' \ runDurable'))
      BY <3>1, CoversMore
    <3> QED BY <2>1, <2>3, <2>5, <3>2 DEF RunsCovered
  <2>7. CASE UNCHANGED <<runDisk, runDurable>>
    BY <1>4, <2>1, <2>3, <2>5, <2>7 DEF RunsCovered
  <2> QED BY <2>1, <2>6, <2>7
<1>14. CASE WorkflowRestart
  <2>1. UNCHANGED <<recent, runIngested, runDurable>> /\ runPc' = "idle"
    BY <1>14, RestartSteps
  <2>2. CASE runOrder' = runDisk /\ UNCHANGED runDisk /\ runExcused' = Y
    <3>1. Covers(runDisk, recent, Y \cup (runIngested \ runDurable))
      BY <1>4, CoversMore
    <3> QED BY <1>4, <2>1, <2>2, <3>1 DEF RunsCovered
  <2>3. CASE runExcused' = X \cup runIngested
    <3>1. \A p \in 1 .. Len(recent) : recent[p] \in runIngested
      BY <1>2, ToSetMeans DEF RecentIngested
    <3>2. \A s, Z : runIngested \subseteq Z => Covers(s, recent, Z)
      BY <3>1 DEF Covers
    <3> QED BY <2>1, <2>3, <3>2 DEF RunsCovered
  <2> QED BY <1>14, <2>2, <2>3, RestartSteps
<1> QED BY <1>7, <1>8, <1>9, <1>10, <1>11, <1>12, <1>13, <1>14, RunSteps

LEMMA RunsAgainStep ==
  ASSUME RunsTyped, RunsFresh, RunsCovered, runAgain = {}, [WorkflowNext]_workflowVars
  PROVE  runAgain' = {}
<1>1. ASSUME NEW r, Complete(r) \/ RunAgain(r)
      PROVE  runAgain' = {}
  BY <1>1, GitHubSteps DEF Delivery
<1>2. CASE CollectWorkflowMetrics \/ ListWorkflowRepos \/ ListRecentWorkflowRuns
           \/ FilterNewRuns \/ EnrichWorkflowMetrics
  BY <1>2, ListSteps, ListingSteps, FilterSteps, EnrichSteps DEF Delivery
<1>3. CASE PushRunsSucceeds \/ PushRunsFails
  BY <1>3, NothingTwice, SuccessSteps, FailureSteps
<1>4. CASE \/ MarkRunsDelivered \/ WorkflowRestart \/ UNCHANGED workflowVars
           \/ \E g \in Classes : AuditTakesBatch(g)
  BY <1>4, MarkSteps, RestartSteps, StutterSteps, AuditSteps DEF Delivery
<1> QED BY <1>1, <1>2, <1>3, <1>4, RunSteps

LEMMA RunsInit ==
  ASSUME SeenLimit \in Nat, WorkflowInit
  PROVE  RunsTyped /\ RunsFresh /\ RunsCovered /\ RecentIngested /\ runAgain = {}
<1>1. /\ done = {} /\ runOrder = << >> /\ runDisk = << >> /\ runPc = "idle" /\ runBatch = << >>
      /\ recent = << >> /\ runAgain = {}
  BY DEF WorkflowInit
<1>2. Len(<< >>) = 0 /\ \A S : << >> \in Seq(S)
  BY EmptySeq
<1>3. KeysIn({})
  BY <1>1, <1>2 DEF KeysIn
<1>4. RunsTyped
  BY <1>1, <1>2, <1>3, FS_EmptySet DEF RunsTyped
<1>5. RunsCovered
  <2>1. 1 .. Len(recent) = {}
    BY <1>1, <1>2
  <2> QED BY <2>1 DEF RunsCovered, Covers
<1> QED BY <1>1, <1>4, <1>5, ToSetEmpty DEF RunsFresh, RecentIngested

(* Loki gets no attempt of a run twice within SeenLimit deliveries, but    *)
(* for a failed push that it had taken, a death before the mark was on     *)
(* disk or a start that could not load the seen cache, whatever GitHub     *)
(* does, whatever batches of repositories are listed and however classes   *)
(* share repositories (daemon.go 654-680, seen_cache.go 43-117).           *)
THEOREM RunsAreDeliveredOnce == WorkflowSpec => []NoRunRedelivered
<1> USE SeenAssumption
<1> DEFINE Inv == RunsTyped /\ RunsFresh /\ RunsCovered /\ RecentIngested /\ runAgain = {}
<1>1. WorkflowInit => Inv
  BY RunsInit
<1>2. Inv /\ [WorkflowNext]_workflowVars => Inv'
  BY RunsTypedStep, RunsFreshStep, RunsCoveredStep, RecentIngestedStep, RunsAgainStep
<1>3. Inv => NoRunRedelivered
  BY DEF NoRunRedelivered
<1> QED BY <1>1, <1>2, <1>3, PTL DEF WorkflowSpec

(***************************************************************************)
(* What the seen cache of workflow runs holds                              *)
(***************************************************************************)
Distinct(s) == \A i, j \in 1 .. Len(s) : s[i] = s[j] => i = j

SeenKeysDistinct == Distinct(runOrder) /\ Distinct(runDisk)

(* Loki has what is about to be marked, too.                               *)
RunMarks ==
  /\ MarkedRunsIngested
  /\ SeenKeysDistinct
  /\ runPc = "mark" => ToSet(runBatch) \subseteq runIngested

LEMMA ConcatDistinct ==
  ASSUME NEW K, NEW s \in Seq(K), NEW b \in Seq(K), Distinct(s), Distinct(b),
         \A k \in 1 .. Len(b) : b[k] \notin ToSet(s)
  PROVE  Distinct(s \o b)
<1> DEFINE u == s \o b
<1>1. /\ Len(s) \in Nat /\ Len(b) \in Nat /\ Len(u) = Len(s) + Len(b)
      /\ \A i \in 1 .. Len(s) : u[i] = s[i]
      /\ \A i \in 1 .. Len(b) : u[Len(s) + i] = b[i]
  BY ConcatAt
<1>2. \A i \in 1 .. Len(s) : s[i] \in ToSet(s)
  BY ToSetMeans
<1> HIDE DEF u
<1>3. ASSUME NEW i \in 1 .. Len(u), ~(i \in 1 .. Len(s))
      PROVE  /\ i - Len(s) \in 1 .. Len(b) /\ u[i] = b[i - Len(s)]
  <2>1. i - Len(s) \in 1 .. Len(b) /\ Len(s) + (i - Len(s)) = i
    BY <1>1, <1>3
  <2>2. u[Len(s) + (i - Len(s))] = b[i - Len(s)]
    BY <1>1, <2>1
  <2> QED BY <2>1, <2>2
<1> SUFFICES ASSUME NEW i \in 1 .. Len(u), NEW j \in 1 .. Len(u), u[i] = u[j] PROVE i = j
  BY DEF Distinct, u
<1>4. CASE i \in 1 .. Len(s) /\ j \in 1 .. Len(s)
  BY <1>1, <1>4 DEF Distinct
<1>5. CASE i \in 1 .. Len(s) /\ ~(j \in 1 .. Len(s))
  BY <1>1, <1>2, <1>3, <1>5
<1>6. CASE ~(i \in 1 .. Len(s)) /\ j \in 1 .. Len(s)
  BY <1>1, <1>2, <1>3, <1>6
<1>7. CASE ~(i \in 1 .. Len(s)) /\ ~(j \in 1 .. Len(s))
  <2>1. i - Len(s) = j - Len(s)
    BY <1>3, <1>7 DEF Distinct
  <2> QED BY <1>1, <2>1
<1> QED BY <1>4, <1>5, <1>6, <1>7

LEMMA TrimDistinct ==
  ASSUME NEW K, NEW s \in Seq(K), Distinct(s), SeenLimit \in Nat
  PROVE  Distinct(Trim(s))
<1> DEFINE t == Trim(s)
           d == Excess(s)
<1>1. /\ d \in 0 .. Len(s) /\ Len(t) = Len(s) - d /\ Len(s) \in Nat
      /\ \A i \in 1 .. Len(t) : t[i] = s[i + d]
  BY TrimIs, LenProperties
<1> HIDE DEF t, d
<1>2. \A i \in 1 .. Len(t) : i + d \in 1 .. Len(s)
  BY <1>1
<1>3. ASSUME NEW i \in 1 .. Len(t), NEW j \in 1 .. Len(t), t[i] = t[j] PROVE i = j
  <2>1. i + d = j + d
    BY <1>1, <1>2, <1>3 DEF Distinct
  <2> QED BY <1>1, <2>1
<1> QED BY <1>3 DEF Distinct, t

LEMMA RunMarksStep ==
  ASSUME SeenLimit \in Nat, RunsTyped, RunsFresh, RunMarks, [WorkflowNext]_workflowVars
  PROVE  RunMarks'
<1>1. PICK K : KeysIn(K)
  BY DEF RunsTyped
<1> DEFINE b == runBatch
<1>2. runOrder \in Seq(K) /\ runDisk \in Seq(K) /\ b \in Seq(K)
  BY <1>1 DEF KeysIn
<1>3. ASSUME UNCHANGED <<runOrder, runDisk>>, runIngested \subseteq runIngested', runPc' # "mark"
      PROVE  RunMarks'
  BY <1>3 DEF RunMarks, MarkedRunsIngested, SeenKeysDistinct
<1>4. CASE UNCHANGED <<Delivery, runPc, runBatch>>
  BY <1>4 DEF Delivery, RunMarks, MarkedRunsIngested, SeenKeysDistinct
<1>5. ASSUME NEW r, Complete(r) \/ RunAgain(r)
      PROVE  RunMarks'
  BY <1>4, <1>5, GitHubSteps
<1>6. CASE UNCHANGED workflowVars \/ \E g \in Classes : AuditTakesBatch(g)
  BY <1>4, <1>6, StutterSteps, AuditSteps
<1>7. CASE CollectWorkflowMetrics \/ ListWorkflowRepos \/ ListRecentWorkflowRuns
           \/ FilterNewRuns \/ EnrichWorkflowMetrics
  BY <1>3, <1>7, ListSteps, ListingSteps, FilterSteps, EnrichSteps DEF Delivery
<1>8. CASE PushRunsFails
  BY <1>3, <1>8, FailureSteps
<1>9. CASE PushRunsSucceeds
  <2>1. UNCHANGED <<runOrder, runDisk, runBatch>> /\ runIngested' = runIngested \cup ToSet(b)
    BY <1>9, SuccessSteps
  <2>2. runBatch' = b
    BY <2>1
  <2> HIDE DEF b
  <2> QED BY <2>1, <2>2 DEF RunMarks, MarkedRunsIngested, SeenKeysDistinct
<1>10. CASE MarkRunsDelivered
  <2>1. /\ runIngested' = runIngested /\ runPc = "mark" /\ runPc' # "mark"
        /\ runOrder' = WithKeys(runOrder, b)
        /\ runDisk' \in {runOrder', runDisk}
    BY <1>10, MarkSteps
  <2>2. ToSet(b) \cup ToSet(runOrder) \cup ToSet(runDisk) \subseteq runIngested
    BY <2>1 DEF RunMarks, MarkedRunsIngested
  <2> HIDE DEF b
  <2>3. \A k \in 1 .. Len(b) : b[k] \notin ToSet(runOrder)
    BY <1>2, <2>1 DEF RunsFresh, b
  <2>4. Distinct(b)
    BY <1>2, <2>1 DEF RunsFresh, b, Distinct
  <2>5. Unseen(b, b, ToSet(runOrder)) = b
    BY <1>2, <2>3, <2>4, UnseenAll DEF Distinct
  <2>6. runOrder' = Trim(runOrder \o b)
    BY <2>1, <2>5 DEF WithKeys
  <2>7. runOrder \o b \in Seq(K) /\ ToSet(runOrder \o b) = ToSet(runOrder) \cup ToSet(b)
    BY <1>2, ToSetConcat, ConcatProperties
  <2>8. Distinct(runOrder \o b)
    BY <1>2, <2>3, <2>4, ConcatDistinct DEF RunMarks, SeenKeysDistinct
  <2>9. Distinct(runOrder') /\ ToSet(runOrder') \subseteq runIngested
    BY <2>2, <2>6, <2>7, <2>8, TrimDistinct, TrimSubset
  <2>10. Distinct(runDisk') /\ ToSet(runDisk') \subseteq runIngested
    BY <2>1, <2>2, <2>9 DEF RunMarks, SeenKeysDistinct
  <2> QED BY <2>1, <2>9, <2>10 DEF RunMarks, MarkedRunsIngested, SeenKeysDistinct
<1>11. CASE WorkflowRestart
  <2>1. ToSet(<< >>) = {} /\ Distinct(<< >>)
    BY ToSetEmpty, EmptySeq DEF Distinct
  <2> QED BY <1>11, <2>1, RestartSteps DEF RunMarks, MarkedRunsIngested, SeenKeysDistinct
<1> QED BY <1>5, <1>6, <1>7, <1>8, <1>9, <1>10, <1>11, RunSteps

(* What the seen cache or its file takes for delivered, Loki has: a run    *)
(* that filterNew drops is never lost.  And neither holds a key twice,     *)
(* across trims, failed writes and restarts, so that trim, which deletes   *)
(* the key it drops from the map, leaves the map the keys of the list      *)
(* (seen_cache.go 94-117).                                                 *)
THEOREM MarkedRunsAreIngested == WorkflowSpec => [](MarkedRunsIngested /\ SeenKeysDistinct)
<1> USE SeenAssumption
<1> DEFINE Inv == RunsTyped /\ RunsFresh /\ RunMarks
<1>1. WorkflowInit => Inv
  <2> SUFFICES ASSUME WorkflowInit PROVE RunMarks
    BY RunsInit
  <2>1. Len(<< >>) = 0
    BY EmptySeq
  <2>2. Distinct(<< >>)
    BY <2>1 DEF Distinct
  <2> QED BY <2>2, ToSetEmpty DEF WorkflowInit, RunMarks, MarkedRunsIngested, SeenKeysDistinct
<1>2. Inv /\ [WorkflowNext]_workflowVars => Inv'
  BY RunsTypedStep, RunsFreshStep, RunMarksStep
<1>3. Inv => MarkedRunsIngested /\ SeenKeysDistinct
  BY DEF RunMarks
<1> QED BY <1>1, <1>2, <1>3, PTL DEF WorkflowSpec
=================================================================================
