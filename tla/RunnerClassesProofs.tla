--------------------------- MODULE RunnerClassesProofs ---------------------------
(***************************************************************************)
(* Proofs about RunnerClasses, for any configurations, any number of       *)
(* classes and any naming: accepted classes keep off the baseline, and     *)
(* keep off each other's runners if their prefixes do not nest.            *)
(***************************************************************************)
EXTENDS RunnerClasses, SequenceTheorems, TLAPS

(***************************************************************************)
(* Names and prefixes                                                      *)
(***************************************************************************)
LEMMA PrefixMeans ==
  ASSUME NEW S, NEW s \in Seq(S), NEW t \in Seq(S)
  PROVE  IsPrefix(s, t) <=> Len(s) <= Len(t) /\ \A i \in 1 .. Len(s) : s[i] = t[i]
<1>1. Len(s) \in Nat /\ Len(t) \in Nat /\ SubSeq(s, 1, Len(s)) = s
  BY LenProperties, SubSeqFull
<1>2. CASE Len(s) <= Len(t)
  <2> DEFINE u == SubSeq(t, 1, Len(s))
  <2>1. \A i \in 1 .. Len(s) : t[i] \in S
    BY <1>1, <1>2, ElementOfSeq
  <2>2. /\ u \in Seq(S)
        /\ Len(u) = IF 1 <= Len(s) THEN Len(s) - 1 + 1 ELSE 0
        /\ \A i \in 1 .. Len(s) - 1 + 1 : u[i] = t[1 + i - 1]
    BY <1>1, <2>1, SubSeqProperties
  <2>3. IsPrefix(s, t) <=> s = u
    BY <1>1, <1>2 DEF IsPrefix
  <2> HIDE DEF u
  <2>4. Len(u) = Len(s)
    <3>1. Len(u) = IF 1 <= Len(s) THEN Len(s) - 1 + 1 ELSE 0
      BY <2>2
    <3> QED BY <1>1, <3>1
  <2>5. \A i \in 1 .. Len(s) : u[i] = t[i]
    <3> TAKE i \in 1 .. Len(s)
    <3>1. i \in 1 .. Len(s) - 1 + 1 /\ 1 + i - 1 = i
      BY <1>1
    <3> QED BY <2>2, <3>1
  <2>6. s = u <=> \A i \in 1 .. Len(s) : s[i] = u[i]
    BY <2>2, <2>4, SeqEqual
  <2> QED BY <1>2, <2>3, <2>5, <2>6
<1>3. CASE ~(Len(s) <= Len(t))
  BY <1>3 DEF IsPrefix
<1> QED BY <1>2, <1>3

LEMMA PairIsSeq ==
  ASSUME NEW S, NEW a \in S, NEW b \in S
  PROVE  <<a, b>> \in Seq(S) /\ Len(<<a, b>>) = 2
OBVIOUS

(* A name that a class with prefix p made begins with a prefix q only if   *)
(* one of the two begins with the other.                                   *)
LEMMA PrefixesOfName ==
  ASSUME NEW p \in Name, NEW q \in Name, NEW x, IsPrefix(q, p \o <<"-", x>>)
  PROVE  IsPrefix(q, p) \/ IsPrefix(p, q)
<1> DEFINE S == STRING \cup {"-", x}
           end == <<"-", x>>
           n == p \o end
<1>1. p \in Seq(S) /\ q \in Seq(S)
  BY SeqMonotonic DEF Name
<1>2. end \in Seq(S) /\ Len(end) = 2
  <2>1. "-" \in S /\ x \in S
    OBVIOUS
  <2> HIDE DEF S
  <2> QED BY <2>1, PairIsSeq
<1>3. Len(p) \in Nat /\ Len(q) \in Nat
  BY <1>1, LenProperties
<1> HIDE DEF S, end
<1>4. n \in Seq(S) /\ Len(n) = Len(p) + Len(end)
  BY <1>1, <1>2, ConcatProperties
<1>5. \A i \in 1 .. Len(p) : n[i] = p[i]
  <2> TAKE i \in 1 .. Len(p)
  <2>1. i \in 1 .. Len(p) + Len(end) /\ i <= Len(p)
    BY <1>2, <1>3
  <2> QED BY <1>1, <1>2, <2>1, ConcatProperties
<1>6. IsPrefix(q, n)
  BY DEF end
<1> HIDE DEF n
<1>7. \A i \in 1 .. Len(q) : q[i] = n[i]
  BY <1>1, <1>4, <1>6, PrefixMeans
<1>8. CASE Len(q) <= Len(p)
  <2>1. \A i \in 1 .. Len(q) : q[i] = p[i]
    BY <1>3, <1>5, <1>7, <1>8
  <2> QED BY <1>1, <1>8, <2>1, PrefixMeans
<1>9. CASE Len(p) <= Len(q)
  <2>1. \A i \in 1 .. Len(p) : p[i] = q[i]
    BY <1>3, <1>5, <1>7, <1>9
  <2> QED BY <1>1, <1>9, <2>1, PrefixMeans
<1> QED BY <1>3, <1>8, <1>9

(***************************************************************************)
(* The classes of a configuration                                          *)
(***************************************************************************)
LEMMA ResolvedNames ==
  ASSUME cfg \in Config,
         NEW raw, raw.prefix \in Name, raw.template \in Name, raw.baselineName \in Name
  PROVE  /\ Resolve(raw).prefix \in Name
         /\ Resolve(raw).template \in Name
         /\ Resolve(raw).baselineName \in Name
BY DEF Resolve, FirstNonEmpty, Config

LEMMA ClassesTyped ==
  ASSUME cfg \in Config
  PROVE  /\ Ks \subseteq Nat \ {0}
         /\ \A k \in Ks : Classes[k].prefix \in Name
<1>1. CASE cfg.classes = << >>
  <2>1. DefaultClass.prefix \in Name
    BY EmptySeq, ResolvedNames DEF DefaultClass, Name
  <2>2. Classes = <<DefaultClass>>
    BY <1>1 DEF Classes
  <2> HIDE DEF DefaultClass
  <2> QED BY <2>1, <2>2 DEF Ks
<1>2. CASE cfg.classes # << >>
  <2>1. Classes = [k \in Enabled |-> Resolve(cfg.classes[k])]
    BY <1>2 DEF Classes
  <2>2. cfg.classes \in Seq(RawClass) /\ Len(cfg.classes) \in Nat
    BY LenProperties DEF Config
  <2>3. \A k \in Enabled : cfg.classes[k] \in RawClass /\ k \in Nat \ {0}
    BY <2>2, ElementOfSeq DEF Enabled
  <2>4. \A k \in Enabled : Resolve(cfg.classes[k]).prefix \in Name
    BY <2>3, ResolvedNames DEF RawClass
  <2> QED BY <2>1, <2>3, <2>4 DEF Ks
<1> QED BY <1>1, <1>2

(***************************************************************************)
(* Containers                                                              *)
(***************************************************************************)
Accepted ==
  /\ cfg \in Config
  /\ phase \in {"load", "run", "refused"}
  /\ phase = "run" => Validate
  /\ phase # "run" => Names = {}

(* The steps of Next, one by one.                                          *)
LEMMA StepCases ==
  ASSUME FleetNext
  PROVE  \/ Load
         \/ \E k \in Ks : ScaleUp(k)
         \/ \E k \in Ks : EnsureBaseline(k)
         \/ \E k \in Ks, n \in Names : ScaleDown(k, n)
         \/ \E n \in Names : JobStarts(n)
         \/ \E n \in Names : JobEnds(n)
         \/ Refused
BY DEF FleetNext

LEMMA ValidateStays == UNCHANGED cfg => (Validate' <=> Validate)
BY DEF Validate, TargetsOk, FieldsOk, UniqueOk, BaselineOk, Ks, Classes, Enabled, Resolve,
       ResolveTarget, FirstNonEmpty, DefaultClass

LEMMA AcceptedStep == Accepted /\ [FleetNext]_fleetVars => Accepted'
<1> SUFFICES ASSUME Accepted, [FleetNext]_fleetVars PROVE Accepted'
  OBVIOUS
<1>1. CASE Load
  <2>1. UNCHANGED cfg /\ cfg \in Config
    BY <1>1 DEF Load, Accepted
  <2>2. CASE Validate /\ phase' = "run"
    BY <2>1, <2>2, ValidateStays DEF Accepted
  <2>3. CASE phase = "load" /\ phase' = "refused" /\ UNCHANGED containers
    BY <2>1, <2>3 DEF Accepted, Names
  <2> QED BY <1>1, <2>2, <2>3 DEF Load
<1>2. CASE \E k \in Ks : ScaleUp(k) \/ EnsureBaseline(k) \/ \E n \in Names : ScaleDown(k, n)
  <2>1. phase = "run" /\ UNCHANGED <<cfg, phase>>
    BY <1>2 DEF ScaleUp, EnsureBaseline, ScaleDown
  <2> QED BY <2>1, ValidateStays DEF Accepted
<1>3. CASE \E n \in Names : JobStarts(n) \/ JobEnds(n)
  <2>1. phase = "run" /\ UNCHANGED <<cfg, phase>>
    BY <1>3 DEF JobStarts, JobEnds, Accepted
  <2> QED BY <2>1, ValidateStays DEF Accepted
<1>4. CASE UNCHANGED fleetVars
  BY <1>4, ValidateStays DEF fleetVars, Accepted, Names
<1> QED BY <1>1, <1>2, <1>3, <1>4 DEF FleetNext, Refused

LEMMA AcceptedInit == FleetInit => Accepted
BY ConfigsAssumption DEF FleetInit, Accepted, Names

(* In an accepted configuration no class lists the baseline.               *)
LEMMA BaselineUnlisted ==
  ASSUME Validate, NEW k \in Ks, Classes[k].baseline, NEW m \in Ks
  PROVE  Classes[k].baselineName \notin ListContainers(m)
BY DEF Validate, BaselineOk, ListContainers

(* What the disjunct of BaselineKept's step says.                          *)
KeepsBaseline ==
  \A k \in Ks :
    LET n == Classes[k].baselineName
    IN  Classes[k].baseline /\ n \in Names /\ containers[n].maker = k
          /\ containers[n].state = "online" => n \in Names'

LEMMA BaselineStep == Accepted /\ [FleetNext]_fleetVars => [KeepsBaseline]_fleetVars
<1> SUFFICES ASSUME Accepted, FleetNext, NEW k \in Ks, Classes[k].baseline,
                    Classes[k].baselineName \in Names
             PROVE  Classes[k].baselineName \in Names'
  BY DEF KeepsBaseline
<1> DEFINE n == Classes[k].baselineName
<1>0. phase = "run" /\ Validate
  BY DEF Accepted
<1> HIDE DEF n
<1>1. CASE Load
  BY <1>0, <1>1 DEF Load
<1>2. CASE \E m \in Ks : ScaleUp(m)
  BY <1>2 DEF ScaleUp, With, Names
<1>3. CASE \E m \in Ks : EnsureBaseline(m)
  BY <1>3 DEF EnsureBaseline, With, Names
<1>4. CASE \E m \in Ks, x \in Names : ScaleDown(m, x)
  <2>1. PICK m \in Ks, x \in Names : ScaleDown(m, x)
    BY <1>4
  <2>2. x \in ListContainers(m) /\ containers' = Without(x)
    BY <2>1 DEF ScaleDown
  <2>3. x # n
    BY <1>0, <2>2, BaselineUnlisted DEF n
  <2> QED BY <2>2, <2>3 DEF Without, Names, n
<1>5. CASE \E x \in Names : JobStarts(x)
  BY <1>5 DEF JobStarts, Names
<1>6. CASE \E x \in Names : JobEnds(x)
  BY <1>6 DEF JobEnds, Names
<1>7. CASE Refused
  BY <1>0, <1>7 DEF Refused
<1> QED BY <1>1, <1>2, <1>3, <1>4, <1>5, <1>6, <1>7, StepCases

(* In every configuration that validate accepts, nested prefixes included, *)
(* no class's scale-down takes an online baseline.                         *)
THEOREM BaselineIsKept == FleetSpec => BaselineKept
<1>1. [KeepsBaseline]_fleetVars
        <=> [\A k \in Ks :
               LET n == Classes[k].baselineName
               IN  Classes[k].baseline /\ n \in Names /\ containers[n].maker = k
                     /\ containers[n].state = "online" => n \in Names']_fleetVars
  BY DEF KeepsBaseline
<1> QED BY <1>1, AcceptedInit, AcceptedStep, BaselineStep, PTL DEF FleetSpec, BaselineKept

(***************************************************************************)
(* Whose containers they are                                               *)
(***************************************************************************)
Container == [maker : Nat, state : {"online", "stopped"}, job : BOOLEAN]

(* Nobody's containers are the templates; a class's are numbered after its *)
(* prefix, or its baseline.                                                *)
MadeBy(n, m) ==
  \/ m = Nobody /\ n \in Templates
  \/ m \in Ks /\ \E x : n = Classes[m].prefix \o <<"-", x>>
  \/ m \in Ks /\ Classes[m].baseline /\ n = Classes[m].baselineName

Attributed == \A n \in Names : containers[n] \in Container /\ MadeBy(n, containers[n].maker)

(* Attribution depends on the configuration alone.                         *)
LEMMA MadeByStays ==
  ASSUME UNCHANGED cfg, NEW n, NEW m, MadeBy(n, m)
  PROVE  MadeBy(n, m)'
<1>1. Classes' = Classes
  BY DEF Classes, Enabled, Resolve, ResolveTarget, FirstNonEmpty, DefaultClass
<1>2. Ks' = Ks /\ Templates' = Templates
  BY <1>1 DEF Ks, Templates
<1> QED BY <1>1, <1>2 DEF MadeBy

LEMMA RunnerType ==
  ASSUME NEW k \in Nat
  PROVE  Runner(k) \in Container /\ Runner(k).maker = k
BY DEF Runner, Container

(* A container is added, or replaced.                                      *)
LEMMA WithAttributed ==
  ASSUME Accepted, Attributed, UNCHANGED cfg, NEW k \in Ks, NEW n, MadeBy(n, k),
         containers' = With(n, Runner(k))
  PROVE  Attributed'
<1>1. Runner(k) \in Container /\ Runner(k).maker = k
  BY ClassesTyped, RunnerType DEF Accepted
<1>2. Names' = Names \cup {n}
  BY DEF With, Names
<1>3. ASSUME NEW x \in Names'
      PROVE  (containers[x] \in Container /\ MadeBy(x, containers[x].maker))'
  <2>1. CASE x = n
    <3>1. containers'[x] = Runner(k)
      BY <1>2, <2>1 DEF With
    <3> QED BY <1>1, <2>1, <3>1, MadeByStays
  <2>2. CASE x # n
    <3>1. x \in Names /\ containers'[x] = containers[x]
      BY <1>2, <1>3, <2>2 DEF With
    <3> QED BY <3>1, MadeByStays DEF Attributed
  <2> QED BY <2>1, <2>2
<1> QED BY <1>3 DEF Attributed

(* A container is as it was, but for its state and its job.                *)
LEMMA KeepsMaker ==
  ASSUME Attributed, UNCHANGED cfg, Names' \subseteq Names,
         \A x \in Names' : containers'[x] \in Container /\ containers'[x].maker = containers[x].maker
  PROVE  Attributed'
<1>1. ASSUME NEW x \in Names'
      PROVE  (containers[x] \in Container /\ MadeBy(x, containers[x].maker))'
  <2>1. MadeBy(x, containers[x].maker) /\ containers'[x].maker = containers[x].maker
    BY <1>1 DEF Attributed
  <2> QED BY <1>1, <2>1, MadeByStays
<1> QED BY <1>1 DEF Attributed

LEMMA AttributedStep == Accepted /\ Attributed /\ [FleetNext]_fleetVars => Attributed'
<1> SUFFICES ASSUME Accepted, Attributed, [FleetNext]_fleetVars PROVE Attributed'
  OBVIOUS
<1>1. CASE Load
  <2>1. UNCHANGED cfg /\ phase = "load"
    BY <1>1 DEF Load
  <2>2. CASE containers' = [n \in Templates |->
                              [maker |-> Nobody, state |-> "stopped", job |-> FALSE]]
    <3>1. Names' = Templates
      BY <2>2 DEF Names
    <3>2. ASSUME NEW x \in Names'
          PROVE  (containers[x] \in Container /\ MadeBy(x, containers[x].maker))'
      <4>1. /\ containers'[x] = [maker |-> Nobody, state |-> "stopped", job |-> FALSE]
            /\ x \in Templates
        BY <2>2, <3>1, <3>2
      <4>2. containers'[x] \in Container /\ containers'[x].maker = Nobody
        BY <4>1 DEF Container, Nobody
      <4>3. MadeBy(x, Nobody)
        BY <4>1 DEF MadeBy
      <4> QED BY <2>1, <4>2, <4>3, MadeByStays
    <3> QED BY <3>2 DEF Attributed
  <2>3. CASE UNCHANGED containers
    <3>1. Names' = {}
      BY <2>1, <2>3 DEF Accepted, Names
    <3> QED BY <3>1 DEF Attributed
  <2> QED BY <1>1, <2>2, <2>3 DEF Load
<1>2. CASE \E k \in Ks : ScaleUp(k)
  <2>1. PICK k \in Ks : ScaleUp(k)
    BY <1>2
  <2>2. PICK n : n = NextName(k)
    OBVIOUS
  <2>3. \E x : n = Classes[k].prefix \o <<"-", x>>
    BY <2>2 DEF NextName
  <2>4. MadeBy(n, k)
    BY <2>3 DEF MadeBy
  <2> QED BY <2>1, <2>2, <2>4, WithAttributed DEF ScaleUp
<1>3. CASE \E k \in Ks : EnsureBaseline(k)
  <2>1. PICK k \in Ks : EnsureBaseline(k)
    BY <1>3
  <2>2. PICK n : n = Classes[k].baselineName
    OBVIOUS
  <2>3. MadeBy(n, k)
    BY <2>1, <2>2 DEF MadeBy, EnsureBaseline
  <2> QED BY <2>1, <2>2, <2>3, WithAttributed DEF EnsureBaseline
<1>4. CASE \E k \in Ks, n \in Names : ScaleDown(k, n)
  <2>1. PICK n \in Names : containers' = Without(n) /\ UNCHANGED cfg
    BY <1>4 DEF ScaleDown
  <2>2. Names' \subseteq Names /\ \A x \in Names' : containers'[x] = containers[x]
    BY <2>1 DEF Without, Names
  <2> QED BY <2>1, <2>2, KeepsMaker DEF Attributed
<1>5. CASE \E n \in Names : JobStarts(n)
  <2>1. PICK n \in Names : UNCHANGED cfg /\ containers' = [containers EXCEPT ![n].job = TRUE]
    BY <1>5 DEF JobStarts
  <2> DEFINE e == [containers[n] EXCEPT !.job = TRUE]
  <2>2. Names' = Names
    BY <2>1 DEF Names
  <2>3. \A x \in Names : containers[x] \in Container
    BY DEF Attributed
  <2>4. \A x \in Names : containers'[x] = IF x = n THEN e ELSE containers[x]
    BY <2>1 DEF Names
  <2>5. e \in Container /\ e.maker = containers[n].maker
    BY <2>3 DEF Container
  <2> HIDE DEF e
  <2>6. \A x \in Names : containers'[x] \in Container /\ containers'[x].maker = containers[x].maker
    BY <2>3, <2>4, <2>5
  <2> QED BY <2>1, <2>2, <2>6, KeepsMaker
<1>6. CASE \E n \in Names : JobEnds(n)
  <2>1. PICK n \in Names, s \in {"online", "stopped"} :
          /\ UNCHANGED cfg
          /\ containers' = [containers EXCEPT ![n] = [@ EXCEPT !.state = s, !.job = FALSE]]
    BY <1>6 DEF JobEnds
  <2>2. Names' = Names
    BY <2>1 DEF Names
  <2> DEFINE e == [containers[n] EXCEPT !.state = s, !.job = FALSE]
  <2>3. \A x \in Names : containers[x] \in Container
    BY DEF Attributed
  <2>4. \A x \in Names : containers'[x] = IF x = n THEN e ELSE containers[x]
    BY <2>1 DEF Names
  <2>5. e \in Container /\ e.maker = containers[n].maker
    BY <2>1, <2>3 DEF Container
  <2> HIDE DEF e
  <2>6. \A x \in Names : containers'[x] \in Container /\ containers'[x].maker = containers[x].maker
    BY <2>3, <2>4, <2>5
  <2> QED BY <2>1, <2>2, <2>6, KeepsMaker
<1>7. CASE UNCHANGED fleetVars
  <2>1. UNCHANGED cfg /\ UNCHANGED containers
    BY <1>7 DEF fleetVars
  <2> QED BY <2>1, KeepsMaker DEF Attributed, Names
<1> QED BY <1>1, <1>2, <1>3, <1>4, <1>5, <1>6, <1>7, StepCases DEF Refused

(* A container that a class lists is its own, if no prefix begins another  *)
(* or a template.                                                          *)
LEMMA ListedAreOwn ==
  ASSUME Accepted, Attributed, Separate, phase = "run", NEW k \in Ks, NEW n \in ListContainers(k)
  PROVE  containers[n].maker = k
<1> DEFINE m == containers[n].maker
<1>1. n \in Names /\ IsPrefix(Classes[k].prefix, n) /\ MadeBy(n, m) /\ Validate /\ cfg \in Config
  BY DEF ListContainers, Attributed, Accepted
<1>2. ~(m = Nobody /\ n \in Templates)
  BY <1>1 DEF Separate
<1>3. ASSUME m \in Ks, NEW x, n = Classes[m].prefix \o <<"-", x>> PROVE m = k
  <2>1. Classes[k].prefix \in Name /\ Classes[m].prefix \in Name
    BY <1>1, <1>3, ClassesTyped
  <2>2. \/ IsPrefix(Classes[k].prefix, Classes[m].prefix)
        \/ IsPrefix(Classes[m].prefix, Classes[k].prefix)
    BY <1>1, <1>3, <2>1, PrefixesOfName
  <2>3. Classes[k].prefix = Classes[m].prefix
    BY <1>3, <2>2 DEF Separate
  <2> QED BY <1>1, <1>3, <2>3 DEF Validate, UniqueOk
<1>4. ~(m \in Ks /\ Classes[m].baseline /\ n = Classes[m].baselineName)
  BY <1>1, BaselineUnlisted
<1> QED BY <1>1, <1>2, <1>3, <1>4 DEF MadeBy

(* No class tears down another class's runner, nor a template, in any      *)
(* accepted configuration whose prefixes begin neither each other nor a    *)
(* template's name.                                                        *)
THEOREM ClassesKeepToTheirRunners == FleetSpec => OwnRunnersOnly
<1> DEFINE Own == \A k \in Ks, n \in Names :
                    Separate /\ ScaleDown(k, n) => containers[n].maker = k
<1>1. Accepted /\ Attributed => Own
  BY ListedAreOwn DEF ScaleDown
<1>2. Accepted /\ Attributed /\ [FleetNext]_fleetVars => [Own]_fleetVars
  BY <1>1
<1>3. FleetInit => Attributed
  BY DEF FleetInit, Attributed, Names
<1> QED BY <1>2, <1>3, AcceptedInit, AcceptedStep, AttributedStep, PTL DEF FleetSpec, OwnRunnersOnly
================================================================================
