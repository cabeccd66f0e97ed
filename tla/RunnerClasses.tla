----------------------------- MODULE RunnerClasses -----------------------------
(***************************************************************************)
(* Runner classes that share a host: how a configuration is resolved into  *)
(* classes with their targets and accepted or refused                      *)
(* (internal/config/config.go), and what the reconcilers of the classes    *)
(* then do to containers they tell apart by nothing but name prefixes      *)
(* (provider/lxd/runtime.go).                                              *)
(* Of a pass only its creating and its tearing down of containers is kept; *)
(* module Reconciler has the rest.                                         *)
(*                                                                         *)
(* A name is a sequence of parts, a prefix too, so that prefixes may nest. *)
(* << >> and "" are settings left out.  Settings are taken as trimmed, and *)
(* names of repositories as well formed.                                   *)
(***************************************************************************)
EXTENDS Integers, Sequences, FiniteSets, SequencesExt

CONSTANTS
  Configs,   \* configurations that may be loaded
  Lower(_),  \* strings.ToLower, on names of targets
  MaxJobs    \* bound: jobs that runners take

VARIABLES
  cfg,         \* the configuration
  phase,       \* "load", "run" or "refused"
  containers,  \* name -> [maker, state, job]
  jobs         \* jobs taken so far

(***************************************************************************)
(* What decoding a configuration file yields (config.go 18-62).            *)
(***************************************************************************)
Name == Seq(STRING)

RawClass ==
  [id : STRING, org : STRING, repo : STRING, prefix : Name, template : Name,
   max : Seq(Int), enabled : BOOLEAN, baseline : BOOLEAN, baselineName : Name]

Config ==
  [org : STRING, repo : STRING, prefix : Name, template : Name, max : Int,
   classes : Seq(RawClass)]

ASSUME ConfigsAssumption == Configs \subseteq Config

fleetVars == <<cfg, phase, containers, jobs>>

(***************************************************************************)
(* RunnerClassConfigs                                                      *)
(***************************************************************************)

(* resolveTarget: the class's repository, its organisation, the default    *)
(* repository, the default organisation.                                   *)
ResolveTarget(raw) ==
  CASE raw.repo # ""  -> [kind |-> "repo", name |-> raw.repo]
    [] raw.repo = "" /\ raw.org # "" -> [kind |-> "org", name |-> raw.org]
    [] raw.repo = "" /\ raw.org = "" /\ cfg.repo # "" -> [kind |-> "repo", name |-> cfg.repo]
    [] OTHER -> [kind |-> "org", name |-> cfg.org]

FirstNonEmpty(value, default) == IF value # << >> THEN value ELSE default

Resolve(raw) ==
  [id |-> raw.id, target |-> ResolveTarget(raw),
   prefix |-> FirstNonEmpty(raw.prefix, cfg.prefix),
   template |-> FirstNonEmpty(raw.template, cfg.template),
   max |-> IF raw.max = << >> THEN cfg.max ELSE Head(raw.max),
   baseline |-> raw.baseline, baselineName |-> raw.baselineName]

(* The class synthesised when none is configured.                          *)
DefaultClass ==
  Resolve([id |-> "default", org |-> "", repo |-> "", prefix |-> << >>,
           template |-> << >>, max |-> << >>, baseline |-> FALSE, baselineName |-> << >>])

Enabled == {k \in 1 .. Len(cfg.classes) : cfg.classes[k].enabled}

(* The classes of d.groups, each at its place in the configuration.        *)
Classes ==
  IF cfg.classes = << >> THEN <<DefaultClass>>
  ELSE [k \in Enabled |-> Resolve(cfg.classes[k])]

Ks == DOMAIN Classes

(***************************************************************************)
(* validate                                                                *)
(***************************************************************************)

(* A target is an organisation or a repository, and is set.                *)
TargetsOk ==
  /\ ~(cfg.org # "" /\ cfg.repo # "")
  /\ \A k \in Enabled : ~(cfg.classes[k].org # "" /\ cfg.classes[k].repo # "")
  /\ \A k \in Ks : Classes[k].target.name # ""

FieldsOk ==
  \A k \in Ks : /\ Classes[k].id # ""
                /\ Classes[k].prefix # << >>
                /\ Classes[k].template # << >>
                /\ Classes[k].max >= 0

(* Mutant: only IDs are compared.                                          *)
IdsUnique == \A k, m \in Ks : k # m => Classes[k].id # Classes[m].id

(* IDs and prefixes, each on their own, are unique.                        *)
UniqueOk ==
  \A k, m \in Ks : k # m => /\ Classes[k].id # Classes[m].id
                            /\ Classes[k].prefix # Classes[m].prefix

(* Mutant: the baseline's name is compared with its own class's prefix.    *)
BaselineOkOwn ==
  /\ Cardinality({k \in Ks : Classes[k].baseline}) <= 1
  /\ \A k \in Ks : Classes[k].baseline =>
       /\ Classes[k].baselineName # << >>
       /\ ~IsPrefix(Classes[k].prefix, Classes[k].baselineName)

(* One baseline at most; it is named, and starts with no class's prefix.   *)
BaselineOk ==
  /\ Cardinality({k \in Ks : Classes[k].baseline}) <= 1
  /\ \A k \in Ks : Classes[k].baseline =>
       /\ Classes[k].baselineName # << >>
       /\ \A m \in Ks : ~IsPrefix(Classes[m].prefix, Classes[k].baselineName)

Validate == Ks # {} /\ TargetsOk /\ FieldsOk /\ UniqueOk /\ BaselineOk

(***************************************************************************)
(* The host                                                                *)
(***************************************************************************)
Names == DOMAIN containers
Without(n) == [m \in Names \ {n} |-> containers[m]]
With(n, c) == [m \in Names \cup {n} |-> IF m = n THEN c ELSE containers[m]]

(* ListContainers: by prefix.                                              *)
ListContainers(k) == {n \in Names : IsPrefix(Classes[k].prefix, n)}

(* The templates, stopped containers that are nobody's runner.             *)
Nobody == 0
Templates == {Classes[k].template : k \in Ks}

FleetInit ==
  /\ cfg \in Configs
  /\ phase = "load"
  /\ containers = << >>
  /\ jobs = 0

(* Load and wireRunnerGroups: the daemon exits on a refused configuration. *)
Load ==
  /\ phase = "load"
  /\ \/ /\ Validate
        /\ phase' = "run"
        /\ containers' = [n \in Templates |->
                            [maker |-> Nobody, state |-> "stopped", job |-> FALSE]]
     \/ /\ ~Validate
        /\ phase' = "refused"
        /\ UNCHANGED containers
  /\ UNCHANGED <<cfg, jobs>>

Runner(k) == [maker |-> k, state |-> "online", job |-> FALSE]

(* nextName: the first number free among the containers listed.            *)
NextName(k) ==
  LET name(i) == Classes[k].prefix \o <<"-", ToString(i)>>
      free == {i \in 1 .. Cardinality(Names) + 1 : name(i) \notin ListContainers(k)}
  IN  name(CHOOSE i \in free : \A j \in free : i <= j)

(* scaleUp: below the class's maximum, counting what is listed.            *)
ScaleUp(k) ==
  /\ phase = "run"
  /\ Cardinality(ListContainers(k)) < Classes[k].max
  /\ NextName(k) \notin Names
  /\ containers' = With(NextName(k), Runner(k))
  /\ UNCHANGED <<cfg, phase, jobs>>

(* GitHub takes names of owners and repositories regardless of case.       *)
SameTarget(k, m) ==
  /\ Classes[k].target.kind = Classes[m].target.kind
  /\ Lower(Classes[k].target.name) = Lower(Classes[m].target.name)

(* findRunner among the runners of the class's own target: a runner online *)
(* is registered with its maker's.                                         *)
Registered(k, n) ==
  /\ containers[n].state = "online"
  /\ SameTarget(k, containers[n].maker)

(* scaleDown: of a stopped container, of one without a runner, after its   *)
(* grace, and of one with an idle runner, after the idle timeout; not of   *)
(* one whose runner is listed as busy.                                     *)
ScaleDown(k, n) ==
  /\ phase = "run"
  /\ n \in ListContainers(k)
  /\ \/ containers[n].state = "stopped"
     \/ ~Registered(k, n)
     \/ Registered(k, n) /\ ~containers[n].job
  /\ containers' = Without(n)
  /\ UNCHANGED <<cfg, phase, jobs>>

(* ensureBaseline: a baseline that is not online is made anew.             *)
EnsureBaseline(k) ==
  /\ phase = "run"
  /\ Classes[k].baseline
  /\ LET n == Classes[k].baselineName
     IN  /\ n \in Names => containers[n].state # "online"
         /\ containers' = With(n, Runner(k))
  /\ UNCHANGED <<cfg, phase, jobs>>

(***************************************************************************)
(* GitHub and the runners (external)                                       *)
(***************************************************************************)
JobStarts(n) ==
  /\ containers[n].state = "online" /\ ~containers[n].job
  /\ jobs < MaxJobs
  /\ jobs' = jobs + 1
  /\ containers' = [containers EXCEPT ![n].job = TRUE]
  /\ UNCHANGED <<cfg, phase>>

(* An ephemeral runner's container stops after its job; a baseline's goes  *)
(* on, or fails.                                                           *)
JobEnds(n) ==
  /\ containers[n].job
  /\ \E s \in {"online", "stopped"} :
       /\ s = "online" => \E k \in Ks : Classes[k].baseline /\ Classes[k].baselineName = n
       /\ containers' = [containers EXCEPT ![n] = [@ EXCEPT !.state = s, !.job = FALSE]]
  /\ UNCHANGED <<cfg, phase, jobs>>

(* A refused configuration leaves nothing to do.                           *)
Refused ==
  /\ phase = "refused"
  /\ UNCHANGED fleetVars

FleetNext ==
  \/ Load
  \/ \E k \in Ks : ScaleUp(k) \/ EnsureBaseline(k) \/ \E n \in Names : ScaleDown(k, n)
  \/ \E n \in Names : JobStarts(n) \/ JobEnds(n)
  \/ Refused

FleetSpec == FleetInit /\ [][FleetNext]_fleetVars

(***************************************************************************)
(* Properties                                                              *)
(***************************************************************************)

(* No class's prefix is the beginning of another's, or of a template.      *)
Separate ==
  \A k \in Ks : /\ \A m \in Ks : Classes[k].prefix # Classes[m].prefix
                                   => ~IsPrefix(Classes[k].prefix, Classes[m].prefix)
                /\ \A n \in Templates : ~IsPrefix(Classes[k].prefix, n)

(* Classes keep off each other's runners and off the templates, whatever   *)
(* their targets, as long as no prefix is the beginning of another's or of *)
(* a template's name, which validate does not require (config.go 378-381,  *)
(* runtime.go 386-403).                                                    *)
OwnRunnersOnly ==
  [][\A k \in Ks, n \in Names :
       Separate /\ ScaleDown(k, n) => containers[n].maker = k]_fleetVars

(* The baseline outlives every class's scale-down: in whatever             *)
(* configuration is accepted, prefixes that nest included, no pass takes   *)
(* an online baseline for overflow (config.go 392-401).                    *)
BaselineKept ==
  [][\A k \in Ks :
       LET n == Classes[k].baselineName
       IN  Classes[k].baseline /\ n \in Names /\ containers[n].maker = k
             /\ containers[n].state = "online" => n \in Names']_fleetVars
================================================================================
