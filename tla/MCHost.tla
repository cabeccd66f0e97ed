-------------------------------- MODULE MCHost --------------------------------
(* Instances of CachePrune and RunnerClasses for TLC: what containers of   *)
(* one host share, the cache volume and the space of names.  They have no  *)
(* state in common, so a behaviour is one of either.                       *)
EXTENDS CachePrune, RunnerClasses

VARIABLE subject  \* "cache" or "classes"

(***************************************************************************)
(* Configurations of no class, which stands for the default one, or two.   *)
(***************************************************************************)
Gh == <<"gh">>
GhXl == <<"gh", "-", "xl">>
Base == <<"base">>
GhBase == <<"gh", "-", "base">>
XBase == <<"x", "-", "base">>
Image == <<"image">>

LowerCase(s) == IF s = "Org" THEN "org" ELSE s

Raw(id, target, prefix, template, max, enabled, baselineName) ==
  [id |-> id, org |-> target[1], repo |-> target[2], prefix |-> prefix,
   template |-> template, max |-> max, enabled |-> enabled,
   baseline |-> baselineName # << >>, baselineName |-> baselineName]

(* Targets: inherited, an organisation in two spellings, one of its        *)
(* repositories, and both at once.                                         *)
Targets == {<<"", "">>, <<"Org", "">>, <<"", "org/r">>, <<"Org", "org/r">>}

First == {Raw("a", t, p, << >>, <<1>>, TRUE, b) :
            t \in Targets, p \in {<< >>, Gh}, b \in {<< >>, XBase}}

Second == {Raw(id, t, p, i, << >>, e, b) :
             id \in {"a", "b"}, t \in Targets, p \in {<< >>, Gh, GhXl, <<"x">>},
             i \in {<< >>, <<"x", "-", "image">>}, e \in BOOLEAN,
             b \in {<< >>, Base, GhBase}}

Defaults == {<<"org", "">>, <<"", "org/s">>, <<"", "">>}

SomeConfigs ==
  {[org |-> d[1], repo |-> d[2], prefix |-> Gh, template |-> Image, max |-> 1, classes |-> cs] :
     d \in Defaults, cs \in {<< >>} \cup {<<f, s>> : f \in First, s \in Second}}

HostInit ==
  /\ subject \in {"cache", "classes"}
  /\ Init
  /\ FleetInit
  /\ subject = "cache" => cfg = CHOOSE c \in SomeConfigs : TRUE

HostNext ==
  \/ subject = "cache" /\ Next /\ UNCHANGED <<subject, fleetVars>>
  \/ subject = "classes" /\ FleetNext /\ UNCHANGED <<subject, vars>>

(* Fairness is CachePrune's.                                               *)
HostSpec ==
  /\ HostInit
  /\ [][HostNext]_<<subject, vars, fleetVars>>
  /\ \A c \in Containers :
       /\ WF_vars(subject = "cache" /\ Begin(c) /\ UNCHANGED <<subject, fleetVars>>)
       /\ WF_vars(subject = "cache" /\ ScriptStep(c) /\ UNCHANGED <<subject, fleetVars>>)
  /\ WF_vars(subject = "cache" /\ Tick /\ UNCHANGED <<subject, fleetVars>>)
================================================================================
