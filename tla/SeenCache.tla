------------------------------- MODULE SeenCache -------------------------------
(***************************************************************************)
(* The seen cache (internal/daemon/seen_cache.go): keys of what Loki has   *)
(* been given, oldest first.  Issue events and workflow runs have one      *)
(* each.  A key that is looked up keeps its place.                         *)
(***************************************************************************)
EXTENDS Integers, Sequences, SequencesExt

CONSTANT SeenLimit  \* workflowMetricCacheLimit

ASSUME SeenAssumption == SeenLimit \in Nat

(* Mutant: one key too many is dropped.                                    *)
TrimEarly(s) == SubSeq(s, IF Len(s) >= SeenLimit THEN Len(s) - SeenLimit + 2 ELSE 1, Len(s))

(* trim: the oldest keys beyond the limit go.                              *)
Trim(s) == SubSeq(s, IF Len(s) > SeenLimit THEN Len(s) - SeenLimit + 1 ELSE 1, Len(s))

(* The loop of filterNew and of markDelivered: the items, with the given   *)
(* keys, whose key has not been seen nor come up before, in their order.   *)
Unseen(items, keys, seen) ==
  LET fresh[i \in 0 .. Len(items)] ==
        IF i = 0 THEN << >>
        ELSE IF keys[i] \in seen \/ (\E j \in 1 .. i - 1 : keys[j] = keys[i])
             THEN fresh[i - 1]
        ELSE Append(fresh[i - 1], items[i])
  IN  fresh[Len(items)]

(* markDelivered: the keys that are not yet there are added.               *)
WithKeys(s, keys) == Trim(s \o Unseen(keys, keys, ToSet(s)))
================================================================================
