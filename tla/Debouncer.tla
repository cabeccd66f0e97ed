------------------------------- MODULE Debouncer -------------------------------
(***************************************************************************)
(* The webhook debouncer (internal/daemon/webhook.go): schedule arms a     *)
(* timer per key, whose callback takes the lock, checks the generation,    *)
(* leaves the map, runs fn without the lock, and cleans up under it again. *)
(* Events are workflow_job webhooks, whose fn triggers a runner group      *)
(* (key "scaler-<group>"), and pushes, whose fn syncs a repository's cache *)
(* (key "sync-<base name>").  Either way an event is about a subject, fn   *)
(* looks at the subject's state when it runs, and a sync's outcome is not  *)
(* tracked: what matters is that fn runs after the event.                  *)
(*                                                                         *)
(* Schedule calls are numbered; a call's number stands for its timer and   *)
(* callback as well.  A timer may fire at any time after it is armed.      *)
(***************************************************************************)
EXTENDS Integers

CONSTANTS
  Subjects,  \* runner groups, or tracked repositories
  KeyOf,     \* subject -> debounce key
  MaxCalls   \* bound: schedule calls

ASSUME CallsAssumption == MaxCalls \in Nat

Keys == {KeyOf[s] : s \in Subjects}
Scheduled == 1 .. MaxCalls

VARIABLES
  calls,       \* schedule calls so far
  entry,       \* db.timers: key -> the entry's generation, 0 when missing
  timer,       \* key -> the call whose timer the entry holds, 0 for none
  subject,     \* call -> what its fn is about
  generationOf, \* call -> the generation its callback compares
  state,       \* call -> state of its timer and callback
  shutDown,    \* ctx.Err() # nil
  due,         \* history: subjects with an event no fn has looked at since
  overlapped   \* history: keys scheduled while a callback was past its timer

debounceVars == <<calls, entry, timer, subject, generationOf, state, shutDown, due, overlapped>>

NoSubject == "none"
States == {"unused", "armed", "fired", "run", "cleanup", "done"}

DebouncerTypeOK ==
  /\ calls \in 0 .. MaxCalls
  /\ entry \in [Keys -> 0 .. MaxCalls]
  /\ timer \in [Keys -> 0 .. MaxCalls]
  /\ subject \in [Scheduled -> Subjects \cup {NoSubject}]
  /\ generationOf \in [Scheduled -> 0 .. MaxCalls]
  /\ state \in [Scheduled -> States]
  /\ shutDown \in BOOLEAN
  /\ due \in SUBSET Subjects
  /\ overlapped \in SUBSET Keys

DebounceInit ==
  /\ calls = 0
  /\ entry = [k \in Keys |-> 0]
  /\ timer = [k \in Keys |-> 0]
  /\ subject = [i \in Scheduled |-> NoSubject]
  /\ generationOf = [i \in Scheduled |-> 0]
  /\ state = [i \in Scheduled |-> "unused"]
  /\ shutDown = FALSE
  /\ due = {}
  /\ overlapped = {}

(* Callbacks of key k in one of the given states.                          *)
Callbacks(k, states) ==
  {i \in Scheduled : state[i] \in states /\ KeyOf[subject[i]] = k}

(* Mutant: the generation is counted down.                                 *)
ScheduleBackwards(s) ==
  LET k == KeyOf[s]
      i == calls + 1
  IN  /\ calls < MaxCalls
      /\ calls' = i
      /\ entry' = [entry EXCEPT ![k] = entry[k] - 1]
      /\ generationOf' = [generationOf EXCEPT ![i] = entry[k] - 1]
      /\ timer' = [timer EXCEPT ![k] = i]
      /\ subject' = [subject EXCEPT ![i] = s]
      /\ state' = [j \in Scheduled |->
                     IF j = i THEN "armed"
                     ELSE IF j = timer[k] /\ state[j] = "armed" THEN "done" ELSE state[j]]
      /\ due' = due \cup {s}
      /\ overlapped' = IF Callbacks(k, {"fired", "run", "cleanup"}) # {}
                       THEN overlapped \cup {k} ELSE overlapped
      /\ UNCHANGED shutDown

(* schedule, called for an event about s: a new or the existing entry gets *)
(* the next generation; the timer it held is stopped, unless it has fired. *)
Schedule(s) ==
  LET k == KeyOf[s]
      i == calls + 1
  IN  /\ calls < MaxCalls
      /\ calls' = i
      /\ entry' = [entry EXCEPT ![k] = entry[k] + 1]
      /\ generationOf' = [generationOf EXCEPT ![i] = entry[k] + 1]
      /\ timer' = [timer EXCEPT ![k] = i]
      /\ subject' = [subject EXCEPT ![i] = s]
      /\ state' = [j \in Scheduled |->
                     IF j = i THEN "armed"
                     ELSE IF j = timer[k] /\ state[j] = "armed" THEN "done" ELSE state[j]]
      /\ due' = due \cup {s}
      /\ overlapped' = IF Callbacks(k, {"fired", "run", "cleanup"}) # {}
                       THEN overlapped \cup {k} ELSE overlapped
      /\ UNCHANGED shutDown

Fires(i) ==
  /\ state[i] = "armed"
  /\ state' = [state EXCEPT ![i] = "fired"]
  /\ UNCHANGED <<calls, entry, timer, subject, generationOf, shutDown, due, overlapped>>

(* delete(db.timers, key)                                                  *)
Delete(k) ==
  /\ entry' = [entry EXCEPT ![k] = 0]
  /\ timer' = [timer EXCEPT ![k] = 0]

(* The map has the callback's own entry, or one of the same generation.    *)
Current(i) == entry[KeyOf[subject[i]]] = generationOf[i]

(* Mutant: the callback leaves its entry in the map until it is done.      *)
EnterKeepingEntry(i) ==
  /\ state[i] = "fired"
  /\ state' = [state EXCEPT ![i] = IF Current(i) THEN "run" ELSE "done"]
  /\ UNCHANGED <<entry, timer, calls, subject, generationOf, shutDown, due, overlapped>>

(* Mutant: off by one in the generation that is compared.                  *)
EnterLater(i) ==
  /\ state[i] = "fired"
  /\ \/ /\ entry[KeyOf[subject[i]]] = generationOf[i] + 1
        /\ Delete(KeyOf[subject[i]])
        /\ state' = [state EXCEPT ![i] = "run"]
     \/ /\ entry[KeyOf[subject[i]]] # generationOf[i] + 1
        /\ state' = [state EXCEPT ![i] = "done"]
        /\ UNCHANGED <<entry, timer>>
  /\ UNCHANGED <<calls, subject, generationOf, shutDown, due, overlapped>>

(* The callback's first locked section.                                    *)
Enter(i) ==
  /\ state[i] = "fired"
  /\ \/ /\ Current(i)
        /\ Delete(KeyOf[subject[i]])
        /\ state' = [state EXCEPT ![i] = "run"]
     \/ /\ ~Current(i)
        /\ state' = [state EXCEPT ![i] = "done"]
        /\ UNCHANGED <<entry, timer>>
  /\ UNCHANGED <<calls, subject, generationOf, shutDown, due, overlapped>>

(* fn, unless the daemon is shutting down; it runs until Cleanup.          *)
RunFn(i) ==
  /\ state[i] = "run"
  /\ state' = [state EXCEPT ![i] = "cleanup"]
  /\ due' = IF shutDown THEN due ELSE due \ {subject[i]}
  /\ UNCHANGED <<calls, entry, timer, subject, generationOf, shutDown, overlapped>>

(* The callback's second locked section.                                   *)
Cleanup(i) ==
  /\ state[i] = "cleanup"
  /\ state' = [state EXCEPT ![i] = "done"]
  /\ IF Current(i) THEN Delete(KeyOf[subject[i]]) ELSE UNCHANGED <<entry, timer>>
  /\ UNCHANGED <<calls, subject, generationOf, shutDown, due, overlapped>>

ShutDown ==
  /\ ~shutDown
  /\ shutDown' = TRUE
  /\ UNCHANGED <<calls, entry, timer, subject, generationOf, state, due, overlapped>>

CallbackStep(i) == Fires(i) \/ Enter(i) \/ RunFn(i) \/ Cleanup(i)

DebounceNext ==
  \/ \E s \in Subjects : Schedule(s)
  \/ \E i \in Scheduled : CallbackStep(i)
  \/ ShutDown

DebounceSpec == DebounceInit /\ [][DebounceNext]_debounceVars

(* Timers fire, callbacks get the lock, fn returns.                        *)
FairDebounceSpec == DebounceSpec /\ \A i \in Scheduled : WF_debounceVars(CallbackStep(i))

(***************************************************************************)
(* Properties                                                              *)
(***************************************************************************)

(* No entry outlives its callback: an entry in the map has a callback that *)
(* will still find it, so the map never holds a key for ever, whichever    *)
(* timers fired before Stop reached them (webhook.go 78-112).              *)
EntryHasCallback ==
  \A k \in Keys : entry[k] # 0 =>
    \E i \in Callbacks(k, {"armed", "fired"}) : generationOf[i] = entry[k] /\ timer[k] = i

(* Distinct subjects have distinct keys.                                   *)
OwnKeys == \A s, t \in Subjects : s # t => KeyOf[s] # KeyOf[t]

(* An event is acted on in the end, if it never met a callback of its key  *)
(* that was already past its timer, however timers and events interleave   *)
(* (webhook.go 70-113).                                                    *)
ActedOnUnlessOverlapped ==
  OwnKeys =>
    \A s \in Subjects : s \in due ~> (s \notin due \/ KeyOf[s] \in overlapped \/ shutDown)

(* webhook.go:69: "schedule queues fn to run after delay, resetting on     *)
(* rapid calls with the same key".  When every timer and callback is done, *)
(* no event is left that no fn looked at.                                  *)
EveryEventActedOn ==
  (\A i \in Scheduled : state[i] \in {"unused", "done"}) => due = {} \/ shutDown

(* README.md:217: "push events to tracked repos trigger cache volume       *)
(* syncs", for each tracked repository.                                    *)
EveryPushSynced == EveryEventActedOn
================================================================================
