-------------------------------- MODULE LogStore --------------------------------
(***************************************************************************)
(* The persisted log behind GET /logs (internal/daemon/logs.go): Record    *)
(* appends a line to daemon_logs.jsonl, keeps the newest maxEntries in     *)
(* memory and now and then rewrites the file; NewLogStore reads it back.   *)
(* Appends and rewrites may fail, an append may be cut short, and the      *)
(* daemon may stop or crash at any point.                                  *)
(*                                                                         *)
(* An entry is its number.  A line is a whole entry, the beginning of one, *)
(* or what two appends left on one line; only the last line of a file can  *)
(* lack its newline.                                                       *)
(***************************************************************************)
EXTENDS Integers, FiniteSets, Sequences, SequencesExt

CONSTANTS
  MaxEntries,   \* maxEntries
  CompactAt,    \* compactAt
  Cuts,         \* where an interrupted append may have been cut
  MaxRecords,   \* bound: Record calls
  MaxFaults     \* bound: failures and crashes

(* "clean": a prefix whose decoding ends in "unexpected end of JSON input" *)
(* or within true, false or null; "escape": one that ends within a string  *)
(* escape, where the decoder complains of an invalid character instead;    *)
(* "newline": only the newline is missing.                                 *)
ASSUME LogStoreAssumption ==
  /\ MaxEntries \in Nat \ {0}
  /\ CompactAt \in Nat
  /\ Cuts \subseteq {"clean", "escape", "newline"}
  /\ MaxRecords \in Nat
  /\ MaxFaults \in Nat

VARIABLES
  file,         \* daemon_logs.jsonl, line by line
  entries,      \* s.entries
  fileEntries,  \* s.fileEntries
  pc,           \* "down", "up", or compacting: in "record" or in "load"
  records,      \* Record calls so far
  faults,       \* faults so far
  written,      \* history: entries that came whole into the file
  acked,        \* history: entries whose append succeeded
  cuts,         \* history: the cuts so far, and "short" for one without a crash
  refused       \* history: a start was refused because of the file

vars == <<file, entries, fileEntries, pc, records, faults, written, acked, cuts, refused>>

Ids == 1 .. MaxRecords
Kinds == {"entry", "clean", "escape", "glued"}
Lines == [kind : Kinds, id : 0 .. MaxRecords, ended : BOOLEAN]

TypeOK ==
  /\ file \in Seq(Lines)
  /\ entries \in Seq(Ids) /\ Len(entries) <= MaxEntries
  /\ fileEntries \in Nat
  /\ pc \in {"down", "up", "record", "load"}
  /\ records \in 0 .. MaxRecords
  /\ faults \in 0 .. MaxFaults
  /\ acked \subseteq written /\ written \subseteq Ids
  /\ cuts \subseteq Cuts \cup {"short"}
  /\ refused \in BOOLEAN

Init ==
  /\ file = << >>
  /\ entries = << >>
  /\ fileEntries = 0
  /\ pc = "down"
  /\ records = 0
  /\ faults = 0
  /\ written = {}
  /\ acked = {}
  /\ cuts = {}
  /\ refused = FALSE

CanFail == faults < MaxFaults /\ faults' = faults + 1

Line(kind, id, ended) == [kind |-> kind, id |-> id, ended |-> ended]
Whole(id) == Line("entry", id, TRUE)
Cut(c, id) == IF c = "newline" THEN Line("entry", id, FALSE) ELSE Line(c, 0, FALSE)

(* appendLocked: O_APPEND continues a line that has no newline.            *)
Appended(line) ==
  IF file # << >> /\ ~Last(file).ended
  THEN Append(Front(file), Line("glued", 0, line.ended))
  ELSE Append(file, line)

(* The newest maxEntries of s.                                             *)
Newest(s) == SubSeq(s, IF Len(s) > MaxEntries THEN Len(s) - MaxEntries + 1 ELSE 1, Len(s))

(***************************************************************************)
(* load                                                                    *)
(***************************************************************************)

(* isTruncatedLogEntry of a last line that has no newline.  How far the    *)
(* decoder gets with two beginnings on one line depends on both.           *)
TruncatedTail == file # << >> /\ ~Last(file).ended /\ Last(file).kind \in {"clean", "glued"}

(* Reading stops at a truncated last line.                                 *)
EntryLines == IF TruncatedTail THEN Front(file) ELSE file

Decodable(lines) == \A i \in 1 .. Len(lines) : lines[i].kind = "entry"

(* Mutant: a truncated last line is skipped and left in the file.          *)
LoadInPlace ==
  /\ pc = "down"
  /\ \/ Decodable(file)
     \/ TruncatedTail /\ Decodable(Front(file))
  /\ LET ids == [i \in 1 .. Len(EntryLines) |-> EntryLines[i].id]
     IN  /\ entries' = Newest(ids)
         /\ fileEntries' = Len(ids)
         /\ pc' = IF Len(ids) > MaxEntries THEN "load" ELSE "up"
  /\ UNCHANGED <<file, records, faults, written, acked, cuts, refused>>

Load ==
  /\ pc = "down"
  /\ \/ Decodable(file)
     \/ TruncatedTail /\ Decodable(Front(file))
  /\ LET ids == [i \in 1 .. Len(EntryLines) |-> EntryLines[i].id]
     IN  /\ entries' = Newest(ids)
         /\ fileEntries' = Len(ids)
         /\ pc' = IF TruncatedTail \/ Len(ids) > MaxEntries THEN "load" ELSE "up"
  /\ UNCHANGED <<file, records, faults, written, acked, cuts, refused>>

(* Any other malformed line: NewLogStore's error ends the start.           *)
LoadRefused ==
  /\ pc = "down"
  /\ ~Decodable(file)
  /\ ~(TruncatedTail /\ Last(file).kind = "clean" /\ Decodable(Front(file)))
  /\ refused' = TRUE
  /\ UNCHANGED <<file, entries, fileEntries, pc, records, faults, written, acked, cuts>>

(***************************************************************************)
(* Record and compactLocked                                                *)
(***************************************************************************)

(* Mutant: the file is rewritten only once fileEntries passes compactAt,   *)
(* whatever was trimmed.                                                   *)
CompactsAtLimit(trimmed) == fileEntries + 1 > CompactAt

(* Whether a Record rewrites the file.                                     *)
Compacts(trimmed) == trimmed \/ (CompactAt > 0 /\ fileEntries + 1 > CompactAt)

Record ==
  LET id == records + 1
  IN  /\ pc = "up"
      /\ records < MaxRecords
      /\ records' = id
      /\ file' = Appended(Whole(id))
      /\ entries' = Newest(Append(entries, id))
      /\ fileEntries' = fileEntries + 1
      /\ pc' = IF Compacts(Len(entries) = MaxEntries) THEN "record" ELSE "up"
      /\ written' = written \cup {id}
      /\ acked' = acked \cup {id}
      /\ UNCHANGED <<faults, cuts, refused>>

(* Open fails, or the write is cut short, or only Close fails: memory does *)
(* not get the entry.                                                      *)
RecordFails ==
  LET id == records + 1
  IN  /\ pc = "up"
      /\ records < MaxRecords
      /\ CanFail
      /\ records' = id
      /\ \/ UNCHANGED <<file, written, cuts>>
         \/ file' = Appended(Whole(id)) /\ written' = written \cup {id} /\ UNCHANGED cuts
         \/ /\ \E c \in Cuts : file' = Appended(Cut(c, id))
            /\ cuts' = cuts \cup {"short"}
            /\ UNCHANGED written
      /\ UNCHANGED <<entries, fileEntries, pc, acked, refused>>

(* Mutant: the file is truncated and rewritten in place.                   *)
CompactInPlace ==
  /\ pc \in {"record", "load"}
  /\ \/ /\ file' = [i \in 1 .. Len(entries) |-> Whole(entries[i])]
        /\ fileEntries' = Len(entries)
        /\ pc' = "up"
        /\ UNCHANGED faults
     \/ /\ CanFail
        /\ file' = << >>
        /\ pc' = IF pc = "record" THEN "up" ELSE "down"
        /\ UNCHANGED fileEntries
  /\ UNCHANGED <<entries, records, written, acked, cuts, refused>>

(* A temporary file is renamed over the old one, or an error leaves the    *)
(* old one: Record returns it, a start fails on it.                        *)
CompactLocked ==
  /\ pc \in {"record", "load"}
  /\ \/ /\ file' = [i \in 1 .. Len(entries) |-> Whole(entries[i])]
        /\ fileEntries' = Len(entries)
        /\ pc' = "up"
        /\ UNCHANGED <<entries, faults>>
     \/ /\ CanFail
        /\ pc = "record"
        /\ pc' = "up"
        /\ UNCHANGED <<file, entries, fileEntries>>
     \/ /\ CanFail
        /\ pc = "load"
        /\ pc' = "down"
        /\ entries' = << >>
        /\ fileEntries' = 0
        /\ UNCHANGED file
  /\ UNCHANGED <<records, written, acked, cuts, refused>>

(***************************************************************************)
(* The process ends: in an orderly way, or between two steps, or while an  *)
(* append is under way.                                                    *)
(***************************************************************************)
Gone ==
  /\ pc' = "down"
  /\ entries' = << >>
  /\ fileEntries' = 0
  /\ UNCHANGED <<acked, refused>>

Stop == pc = "up" /\ Gone /\ UNCHANGED <<file, records, faults, written, cuts>>

Crash == pc \in {"record", "load"} /\ CanFail /\ Gone /\ UNCHANGED <<file, records, written, cuts>>

CrashInAppend ==
  /\ pc = "up"
  /\ records < MaxRecords
  /\ CanFail
  /\ records' = records + 1
  /\ \E c \in Cuts :
       /\ file' = Appended(Cut(c, records + 1))
       /\ cuts' = cuts \cup {c}
       /\ written' = IF c = "newline" THEN written \cup {records + 1} ELSE written
  /\ Gone

Next ==
  \/ Load \/ LoadRefused
  \/ Record \/ RecordFails \/ CompactLocked
  \/ Stop \/ Crash \/ CrashInAppend

Spec == Init /\ [][Next]_vars

(***************************************************************************)
(* Properties                                                              *)
(***************************************************************************)

(* Appends were cut, if at all, by a crash and within the entry's JSON.    *)
OnlyCleanCuts == cuts \subseteq {"clean"}

(* An entry once appended is never lost, but to retention: while the store *)
(* is open, it is in memory or maxEntries newer ones reached the file,     *)
(* whichever appends and rewrites failed and wherever the daemon crashed   *)
(* since (logs.go 80-148, 182-213, 284-309).                               *)
RecordedEntriesRetained ==
  pc = "up" /\ OnlyCleanCuts => \A a \in acked :
    \/ \E i \in 1 .. Len(entries) : entries[i] = a
    \/ \E newer \in SUBSET written :
         /\ \A b \in newer : b > a
         /\ Cardinality(newer) >= MaxEntries

(* The file does not grow without bound: beyond the retained entries it    *)
(* holds one line per failure at most, also when the disk fills up and     *)
(* appends are cut while the daemon goes on (logs.go 200-211).             *)
FileStaysBounded == Len(file) <= MaxEntries + 1 + faults

(* An append that a crash cut within the entry's JSON makes no later start *)
(* fail, however many crashes and failed rewrites follow before the cut    *)
(* line is gone from the file (logs.go 109-148).                           *)
CleanCutsTolerated == OnlyCleanCuts => ~refused

(* README.md:727: "On startup, the log store tolerates a single trailing   *)
(* truncated JSON entry from an interrupted append and compacts the file." *)
(* No append that a crash interrupted makes a later start fail.            *)
InterruptedAppendTolerated == "short" \notin cuts => ~refused
=================================================================================
