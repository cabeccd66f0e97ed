----------------------------- MODULE LogStoreProofs -----------------------------
(***************************************************************************)
(* Proofs about LogStore, for any retention limit, any compaction          *)
(* threshold and any number of Record calls and faults: the file stays     *)
(* bounded, a start tolerates what crashes cut, and nothing recorded is    *)
(* lost but to retention.                                                  *)
(***************************************************************************)
EXTENDS LogStore, FiniteSetTheorems, SequenceTheorems, TLAPS

(***************************************************************************)
(* The operators on lines and sequences                                    *)
(***************************************************************************)
LEMMA LineType ==
  ASSUME NEW id \in Ids
  PROVE  /\ Whole(id) \in Lines
         /\ \A c \in Cuts : Cut(c, id) \in Lines
BY LogStoreAssumption DEF Whole, Cut, Line, Lines, Kinds, Ids

(* Front drops the last element.                                           *)
LEMMA FrontFacts ==
  ASSUME NEW S, NEW s \in Seq(S), s # << >>
  PROVE  /\ Front(s) \in Seq(S)
         /\ Len(Front(s)) = Len(s) - 1
         /\ \A i \in 1 .. Len(s) - 1 : Front(s)[i] = s[i]
<1>1. Len(s) \in Nat /\ Len(s) >= 1
  BY EmptySeq
<1>2. \A i \in 1 .. Len(s) - 1 : s[i] \in S
  BY <1>1, ElementOfSeq
<1> DEFINE f == Front(s)
<1>3. /\ f \in Seq(S)
      /\ Len(f) = IF 1 <= Len(s) - 1 THEN (Len(s) - 1) - 1 + 1 ELSE 0
      /\ \A i \in 1 .. (Len(s) - 1) - 1 + 1 : f[i] = s[1 + i - 1]
  BY <1>1, <1>2, SubSeqProperties DEF Front
<1> HIDE DEF f
<1>4. Len(f) = Len(s) - 1
  <2>1. Len(f) = IF 1 <= Len(s) - 1 THEN (Len(s) - 1) - 1 + 1 ELSE 0
    BY <1>3
  <2>2. CASE Len(s) = 1
    <3>1. ~(1 <= Len(s) - 1) /\ Len(s) - 1 = 0
      BY <2>2
    <3> QED BY <2>1, <3>1
  <2>3. CASE Len(s) # 1
    <3>1. \A n \in Nat : n >= 1 /\ n # 1 => 1 <= n - 1 /\ (n - 1) - 1 + 1 = n - 1
      OBVIOUS
    <3>2. 1 <= Len(s) - 1 /\ (Len(s) - 1) - 1 + 1 = Len(s) - 1
      BY <1>1, <2>3, <3>1
    <3> QED BY <2>1, <3>2
  <2> QED BY <2>2, <2>3
<1>5. \A i \in 1 .. Len(s) - 1 : f[i] = s[i]
  <2> TAKE i \in 1 .. Len(s) - 1
  <2>1. i \in 1 .. (Len(s) - 1) - 1 + 1 /\ 1 + i - 1 = i
    BY <1>1
  <2> QED BY <1>3, <2>1
<1> QED BY <1>3, <1>4, <1>5 DEF f

(* What an append leaves: one line more at most, and the lines before it.  *)
LEMMA AppendedFacts ==
  ASSUME file \in Seq(Lines), NEW line \in Lines
  PROVE  /\ Appended(line) \in Seq(Lines)
         /\ Len(Appended(line)) <= Len(file) + 1
         /\ (\A i \in 1 .. Len(file) : file[i].ended) => Appended(line) = Append(file, line)
<1>1. CASE file # << >> /\ ~Last(file).ended
  <2>1. Len(file) \in Nat \ {0}
    BY <1>1, EmptySeq
  <2>2. Line("glued", 0, line.ended) \in Lines
    BY LogStoreAssumption DEF Line, Lines, Kinds
  <2>3. /\ Append(Front(file), Line("glued", 0, line.ended)) \in Seq(Lines)
        /\ Len(Append(Front(file), Line("glued", 0, line.ended))) = Len(file)
    BY <1>1, <2>1, <2>2, FrontFacts, AppendProperties
  <2>4. ~\A i \in 1 .. Len(file) : file[i].ended
    BY <1>1, <2>1 DEF Last
  <2> QED BY <1>1, <2>1, <2>3, <2>4 DEF Appended
<1>2. CASE ~(file # << >> /\ ~Last(file).ended)
  BY <1>2, AppendProperties, LenProperties DEF Appended
<1> QED BY <1>1, <1>2

(* Newest keeps a suffix, of at most MaxEntries elements.                  *)
LEMMA NewestFacts ==
  ASSUME NEW S, NEW s \in Seq(S)
  PROVE  /\ Newest(s) \in Seq(S)
         /\ Len(Newest(s)) = IF Len(s) > MaxEntries THEN MaxEntries ELSE Len(s)
         /\ \A i \in 1 .. Len(Newest(s)) : Newest(s)[i] = s[Len(s) - Len(Newest(s)) + i]
<1> DEFINE m == IF Len(s) > MaxEntries THEN Len(s) - MaxEntries + 1 ELSE 1
<1>1. MaxEntries \in Nat \ {0}
  BY LogStoreAssumption
<1>2. Len(s) \in Nat /\ \A i \in 1 .. Len(s) : s[i] \in S
  BY LenProperties, ElementOfSeq
<1>3. m \in Int /\ m >= 1 /\ m <= Len(s) + 1
  BY <1>1, <1>2
<1>4. \A i \in m .. Len(s) : s[i] \in S
  BY <1>2, <1>3
<1> HIDE DEF m
<1> DEFINE t == Newest(s)
<1>5. t = SubSeq(s, m, Len(s))
  BY DEF Newest, m
<1> HIDE DEF t
<1>6. /\ t \in Seq(S)
      /\ Len(t) = IF m <= Len(s) THEN Len(s) - m + 1 ELSE 0
      /\ \A i \in 1 .. Len(s) - m + 1 : t[i] = s[m + i - 1]
  BY <1>2, <1>3, <1>4, <1>5, SubSeqProperties
<1>7. Len(t) = Len(s) - m + 1
  <2>1. Len(t) = IF m <= Len(s) THEN Len(s) - m + 1 ELSE 0
    BY <1>6
  <2> QED BY <1>2, <1>3, <2>1
<1>8. Len(t) = IF Len(s) > MaxEntries THEN MaxEntries ELSE Len(s)
  BY <1>1, <1>2, <1>7 DEF m
<1>9. \A i \in 1 .. Len(t) : t[i] = s[Len(s) - Len(t) + i]
  <2> TAKE i \in 1 .. Len(t)
  <2>1. i \in 1 .. Len(s) - m + 1 /\ m + i - 1 = Len(s) - Len(t) + i
    BY <1>2, <1>3, <1>7
  <2> QED BY <1>6, <2>1
<1> QED BY <1>6, <1>8, <1>9 DEF t

(* A function from 1 .. n is a sequence of length n.                       *)
LEMMA FunctionIsSeq ==
  ASSUME NEW S, NEW n \in Nat, NEW f \in [1 .. n -> S]
  PROVE  f \in Seq(S) /\ Len(f) = n
<1>1. f \in Seq(S)
  BY SeqDef
<1>2. Len(f) \in Nat /\ 1 .. Len(f) = 1 .. n
  BY <1>1, LenProperties
<1> QED BY <1>1, <1>2

(* The numbers of the entries that load reads.                             *)
LoadedIds == [i \in 1 .. Len(EntryLines) |-> EntryLines[i].id]

(* The lines that load reads are those of the file, without a truncated    *)
(* last one.                                                               *)
LEMMA EntryLinesFacts ==
  ASSUME file \in Seq(Lines)
  PROVE  /\ EntryLines \in Seq(Lines)
         /\ Len(EntryLines) <= Len(file)
         /\ ~TruncatedTail => EntryLines = file
         /\ TruncatedTail => Len(EntryLines) = Len(file) - 1 /\ Len(file) > 0
         /\ \A i \in 1 .. Len(EntryLines) : EntryLines[i] = file[i]
<1>1. CASE TruncatedTail
  <2>1. file # << >>
    BY <1>1 DEF TruncatedTail
  <2>2. Len(file) \in Nat \ {0}
    BY <2>1, EmptySeq
  <2> QED BY <1>1, <2>1, <2>2, FrontFacts DEF EntryLines
<1>2. CASE ~TruncatedTail
  BY <1>2, LenProperties DEF EntryLines
<1> QED BY <1>1, <1>2

LEMMA LoadedIdsFacts ==
  ASSUME file \in Seq(Lines),
         \/ Decodable(file)
         \/ TruncatedTail /\ Decodable(Front(file))
  PROVE  /\ LoadedIds \in Seq(0 .. MaxRecords)
         /\ Len(LoadedIds) = Len(EntryLines)
         /\ \A i \in 1 .. Len(LoadedIds) : LoadedIds[i] = file[i].id /\ file[i].kind = "entry"
<1>1. Len(EntryLines) \in Nat /\ \A i \in 1 .. Len(EntryLines) : EntryLines[i] \in Lines
  BY EntryLinesFacts, LenProperties, ElementOfSeq
<1>2. LoadedIds \in [1 .. Len(EntryLines) -> 0 .. MaxRecords]
  BY <1>1 DEF LoadedIds, Lines
<1>3. LoadedIds \in Seq(0 .. MaxRecords) /\ Len(LoadedIds) = Len(EntryLines)
  BY <1>1, <1>2, FunctionIsSeq
<1>4. \A i \in 1 .. Len(EntryLines) : EntryLines[i].kind = "entry"
  <2>1. CASE TruncatedTail /\ Decodable(Front(file))
    BY <2>1 DEF EntryLines, Decodable
  <2>2. CASE Decodable(file)
    BY <2>2, <1>1, EntryLinesFacts, LenProperties DEF Decodable
  <2> QED BY <2>1, <2>2
<1> QED BY <1>1, <1>2, <1>3, <1>4, EntryLinesFacts DEF LoadedIds

(***************************************************************************)
(* The type invariant                                                      *)
(***************************************************************************)
LEMMA LogTypeInit == Init => TypeOK
<1> SUFFICES ASSUME Init PROVE TypeOK
  OBVIOUS
<1>1. file \in Seq(Lines) /\ entries \in Seq(Ids) /\ Len(entries) = 0
  BY EmptySeq DEF Init
<1>2. Len(entries) <= MaxEntries
  BY <1>1, LogStoreAssumption
<1>3. records \in 0 .. MaxRecords /\ faults \in 0 .. MaxFaults
  BY LogStoreAssumption DEF Init
<1>4. /\ fileEntries \in Nat
      /\ pc \in {"down", "up", "record", "load"}
      /\ acked \subseteq written /\ written \subseteq Ids
      /\ cuts \subseteq Cuts \cup {"short"}
      /\ refused \in BOOLEAN
  BY DEF Init
<1> QED BY <1>1, <1>2, <1>3, <1>4 DEF TypeOK

(* The entries read have numbers: line 0 is never an entry's.              *)
Numbered == \A i \in 1 .. Len(file) : file[i].kind = "entry" => file[i].id \in Ids

LInv == TypeOK /\ Numbered

(* Every line a step may append is well formed.                            *)
LEMMA AppendedType ==
  ASSUME LInv, NEW id \in Ids,
         NEW line \in {Whole(id)} \cup {Cut(c, id) : c \in Cuts}
  PROVE  /\ Appended(line) \in Seq(Lines)
         /\ Len(Appended(line)) <= Len(file) + 1
         /\ \A i \in 1 .. Len(Appended(line)) :
              Appended(line)[i].kind = "entry" => Appended(line)[i].id \in Ids
<1>1. file \in Seq(Lines) /\ Len(file) \in Nat /\ Numbered
  BY LenProperties DEF LInv, TypeOK
<1>2. line \in Lines /\ (line.kind = "entry" => line.id \in Ids)
  <2>1. CASE line = Whole(id)
    BY <2>1, LineType DEF Whole, Line
  <2>2. CASE line \in {Cut(c, id) : c \in Cuts}
    <3>1. PICK c \in Cuts : line = Cut(c, id)
      BY <2>2
    <3>2. CASE c = "newline"
      BY <3>1, <3>2, LineType DEF Cut, Line
    <3>3. CASE c # "newline"
      <4>1. c \in {"clean", "escape"}
        BY <3>3, LogStoreAssumption
      <4> QED BY <3>1, <3>3, <4>1, LineType DEF Cut, Line
    <3> QED BY <3>2, <3>3
  <2> QED BY <2>1, <2>2
<1>3. CASE file # << >> /\ ~Last(file).ended
  <2> DEFINE glue == Line("glued", 0, line.ended)
             f == Front(file)
  <2>1. glue \in Lines /\ glue.kind # "entry"
    BY <1>2, LogStoreAssumption DEF Line, Lines, Kinds
  <2>2. f \in Seq(Lines) /\ Len(f) = Len(file) - 1 /\ Len(f) \in Nat
    BY <1>1, <1>3, FrontFacts, LenProperties
  <2>3. \A i \in 1 .. Len(file) - 1 : f[i] = file[i]
    BY <1>1, <1>3, FrontFacts
  <2>4. Appended(line) = Append(f, glue)
    BY <1>3 DEF Appended
  <2> HIDE DEF f, glue
  <2>5. /\ Append(f, glue) \in Seq(Lines)
        /\ Len(Append(f, glue)) = Len(f) + 1
        /\ \A i \in 1 .. Len(f) : Append(f, glue)[i] = f[i]
        /\ Append(f, glue)[Len(f) + 1] = glue
    BY <2>1, <2>2, AppendProperties
  <2> DEFINE a == Append(f, glue)
  <2>6. \A i \in 1 .. Len(a) : a[i].kind = "entry" => a[i].id \in Ids
    <3> TAKE i \in 1 .. Len(a)
    <3>1. CASE i = Len(f) + 1
      BY <3>1, <2>1, <2>5
    <3>2. CASE i # Len(f) + 1
      <4>1. i \in 1 .. Len(f) /\ i \in 1 .. Len(file)
        BY <3>2, <2>2, <2>5, <1>1
      <4> QED BY <4>1, <2>2, <2>3, <2>5, <1>1 DEF Numbered
    <3> QED BY <3>1, <3>2
  <2> QED BY <1>1, <2>2, <2>4, <2>5, <2>6
<1>4. CASE ~(file # << >> /\ ~Last(file).ended)
  <2>1. Appended(line) = Append(file, line)
    BY <1>4 DEF Appended
  <2>2. /\ Append(file, line) \in Seq(Lines)
        /\ Len(Append(file, line)) = Len(file) + 1
        /\ \A i \in 1 .. Len(file) : Append(file, line)[i] = file[i]
        /\ Append(file, line)[Len(file) + 1] = line
    BY <1>1, <1>2, AppendProperties
  <2> DEFINE a == Append(file, line)
  <2>3. \A i \in 1 .. Len(a) : a[i].kind = "entry" => a[i].id \in Ids
    <3> TAKE i \in 1 .. Len(a)
    <3>1. CASE i = Len(file) + 1
      BY <3>1, <1>2, <2>2
    <3>2. CASE i # Len(file) + 1
      <4>1. i \in 1 .. Len(file)
        BY <3>2, <2>2, <1>1
      <4> QED BY <4>1, <2>2, <1>1 DEF Numbered
    <3> QED BY <3>1, <3>2
  <2> QED BY <1>1, <2>1, <2>2, <2>3
<1> QED BY <1>3, <1>4

(* The rewritten file: the entries in memory, a line each.                 *)
Rewritten == [i \in 1 .. Len(entries) |-> Whole(entries[i])]

LEMMA RewrittenFacts ==
  ASSUME TypeOK
  PROVE  /\ Rewritten \in Seq(Lines)
         /\ Len(Rewritten) = Len(entries)
         /\ \A i \in 1 .. Len(entries) :
              /\ Rewritten[i].kind = "entry" /\ Rewritten[i].ended
              /\ Rewritten[i].id = entries[i]
              /\ entries[i] \in Ids
<1>1. Len(entries) \in Nat /\ \A i \in 1 .. Len(entries) : entries[i] \in Ids
  BY LenProperties, ElementOfSeq DEF TypeOK
<1>2. Rewritten \in [1 .. Len(entries) -> Lines]
  BY <1>1, LineType DEF Rewritten
<1>3. \A i \in 1 .. Len(entries) :
        /\ Rewritten[i].kind = "entry" /\ Rewritten[i].ended
        /\ Rewritten[i].id = entries[i]
  BY DEF Rewritten, Whole, Line
<1> QED BY <1>1, <1>2, <1>3, FunctionIsSeq

(* What load leaves in memory: the newest of the numbered lines it read.   *)
LEMMA LoadFacts ==
  ASSUME LInv, Load
  PROVE  /\ LoadedIds \in Seq(Ids)
         /\ Len(LoadedIds) = Len(EntryLines)
         /\ \A i \in 1 .. Len(LoadedIds) : LoadedIds[i] = file[i].id /\ file[i].kind = "entry"
         /\ entries' = Newest(LoadedIds)
         /\ fileEntries' = Len(LoadedIds)
         /\ pc' = IF TruncatedTail \/ Len(LoadedIds) > MaxEntries THEN "load" ELSE "up"
<1>1. file \in Seq(Lines) /\ Len(file) \in Nat /\ Numbered
  BY LenProperties DEF LInv, TypeOK
<1>2. /\ LoadedIds \in Seq(0 .. MaxRecords)
      /\ Len(LoadedIds) = Len(EntryLines)
      /\ \A i \in 1 .. Len(LoadedIds) : LoadedIds[i] = file[i].id /\ file[i].kind = "entry"
  BY <1>1, LoadedIdsFacts DEF Load
<1>3. Len(LoadedIds) \in Nat /\ Len(LoadedIds) <= Len(file)
      /\ LoadedIds \in [1 .. Len(LoadedIds) -> 0 .. MaxRecords]
  BY <1>1, <1>2, EntryLinesFacts, LenProperties
<1>4. \A i \in 1 .. Len(LoadedIds) : LoadedIds[i] \in Ids
  BY <1>1, <1>2, <1>3 DEF Numbered
<1>5. LoadedIds \in [1 .. Len(LoadedIds) -> Ids]
  BY <1>3, <1>4
<1>6. LoadedIds \in Seq(Ids)
  BY <1>3, <1>5, FunctionIsSeq
<1>7. /\ entries' = Newest(LoadedIds)
      /\ fileEntries' = Len(LoadedIds)
      /\ pc' = IF TruncatedTail \/ Len(LoadedIds) > MaxEntries THEN "load" ELSE "up"
  BY DEF Load, LoadedIds
<1> QED BY <1>2, <1>6, <1>7

LEMMA EntriesAreIds ==
  ASSUME NEW s \in Seq(Ids)
  PROVE  Newest(s) \in Seq(Ids) /\ Len(Newest(s)) \in Nat /\ Len(Newest(s)) <= MaxEntries
<1>1. Len(s) \in Nat /\ MaxEntries \in Nat
  BY LenProperties, LogStoreAssumption
<1>2. /\ Newest(s) \in Seq(Ids)
      /\ Len(Newest(s)) = IF Len(s) > MaxEntries THEN MaxEntries ELSE Len(s)
  BY NewestFacts
<1> QED BY <1>1, <1>2

LEMMA NextId ==
  ASSUME TypeOK, records < MaxRecords
  PROVE  records + 1 \in Ids /\ records + 1 \in 0 .. MaxRecords
BY LogStoreAssumption DEF TypeOK, Ids

LEMMA LogTypeStep == LInv /\ [Next]_vars => LInv'
<1> SUFFICES ASSUME LInv, [Next]_vars PROVE LInv'
  OBVIOUS
<1> USE LogStoreAssumption
<1>0. TypeOK /\ Numbered /\ Len(file) \in Nat /\ Len(entries) \in Nat
  BY LenProperties DEF LInv, TypeOK
<1>1. CASE Load
  <2>1. entries' \in Seq(Ids) /\ Len(entries') <= MaxEntries
    BY <1>1, LoadFacts, EntriesAreIds
  <2>2. fileEntries' \in Nat /\ pc' \in {"up", "load"}
    BY <1>1, LoadFacts, LenProperties
  <2>3. UNCHANGED <<file, records, faults, written, acked, cuts, refused>>
    BY <1>1 DEF Load
  <2> QED BY <1>0, <2>1, <2>2, <2>3 DEF LInv, TypeOK, Numbered
<1>2. CASE LoadRefused
  BY <1>0, <1>2 DEF LoadRefused, LInv, TypeOK, Numbered
<1>3. CASE Record
  <2> DEFINE id == records + 1
  <2>1. id \in Ids /\ id \in 0 .. MaxRecords
    BY <1>0, <1>3, NextId DEF Record
  <2>2. file' \in Seq(Lines) /\ Numbered'
    BY <1>3, <2>1, AppendedType DEF Record, Numbered
  <2>3. Append(entries, id) \in Seq(Ids)
    BY <1>0, <2>1, AppendProperties DEF TypeOK
  <2>4. entries' \in Seq(Ids) /\ Len(entries') <= MaxEntries
    BY <1>3, <2>3, EntriesAreIds DEF Record
  <2>5. /\ records' = id /\ fileEntries' = fileEntries + 1
        /\ pc' \in {"record", "up"}
        /\ written' = written \cup {id} /\ acked' = acked \cup {id}
        /\ UNCHANGED <<faults, cuts, refused>>
    BY <1>3 DEF Record
  <2> HIDE DEF id
  <2> QED BY <1>0, <2>1, <2>2, <2>4, <2>5 DEF LInv, TypeOK
<1>4. CASE RecordFails
  <2> DEFINE id == records + 1
  <2>1. id \in Ids /\ id \in 0 .. MaxRecords
    BY <1>0, <1>4, NextId DEF RecordFails
  <2>2. /\ file' \in Seq(Lines) /\ Numbered'
        /\ written' \in {written, written \cup {id}}
        /\ cuts' \in {cuts, cuts \cup {"short"}}
    <3>1. CASE UNCHANGED <<file, written, cuts>>
      BY <1>0, <3>1 DEF TypeOK, Numbered
    <3>2. CASE file' = Appended(Whole(id)) /\ written' = written \cup {id} /\ UNCHANGED cuts
      BY <2>1, <3>2, AppendedType DEF Numbered
    <3>3. CASE /\ \E c \in Cuts : file' = Appended(Cut(c, id))
               /\ cuts' = cuts \cup {"short"}
               /\ UNCHANGED written
      BY <2>1, <3>3, AppendedType DEF Numbered
    <3> QED BY <1>4, <3>1, <3>2, <3>3 DEF RecordFails
  <2>3. /\ records' = id /\ faults' \in 0 .. MaxFaults
        /\ UNCHANGED <<entries, fileEntries, pc, acked, refused>>
    BY <1>0, <1>4 DEF RecordFails, CanFail, TypeOK
  <2> HIDE DEF id
  <2> QED BY <1>0, <2>1, <2>2, <2>3 DEF LInv, TypeOK
<1>5. CASE CompactLocked
  <2>1. faults' \in 0 .. MaxFaults
    BY <1>0, <1>5 DEF CompactLocked, CanFail, TypeOK
  <2>2. UNCHANGED <<records, written, acked, cuts, refused>> /\ pc' \in {"up", "down"}
    BY <1>5 DEF CompactLocked
  <2>3. CASE file' = Rewritten /\ fileEntries' = Len(entries) /\ UNCHANGED entries
    <3>1. file' \in Seq(Lines) /\ Numbered'
      <4>1. \A i \in 1 .. Len(entries) : file'[i].id \in Ids
        BY <1>0, <2>3, RewrittenFacts
      <4> QED BY <1>0, <2>3, <4>1, RewrittenFacts DEF Numbered
    <3> QED BY <1>0, <2>1, <2>2, <2>3, <3>1 DEF LInv, TypeOK
  <2>4. CASE UNCHANGED <<file, entries, fileEntries>>
    BY <1>0, <2>1, <2>2, <2>4 DEF LInv, TypeOK, Numbered
  <2>5. CASE entries' = << >> /\ fileEntries' = 0 /\ UNCHANGED file
    <3>1. entries' \in Seq(Ids) /\ Len(entries') <= MaxEntries
      BY <2>5, EmptySeq
    <3> QED BY <1>0, <2>1, <2>2, <2>5, <3>1 DEF LInv, TypeOK, Numbered
  <2> QED BY <1>5, <2>3, <2>4, <2>5 DEF CompactLocked, Rewritten
<1>6. CASE Stop \/ Crash
  <2>1. entries' \in Seq(Ids) /\ Len(entries') <= MaxEntries
    <3>1. entries' = << >>
      BY <1>6 DEF Stop, Crash, Gone
    <3> QED BY <3>1, EmptySeq
  <2>2. faults' \in 0 .. MaxFaults
    BY <1>0, <1>6 DEF Stop, Crash, CanFail, TypeOK
  <2>3. /\ pc' = "down" /\ fileEntries' = 0
        /\ UNCHANGED <<acked, refused, file, records, written, cuts>>
    BY <1>6 DEF Stop, Crash, Gone
  <2> QED BY <1>0, <2>1, <2>2, <2>3 DEF LInv, TypeOK, Numbered
<1>7. CASE CrashInAppend
  <2> DEFINE id == records + 1
  <2>1. id \in Ids /\ id \in 0 .. MaxRecords
    BY <1>0, <1>7, NextId DEF CrashInAppend
  <2>2. PICK c \in Cuts : /\ file' = Appended(Cut(c, id))
                          /\ cuts' = cuts \cup {c}
                          /\ written' \in {written, written \cup {id}}
    BY <1>7 DEF CrashInAppend
  <2>3. file' \in Seq(Lines) /\ Numbered'
    BY <2>1, <2>2, AppendedType DEF Numbered
  <2>4. entries' \in Seq(Ids) /\ Len(entries') <= MaxEntries
    BY <1>7, EmptySeq DEF CrashInAppend, Gone
  <2>5. /\ pc' = "down" /\ fileEntries' = 0 /\ records' = id /\ faults' \in 0 .. MaxFaults
        /\ UNCHANGED <<acked, refused>>
    BY <1>0, <1>7 DEF CrashInAppend, Gone, CanFail, TypeOK
  <2> HIDE DEF id
  <2> QED BY <1>0, <2>1, <2>2, <2>3, <2>4, <2>5 DEF LInv, TypeOK
<1>8. CASE UNCHANGED vars
  BY <1>0, <1>8 DEF vars, LInv, TypeOK, Numbered
<1> QED BY <1>1, <1>2, <1>3, <1>4, <1>5, <1>6, <1>7, <1>8 DEF Next

LEMMA NumberedInit == Init => LInv
<1> SUFFICES ASSUME Init PROVE Numbered
  BY LogTypeInit DEF LInv
<1>1. Len(file) = 0
  BY EmptySeq DEF Init
<1> QED BY <1>1 DEF Numbered

(* Every reachable state of the log store is well typed: in particular,    *)
(* memory never holds more than maxEntries.                                *)
THEOREM LogStoreTypeCorrect == Spec => []TypeOK
<1>1. LInv => TypeOK
  BY DEF LInv
<1> QED BY <1>1, NumberedInit, LogTypeStep, PTL DEF Spec

(***************************************************************************)
(* The file stays bounded                                                  *)
(***************************************************************************)

(* FileStaysBounded is not inductive: what a line more than the limit is   *)
(* owed to depends on where the store is.  While it is open, memory bounds *)
(* the file, which a Record lengthens with it; a rewrite that is due       *)
(* allows for one line; and what a closed store leaves, the next start     *)
(* reads back.                                                             *)
Bounded ==
  /\ pc = "up" => Len(file) <= Len(entries) + faults
  /\ pc = "record" => Len(file) <= Len(entries) + 1 + faults
  /\ pc \in {"down", "load"} => Len(file) <= MaxEntries + faults

LEMMA BoundedStep == LInv /\ Bounded /\ [Next]_vars => Bounded'
<1> SUFFICES ASSUME LInv, Bounded, [Next]_vars PROVE Bounded'
  OBVIOUS
<1>0. /\ TypeOK /\ Len(file) \in Nat /\ Len(entries) \in Nat /\ Len(entries) <= MaxEntries
      /\ MaxEntries \in Nat /\ faults \in Nat
  BY LenProperties, LogStoreAssumption DEF LInv, TypeOK
<1>1. CASE Load
  <2>1. Len(LoadedIds) \in Nat /\ pc = "down" /\ UNCHANGED <<file, faults>>
    BY <1>1, LoadFacts, LenProperties DEF Load
  <2>2. CASE TruncatedTail \/ Len(LoadedIds) > MaxEntries
    BY <1>0, <1>1, <2>1, <2>2, LoadFacts DEF Bounded
  <2>3. CASE ~(TruncatedTail \/ Len(LoadedIds) > MaxEntries)
    <3>1. Len(LoadedIds) = Len(file)
      BY <1>0, <1>1, <2>3, LoadFacts, EntryLinesFacts DEF TypeOK
    <3>2. Len(entries') = Len(LoadedIds)
      BY <1>0, <1>1, <2>1, <2>3, LoadFacts, NewestFacts
    <3>3. pc' = "up"
      BY <1>1, <2>3, LoadFacts
    <3> QED BY <1>0, <2>1, <3>1, <3>2, <3>3 DEF Bounded
  <2> QED BY <2>2, <2>3
<1>2. CASE LoadRefused
  BY <1>2 DEF LoadRefused, Bounded
<1>3. CASE Record
  <2> DEFINE id == records + 1
             grown == Append(entries, id)
  <2>1. id \in Ids
    BY <1>0, <1>3, NextId DEF Record
  <2>2. Len(file') \in Nat /\ Len(file') <= Len(file) + 1
    BY <1>3, <2>1, AppendedType, LenProperties DEF Record
  <2>3. grown \in Seq(Ids) /\ Len(grown) = Len(entries) + 1
    BY <1>0, <2>1, AppendProperties DEF TypeOK
  <2> HIDE DEF grown
  <2>4. Len(entries') = IF Len(entries) + 1 > MaxEntries THEN MaxEntries ELSE Len(entries) + 1
    <3>1. entries' = Newest(grown)
      BY <1>3 DEF Record, grown
    <3> QED BY <2>3, <3>1, NewestFacts
  <2>5. pc = "up" /\ UNCHANGED faults
        /\ pc' = IF Compacts(Len(entries) = MaxEntries) THEN "record" ELSE "up"
    BY <1>3 DEF Record
  <2>6. CASE Len(entries) = MaxEntries
    <3>1. pc' = "record"
      BY <2>5, <2>6 DEF Compacts
    <3>2. Len(entries') = Len(entries)
      BY <1>0, <2>4, <2>6
    <3> QED BY <1>0, <2>2, <2>5, <3>1, <3>2 DEF Bounded
  <2>7. CASE Len(entries) # MaxEntries
    <3>1. Len(entries') = Len(entries) + 1
      BY <1>0, <2>4, <2>7
    <3>2. pc' \in {"record", "up"}
      BY <2>5
    <3> QED BY <1>0, <2>2, <2>5, <3>1, <3>2 DEF Bounded
  <2> QED BY <2>6, <2>7
<1>4. CASE RecordFails
  <2>1. records + 1 \in Ids
    BY <1>0, <1>4, NextId DEF RecordFails
  <2>2. Len(file') \in Nat /\ Len(file') <= Len(file) + 1
    <3>1. CASE UNCHANGED file
      BY <1>0, <3>1
    <3>2. CASE file' = Appended(Whole(records + 1))
      BY <2>1, <3>2, AppendedType, LenProperties
    <3>3. CASE \E c \in Cuts : file' = Appended(Cut(c, records + 1))
      BY <2>1, <3>3, AppendedType, LenProperties
    <3> QED BY <1>4, <3>1, <3>2, <3>3 DEF RecordFails
  <2>3. pc = "up" /\ faults' = faults + 1 /\ UNCHANGED <<entries, pc>>
    BY <1>4 DEF RecordFails, CanFail
  <2> QED BY <1>0, <2>2, <2>3 DEF Bounded
<1>5. CASE CompactLocked
  <2>1. CASE file' = Rewritten /\ pc' = "up" /\ UNCHANGED <<entries, faults>>
    <3>1. Len(file') = Len(entries)
      BY <1>0, <2>1, RewrittenFacts
    <3> QED BY <1>0, <2>1, <3>1 DEF Bounded
  <2>2. CASE CanFail /\ pc = "record" /\ pc' = "up" /\ UNCHANGED <<file, entries>>
    BY <1>0, <2>2 DEF Bounded, CanFail
  <2>3. CASE CanFail /\ pc = "load" /\ pc' = "down" /\ UNCHANGED file
    BY <1>0, <2>3 DEF Bounded, CanFail
  <2> QED BY <1>5, <2>1, <2>2, <2>3 DEF CompactLocked, Rewritten
<1>6. CASE Stop
  BY <1>0, <1>6 DEF Stop, Gone, Bounded
<1>7. CASE Crash
  <2>1. pc \in {"record", "load"} /\ pc' = "down" /\ faults' = faults + 1 /\ UNCHANGED file
    BY <1>7 DEF Crash, Gone, CanFail
  <2> QED BY <1>0, <2>1 DEF Bounded
<1>8. CASE CrashInAppend
  <2>1. records + 1 \in Ids
    BY <1>0, <1>8, NextId DEF CrashInAppend
  <2>2. Len(file') \in Nat /\ Len(file') <= Len(file) + 1
    BY <1>8, <2>1, AppendedType, LenProperties DEF CrashInAppend
  <2>3. pc = "up" /\ pc' = "down" /\ faults' = faults + 1
    BY <1>8 DEF CrashInAppend, Gone, CanFail
  <2> QED BY <1>0, <2>2, <2>3 DEF Bounded
<1>9. CASE UNCHANGED vars
  BY <1>9 DEF vars, Bounded
<1> QED BY <1>1, <1>2, <1>3, <1>4, <1>5, <1>6, <1>7, <1>8, <1>9 DEF Next

LEMMA BoundedSuffices == LInv /\ Bounded => FileStaysBounded
<1> SUFFICES ASSUME LInv, Bounded PROVE FileStaysBounded
  OBVIOUS
<1>1. /\ Len(file) \in Nat /\ Len(entries) \in Nat /\ Len(entries) <= MaxEntries
      /\ MaxEntries \in Nat /\ faults \in Nat
      /\ pc \in {"down", "up", "record", "load"}
  BY LenProperties, LogStoreAssumption DEF LInv, TypeOK
<1> QED BY <1>1 DEF Bounded, FileStaysBounded

(* daemon_logs.jsonl never holds more than the retained entries, one being *)
(* trimmed and a line per failure, for any limits and any sequence of      *)
(* appends that fail or are cut, failed rewrites, crashes and restarts.    *)
THEOREM FileNeverOutgrowsRetention == Spec => []FileStaysBounded
<1>1. Init => Bounded
  <2> SUFFICES ASSUME Init PROVE Bounded
    OBVIOUS
  <2>1. Len(file) = 0 /\ pc = "down" /\ faults = 0
    BY EmptySeq DEF Init
  <2> QED BY <2>1, LogStoreAssumption DEF Bounded
<1> QED BY <1>1, NumberedInit, LogTypeStep, BoundedStep, BoundedSuffices, PTL DEF Spec

(***************************************************************************)
(* Clean cuts are tolerated                                                *)
(***************************************************************************)
EndedEntry(line) == line.kind = "entry" /\ line.ended

(* As long as only crashes cut appends, and cleanly, a file is whole       *)
(* entries and a cut one at most, at the end, which is gone before the     *)
(* store is open.                                                          *)
Clean ==
  /\ ~refused
  /\ \A i \in 1 .. Len(file) :
       \/ EndedEntry(file[i])
       \/ /\ i = Len(file) /\ pc \in {"down", "load"}
          /\ file[i].kind = "clean" /\ ~file[i].ended

CleanInv == OnlyCleanCuts => Clean

(* No step forgets a cut.                                                  *)
LEMMA CutsStay == [Next]_vars => cuts \subseteq cuts'
BY DEF Next, vars, Load, LoadRefused, Record, RecordFails, CompactLocked, Stop, Crash, CrashInAppend

(* An open store appends after whole lines, so nothing is glued.           *)
LEMMA AppendsCleanly ==
  ASSUME LInv, Clean, pc \in {"up", "record"}, NEW line \in Lines
  PROVE  /\ Appended(line) = Append(file, line)
         /\ Len(Appended(line)) = Len(file) + 1
         /\ \A i \in 1 .. Len(file) : Appended(line)[i] = file[i] /\ EndedEntry(file[i])
         /\ Appended(line)[Len(file) + 1] = line
<1>1. file \in Seq(Lines) /\ Len(file) \in Nat
  BY LenProperties DEF LInv, TypeOK
<1>2. \A i \in 1 .. Len(file) : EndedEntry(file[i])
  BY DEF Clean
<1>3. Appended(line) = Append(file, line)
  BY <1>1, <1>2, AppendedFacts DEF EndedEntry
<1> QED BY <1>1, <1>2, <1>3, AppendProperties

LEMMA CleanStep == LInv /\ CleanInv /\ [Next]_vars => CleanInv'
<1> SUFFICES ASSUME LInv, CleanInv, [Next]_vars, OnlyCleanCuts' PROVE Clean'
  BY DEF CleanInv
<1>0. /\ Clean /\ TypeOK /\ file \in Seq(Lines) /\ Len(file) \in Nat
      /\ OnlyCleanCuts
  BY CutsStay, LenProperties DEF CleanInv, OnlyCleanCuts, LInv, TypeOK
<1>1. CASE Load
  <2>1. UNCHANGED <<file, refused>> /\ pc' \in {"up", "load"}
    BY <1>1, LoadFacts DEF Load
  <2>2. CASE TruncatedTail
    <3>1. pc' = "load"
      BY <1>1, <2>2, LoadFacts
    <3> QED BY <1>0, <2>1, <3>1 DEF Clean
  <2>3. CASE ~TruncatedTail
    <3>1. \A i \in 1 .. Len(file) : EndedEntry(file[i])
      <4> SUFFICES ASSUME NEW i \in 1 .. Len(file), ~EndedEntry(file[i]) PROVE FALSE
        OBVIOUS
      <4>1. i = Len(file) /\ file[i].kind = "clean" /\ ~file[i].ended
        BY <1>0 DEF Clean
      <4>2. file # << >>
        BY <1>0, EmptySeq
      <4> QED BY <2>3, <4>1, <4>2 DEF TruncatedTail, Last
    <3> QED BY <1>0, <2>1, <3>1 DEF Clean
  <2> QED BY <2>2, <2>3
<1>2. CASE LoadRefused
  <2>1. PICK i \in 1 .. Len(file) : file[i].kind # "entry"
    BY <1>2 DEF LoadRefused, Decodable
  <2>2. i = Len(file) /\ file[i].kind = "clean" /\ ~file[i].ended /\ Len(file) >= 1
    BY <1>0, <2>1 DEF Clean, EndedEntry
  <2>3. file # << >>
    BY <1>0, <2>2, EmptySeq
  <2>4. TruncatedTail /\ Last(file).kind = "clean"
    BY <2>2, <2>3 DEF TruncatedTail, Last
  <2>5. Decodable(Front(file))
    <3> DEFINE f == Front(file)
    <3>1. Len(f) = Len(file) - 1 /\ \A k \in 1 .. Len(file) - 1 : f[k] = file[k]
      BY <1>0, <2>3, FrontFacts
    <3> HIDE DEF f
    <3>2. \A k \in 1 .. Len(f) : f[k].kind = "entry"
      <4> TAKE k \in 1 .. Len(f)
      <4>1. k \in 1 .. Len(file) /\ k # Len(file) /\ f[k] = file[k]
        BY <1>0, <3>1
      <4> QED BY <1>0, <4>1 DEF Clean, EndedEntry
    <3> QED BY <3>2 DEF Decodable, f
  <2> QED BY <1>2, <2>4, <2>5 DEF LoadRefused
<1>3. CASE Record
  <2>1. records + 1 \in Ids
    BY <1>0, <1>3, NextId DEF Record
  <2> DEFINE line == Whole(records + 1)
  <2>2. line \in Lines /\ EndedEntry(line)
    BY <2>1, LineType DEF EndedEntry, Whole, Line
  <2>3. file' = Appended(line) /\ pc = "up" /\ UNCHANGED refused
    BY <1>3 DEF Record
  <2> HIDE DEF line
  <2> QED BY <1>0, <2>2, <2>3, AppendsCleanly DEF Clean
<1>4. CASE RecordFails
  <2>1. records + 1 \in Ids
    BY <1>0, <1>4, NextId DEF RecordFails
  <2>2. pc = "up" /\ UNCHANGED <<pc, refused>>
    BY <1>4 DEF RecordFails
  <2>3. CASE UNCHANGED file
    BY <1>0, <2>2, <2>3 DEF Clean
  <2>4. CASE file' = Appended(Whole(records + 1))
    <3> DEFINE line == Whole(records + 1)
    <3>1. line \in Lines /\ EndedEntry(line)
      BY <2>1, LineType DEF EndedEntry, Whole, Line
    <3>2. file' = Appended(line)
      BY <2>4
    <3> HIDE DEF line
    <3> QED BY <1>0, <2>2, <3>1, <3>2, AppendsCleanly DEF Clean
  <2>5. CASE cuts' = cuts \cup {"short"}
    BY <2>5 DEF OnlyCleanCuts
  <2> QED BY <1>4, <2>3, <2>4, <2>5 DEF RecordFails
<1>5. CASE CompactLocked
  <2>1. UNCHANGED refused
    BY <1>5 DEF CompactLocked
  <2>2. CASE file' = Rewritten
    BY <1>0, <2>1, <2>2, RewrittenFacts DEF Clean, EndedEntry
  <2>3. CASE pc = "record" /\ UNCHANGED file
    BY <1>0, <2>1, <2>3 DEF Clean
  <2>4. CASE pc = "load" /\ pc' = "down" /\ UNCHANGED file
    BY <1>0, <2>1, <2>4 DEF Clean
  <2> QED BY <1>5, <2>2, <2>3, <2>4 DEF CompactLocked, Rewritten
<1>6. CASE Stop \/ Crash
  <2>1. pc' = "down" /\ UNCHANGED <<file, refused>>
    BY <1>6 DEF Stop, Crash, Gone
  <2> QED BY <1>0, <2>1 DEF Clean
<1>7. CASE CrashInAppend
  <2>1. records + 1 \in Ids
    BY <1>0, <1>7, NextId DEF CrashInAppend
  <2>2. PICK c \in Cuts : file' = Appended(Cut(c, records + 1)) /\ cuts' = cuts \cup {c}
    BY <1>7 DEF CrashInAppend
  <2>3. c = "clean"
    BY <2>2 DEF OnlyCleanCuts
  <2> DEFINE line == Cut(c, records + 1)
  <2>4. line \in Lines /\ line.kind = "clean" /\ ~line.ended
    BY <2>1, <2>2, <2>3, LineType DEF Cut, Line
  <2>5. file' = Appended(line) /\ pc = "up" /\ pc' = "down" /\ UNCHANGED refused
    BY <1>7, <2>2 DEF CrashInAppend, Gone
  <2> HIDE DEF line
  <2> QED BY <1>0, <2>4, <2>5, AppendsCleanly DEF Clean
<1>8. CASE UNCHANGED vars
  BY <1>0, <1>8 DEF vars, Clean
<1> QED BY <1>1, <1>2, <1>3, <1>4, <1>5, <1>6, <1>7, <1>8 DEF Next

(* As long as appends were cut only by crashes, and within the JSON text,  *)
(* no start is ever refused: whatever number of crashes follow each other, *)
(* before, during or after the rewrite that removes the cut line.          *)
THEOREM StartsSurviveCleanCuts == Spec => []CleanCutsTolerated
<1>1. Init => CleanInv
  <2> SUFFICES ASSUME Init PROVE Clean
    BY DEF CleanInv
  <2>1. Len(file) = 0 /\ ~refused
    BY EmptySeq DEF Init
  <2> QED BY <2>1 DEF Clean
<1>2. CleanInv => CleanCutsTolerated
  <2>1. Clean => ~refused
    BY Zenon DEF Clean
  <2> QED BY <2>1, Zenon DEF CleanInv, CleanCutsTolerated
<1> QED BY <1>1, <1>2, NumberedInit, LogTypeStep, CleanStep, PTL DEF Spec

(***************************************************************************)
(* Nothing recorded is lost                                                *)
(***************************************************************************)
Superseded(a, among) ==
  \E newer \in SUBSET among : (\A b \in newer : b > a) /\ Cardinality(newer) >= MaxEntries
InFile(a) == \E i \in 1 .. Len(file) : file[i].kind = "entry" /\ file[i].id = a
InMemory(a) == \E i \in 1 .. Len(entries) : entries[i] = a

Increasing(s) == \A i, j \in 1 .. Len(s) : i < j => s[i] < s[j]

(* File and memory hold entries in the order they were recorded, so that   *)
(* what Newest drops has maxEntries newer ones.                            *)
FileOrdered ==
  /\ \A i, j \in 1 .. Len(file) :
       i < j /\ file[i].kind = "entry" /\ file[j].kind = "entry" => file[i].id < file[j].id
  /\ \A i \in 1 .. Len(file) : file[i].kind = "entry" => file[i].id \in written

MemoryOrdered ==
  /\ Increasing(entries)
  /\ \A i \in 1 .. Len(entries) : entries[i] \in written

(* Every appended entry that newer ones have not pushed out is in the      *)
(* file, and in memory as well from the moment load has read it.           *)
Kept ==
  /\ \A a \in acked : Superseded(a, written) \/ InFile(a)
  /\ pc # "down" => \A a \in acked : Superseded(a, written) \/ InMemory(a)

Retention ==
  /\ written \subseteq 1 .. records
  /\ FileOrdered
  /\ MemoryOrdered
  /\ Kept

RetentionInv == OnlyCleanCuts => Retention

(* An increasing sequence has as many elements as it is long.              *)
LEMMA IncreasingCounts ==
  ASSUME NEW t \in Seq(Ids), Increasing(t)
  PROVE  Cardinality({t[k] : k \in 1 .. Len(t)}) = Len(t)
<1> DEFINE T == {t[k] : k \in 1 .. Len(t)}
<1>1. Len(t) \in Nat /\ \A k \in 1 .. Len(t) : t[k] \in Ids
  BY LenProperties, ElementOfSeq
<1>2. t \in [1 .. Len(t) -> T]
  BY LenProperties
<1>3. \A k, l \in 1 .. Len(t) : t[k] = t[l] => k = l
  <2> SUFFICES ASSUME NEW k \in 1 .. Len(t), NEW l \in 1 .. Len(t), k < l PROVE t[k] # t[l]
    BY <1>1
  <2>1. t[k] < t[l] /\ t[k] \in Int /\ t[l] \in Int
    BY <1>1 DEF Increasing, Ids
  <2> QED BY <2>1
<1>4. t \in Bijection(1 .. Len(t), T)
  BY <1>2, <1>3 DEF Bijection, Injection, Surjection, IsInjective
<1>5. ExistsBijection(1 .. Len(t), T)
  BY <1>4 DEF ExistsBijection
<1> HIDE DEF T
<1>6. Cardinality(T) = Len(t)
  BY <1>1, <1>5, FS_CountingElements
<1> QED BY <1>6 DEF T

(* Trimming loses nothing but what has maxEntries newer entries.           *)
LEMMA NewestSupersedes ==
  ASSUME NEW s \in Seq(Ids), Increasing(s), NEW among, \A i \in 1 .. Len(s) : s[i] \in among
  PROVE  /\ Increasing(Newest(s))
         /\ \A k \in 1 .. Len(Newest(s)) : Newest(s)[k] \in among
         /\ \A i \in 1 .. Len(s) :
              \/ \E k \in 1 .. Len(Newest(s)) : Newest(s)[k] = s[i]
              \/ Superseded(s[i], among)
<1> DEFINE t == Newest(s)
           d == Len(s) - Len(t)
<1>1. /\ t \in Seq(Ids) /\ Len(t) \in Nat /\ Len(s) \in Nat
      /\ Len(t) = IF Len(s) > MaxEntries THEN MaxEntries ELSE Len(s)
      /\ MaxEntries \in Nat
  BY NewestFacts, LenProperties, LogStoreAssumption
<1>2. \A k \in 1 .. Len(t) : t[k] = s[d + k]
  BY NewestFacts
<1> HIDE DEF t
<1>3. d \in Nat /\ Len(t) \in Nat /\ Len(s) = d + Len(t) /\ (d > 0 => Len(t) = MaxEntries)
  BY <1>1
<1> HIDE DEF d
<1>4. \A k \in 1 .. Len(t) : d + k \in 1 .. Len(s)
  BY <1>3
<1>5. \A k, l \in 1 .. Len(t) : k < l => t[k] < t[l]
  <2> SUFFICES ASSUME NEW k \in 1 .. Len(t), NEW l \in 1 .. Len(t), k < l PROVE t[k] < t[l]
    OBVIOUS
  <2>1. d + k < d + l /\ d + k \in 1 .. Len(s) /\ d + l \in 1 .. Len(s)
    BY <1>3
  <2>2. s[d + k] < s[d + l]
    BY <2>1 DEF Increasing
  <2> QED BY <1>2, <2>2
<1>6. Increasing(t)
  BY <1>5 DEF Increasing
<1>7. \A k \in 1 .. Len(t) : t[k] \in among
  BY <1>2, <1>4
<1>8. ASSUME NEW i \in 1 .. Len(s)
      PROVE  (\E k \in 1 .. Len(t) : t[k] = s[i]) \/ Superseded(s[i], among)
  <2>1. CASE i > d
    <3>1. i - d \in 1 .. Len(t) /\ d + (i - d) = i
      BY <1>3, <2>1
    <3>2. t[i - d] = s[i]
      BY <1>2, <3>1
    <3> QED BY <3>1, <3>2
  <2>2. CASE i <= d
    <3> DEFINE newer == {t[k] : k \in 1 .. Len(t)}
    <3>1. Len(t) = MaxEntries
      BY <1>3, <2>2
    <3>2. Cardinality(newer) >= MaxEntries
      BY <1>1, <1>6, <3>1, IncreasingCounts
    <3>3. \A k \in 1 .. Len(t) : t[k] > s[i]
      <4> TAKE k \in 1 .. Len(t)
      <4>1. d + k \in 1 .. Len(s) /\ i < d + k
        BY <1>3, <1>4, <2>2
      <4>2. s[i] < s[d + k]
        BY <4>1 DEF Increasing
      <4> QED BY <1>2, <4>2
    <3>4. newer \in SUBSET among /\ \A b \in newer : b > s[i]
      BY <1>7, <3>3
    <3> HIDE DEF newer
    <3> QED BY <3>2, <3>4 DEF Superseded
  <2> QED BY <1>1, <1>3, <2>1, <2>2
<1> QED BY <1>6, <1>7, <1>8 DEF t

(* An append keeps the file in order and loses no entry of it.             *)
LEMMA AppendKeepsOrder ==
  ASSUME LInv, Clean, Retention, pc = "up", NEW line \in Lines,
         file' = Appended(line), written \subseteq written',
         line.kind = "entry" => line.id = records + 1 /\ line.id \in written'
  PROVE  /\ FileOrdered'
         /\ \A a : InFile(a) => InFile(a)'
         /\ line.kind = "entry" => InFile(line.id)'
<1>1. /\ Len(file) \in Nat /\ records \in Nat
      /\ Len(file') = Len(file) + 1
      /\ \A i \in 1 .. Len(file) : file'[i] = file[i]
      /\ file'[Len(file) + 1] = line
  BY AppendsCleanly, LenProperties, LogStoreAssumption DEF LInv, TypeOK
<1>2. /\ \A i \in 1 .. Len(file') : i \in 1 .. Len(file) \/ i = Len(file) + 1
      /\ \A i \in 1 .. Len(file) : i \in 1 .. Len(file')
      /\ Len(file) + 1 \in 1 .. Len(file')
  BY <1>1
<1>3. \A i \in 1 .. Len(file) :
        file[i].kind = "entry" => file[i].id \in written /\ file[i].id \in 1 .. records
  BY DEF Retention, FileOrdered
<1>4. \A i, j \in 1 .. Len(file') :
        i < j /\ file'[i].kind = "entry" /\ file'[j].kind = "entry" => file'[i].id < file'[j].id
  <2> SUFFICES ASSUME NEW i \in 1 .. Len(file'), NEW j \in 1 .. Len(file'), i < j,
                      file'[i].kind = "entry", file'[j].kind = "entry"
               PROVE  file'[i].id < file'[j].id
    OBVIOUS
  <2>1. i \in 1 .. Len(file)
    BY <1>1
  <2>2. CASE j \in 1 .. Len(file)
    BY <1>1, <2>1, <2>2 DEF Retention, FileOrdered
  <2>3. CASE j = Len(file) + 1
    <3>1. file'[i].id \in 1 .. records
      BY <1>1, <1>3, <2>1
    <3>2. file'[j].id = records + 1
      BY <1>1, <2>3
    <3> QED BY <1>1, <3>1, <3>2
  <2> QED BY <1>2, <2>2, <2>3
<1>5. \A i \in 1 .. Len(file') : file'[i].kind = "entry" => file'[i].id \in written'
  BY <1>1, <1>2, <1>3
<1>6. \A a : InFile(a) => InFile(a)'
  BY <1>1, <1>2 DEF InFile
<1>7. line.kind = "entry" => InFile(line.id)'
  BY <1>1, <1>2 DEF InFile
<1> QED BY <1>4, <1>5, <1>6, <1>7 DEF FileOrdered

(* So does Record with memory: what it trims is superseded.                *)
LEMMA RecordKeepsMemory ==
  ASSUME LInv, Retention, Record, NEW id, id = records + 1
  PROVE  /\ MemoryOrdered'
         /\ \A a : InMemory(a) => InMemory(a)' \/ Superseded(a, written)'
         /\ InMemory(id)' \/ Superseded(id, written)'
<1>0. PICK s : s = Append(entries, id)
  OBVIOUS
<1>1. /\ id \in Ids /\ entries \in Seq(Ids) /\ Len(entries) \in Nat /\ records \in Nat
      /\ written' = written \cup {id}
      /\ entries' = Newest(s)
  BY <1>0, NextId, LenProperties, LogStoreAssumption DEF LInv, TypeOK, Record
<1>2. /\ s \in Seq(Ids)
      /\ Len(s) = Len(entries) + 1
      /\ \A i \in 1 .. Len(entries) : s[i] = entries[i]
      /\ s[Len(entries) + 1] = id
  BY <1>0, <1>1, AppendProperties
<1>3. /\ \A i \in 1 .. Len(s) : i \in 1 .. Len(entries) \/ i = Len(entries) + 1
      /\ \A i \in 1 .. Len(entries) : i \in 1 .. Len(s)
      /\ Len(entries) + 1 \in 1 .. Len(s)
  BY <1>1, <1>2
<1>4. \A i \in 1 .. Len(entries) : entries[i] \in written /\ entries[i] \in 1 .. records
  BY DEF Retention, MemoryOrdered
<1>5. Increasing(s)
  <2> SUFFICES ASSUME NEW i \in 1 .. Len(s), NEW j \in 1 .. Len(s), i < j PROVE s[i] < s[j]
    BY DEF Increasing
  <2>1. i \in 1 .. Len(entries)
    BY <1>1, <1>2
  <2>2. CASE j \in 1 .. Len(entries)
    BY <1>2, <2>1, <2>2 DEF Retention, MemoryOrdered, Increasing
  <2>3. CASE j = Len(entries) + 1
    <3>1. s[i] \in 1 .. records /\ s[j] = records + 1
      BY <1>2, <1>4, <2>1, <2>3
    <3> QED BY <1>1, <3>1
  <2> QED BY <1>3, <2>2, <2>3
<1>6. \A i \in 1 .. Len(s) : s[i] \in written'
  BY <1>1, <1>2, <1>3, <1>4
<1>7. /\ Increasing(entries')
      /\ \A k \in 1 .. Len(entries') : entries'[k] \in written'
      /\ \A i \in 1 .. Len(s) :
           (\E k \in 1 .. Len(entries') : entries'[k] = s[i]) \/ Superseded(s[i], written')
  BY <1>1, <1>2, <1>5, <1>6, NewestSupersedes
<1>8. MemoryOrdered'
  BY <1>7 DEF MemoryOrdered, Increasing
<1>9. \A i \in 1 .. Len(s) : InMemory(s[i])' \/ Superseded(s[i], written)'
  BY <1>7 DEF InMemory, Superseded
<1>10. \A a : InMemory(a) => InMemory(a)' \/ Superseded(a, written)'
  <2> SUFFICES ASSUME NEW a, InMemory(a) PROVE InMemory(a)' \/ Superseded(a, written)'
    OBVIOUS
  <2>1. PICK i \in 1 .. Len(entries) : entries[i] = a
    BY DEF InMemory
  <2> QED BY <1>2, <1>3, <1>9, <2>1
<1> QED BY <1>2, <1>3, <1>8, <1>9, <1>10

(* And load: what it reads from the file and does not keep is superseded.  *)
LEMMA LoadKeepsEntries ==
  ASSUME LInv, Clean, Retention, Load
  PROVE  /\ MemoryOrdered'
         /\ \A a : InFile(a) => InMemory(a)' \/ Superseded(a, written)'
<1> DEFINE s == LoadedIds
<1>1. /\ s \in Seq(Ids) /\ entries' = Newest(s) /\ Len(s) = Len(EntryLines)
      /\ \A i \in 1 .. Len(s) : s[i] = file[i].id /\ file[i].kind = "entry"
  BY LoadFacts
<1>2. file \in Seq(Lines) /\ Len(file) \in Nat /\ Len(s) \in Nat /\ written' = written
  BY <1>1, LenProperties DEF LInv, TypeOK, Load
<1>3. Len(EntryLines) <= Len(file)
  BY <1>2, EntryLinesFacts
<1> HIDE DEF s
<1>4. \A i \in 1 .. Len(s) : i \in 1 .. Len(file)
  BY <1>1, <1>2, <1>3
<1>5. Increasing(s) /\ \A i \in 1 .. Len(s) : s[i] \in written
  BY <1>1, <1>4 DEF Increasing, Retention, FileOrdered
<1>6. /\ Increasing(entries')
      /\ \A k \in 1 .. Len(entries') : entries'[k] \in written
      /\ \A i \in 1 .. Len(s) :
           (\E k \in 1 .. Len(entries') : entries'[k] = s[i]) \/ Superseded(s[i], written)
  BY <1>1, <1>5, NewestSupersedes
<1>7. MemoryOrdered'
  BY <1>2, <1>6 DEF MemoryOrdered, Increasing
<1>8. ASSUME NEW a, InFile(a) PROVE InMemory(a)' \/ Superseded(a, written)'
  <2>1. PICK i \in 1 .. Len(file) : file[i].kind = "entry" /\ file[i].id = a
    BY <1>8 DEF InFile
  <2>2. i \in 1 .. Len(s)
    <3>1. CASE TruncatedTail
      <4>1. Len(s) = Len(file) - 1 /\ file[Len(file)].kind # "entry"
        BY <1>1, <1>2, <3>1, EntryLinesFacts DEF TruncatedTail, Last
      <4> QED BY <1>2, <2>1, <4>1
    <3>2. CASE ~TruncatedTail
      BY <1>1, <1>2, <3>2, EntryLinesFacts
    <3> QED BY <3>1, <3>2
  <2>3. s[i] = a
    BY <1>1, <2>1, <2>2
  <2> QED BY <1>2, <1>6, <2>2, <2>3 DEF InMemory, Superseded
<1> QED BY <1>7, <1>8

LEMMA RetentionStep == LInv /\ CleanInv /\ RetentionInv /\ [Next]_vars => RetentionInv'
<1> SUFFICES ASSUME LInv, CleanInv, RetentionInv, [Next]_vars, OnlyCleanCuts' PROVE Retention'
  BY DEF RetentionInv
<1>0. Clean /\ Retention /\ TypeOK /\ records \in Nat /\ OnlyCleanCuts
  BY CutsStay, LogStoreAssumption DEF CleanInv, RetentionInv, OnlyCleanCuts, LInv, TypeOK
<1>1. CASE Load
  <2>1. UNCHANGED <<file, records, written, acked>>
    BY <1>1 DEF Load
  <2>2. FileOrdered' /\ (written \subseteq 1 .. records)'
    BY <1>0, <2>1 DEF Retention, FileOrdered
  <2>3. \A a \in acked' : Superseded(a, written)' \/ InFile(a)'
    BY <1>0, <2>1 DEF Retention, Kept, InFile, Superseded
  <2>4. \A a \in acked' : Superseded(a, written)' \/ InMemory(a)'
    BY <1>0, <1>1, <2>1, <2>3, LoadKeepsEntries DEF InFile
  <2> QED BY <1>0, <1>1, <2>2, <2>3, <2>4, LoadKeepsEntries DEF Retention, Kept
<1>2. CASE LoadRefused
  BY <1>0, <1>2
  DEF LoadRefused, Retention, FileOrdered, MemoryOrdered, Kept, InFile, InMemory, Superseded, Increasing
<1>3. CASE Record
  <2>1. PICK id \in Ids : id = records + 1
    BY <1>0, <1>3, NextId DEF Record
  <2>2. /\ pc = "up" /\ file' = Appended(Whole(id)) /\ records' = id
        /\ written' = written \cup {id} /\ acked' = acked \cup {id}
    BY <1>3, <2>1 DEF Record
  <2>3. Whole(id) \in Lines /\ Whole(id).kind = "entry" /\ Whole(id).id = id
    BY <2>1, LineType DEF Whole, Line
  <2>4. FileOrdered' /\ (\A a : InFile(a) => InFile(a)') /\ InFile(id)'
    BY <1>0, <2>1, <2>2, <2>3, AppendKeepsOrder
  <2>5. (written \subseteq 1 .. records)'
    BY <1>0, <2>1, <2>2 DEF Retention
  <2>6. \A a : Superseded(a, written) => Superseded(a, written)'
    BY <2>2 DEF Superseded
  <2>7. \A a \in acked' : Superseded(a, written)' \/ InFile(a)'
    BY <1>0, <2>2, <2>4, <2>6 DEF Retention, Kept
  <2>8. \A a \in acked' : Superseded(a, written)' \/ InMemory(a)'
    BY <1>0, <1>3, <2>1, <2>2, <2>6, RecordKeepsMemory DEF Retention, Kept
  <2> QED BY <1>0, <1>3, <2>1, <2>4, <2>5, <2>7, <2>8, RecordKeepsMemory DEF Retention, Kept
<1>4. CASE RecordFails
  <2> DEFINE id == records + 1
  <2>1. id \in Ids
    BY <1>0, <1>4, NextId DEF RecordFails
  <2>2. pc = "up" /\ records' = id /\ UNCHANGED <<entries, acked, pc>>
    BY <1>4 DEF RecordFails
  <2>3. /\ FileOrdered' /\ (\A a : InFile(a) => InFile(a)')
        /\ written \subseteq written' /\ written' \subseteq written \cup {id}
    <3>1. CASE UNCHANGED <<file, written>>
      BY <1>0, <3>1 DEF Retention, FileOrdered, InFile
    <3>2. CASE file' = Appended(Whole(id)) /\ written' = written \cup {id}
      <4>1. Whole(id) \in Lines /\ Whole(id).kind = "entry" /\ Whole(id).id = id
        BY <2>1, LineType DEF Whole, Line
      <4> QED BY <1>0, <2>2, <3>2, <4>1, AppendKeepsOrder
    <3>3. CASE cuts' = cuts \cup {"short"}
      BY <3>3 DEF OnlyCleanCuts
    <3> QED BY <1>4, <3>1, <3>2, <3>3 DEF RecordFails
  <2>4. (written \subseteq 1 .. records)'
    BY <1>0, <2>2, <2>3 DEF Retention
  <2>5. MemoryOrdered'
    BY <1>0, <2>2, <2>3 DEF Retention, MemoryOrdered, Increasing
  <2>6. Kept'
    BY <1>0, <2>2, <2>3 DEF Retention, Kept, InMemory, Superseded
  <2> QED BY <2>3, <2>4, <2>5, <2>6 DEF Retention
<1>5. CASE CompactLocked
  <2>1. UNCHANGED <<records, written, acked>>
    BY <1>5 DEF CompactLocked
  <2>2. CASE file' = Rewritten /\ pc # "down" /\ UNCHANGED entries
    <3>1. /\ Len(file') = Len(entries)
          /\ \A i \in 1 .. Len(entries) : file'[i].kind = "entry" /\ file'[i].id = entries[i]
      BY <1>0, <2>2, RewrittenFacts
    <3>2. FileOrdered'
      BY <1>0, <2>1, <3>1 DEF Retention, MemoryOrdered, Increasing, FileOrdered
    <3>3. MemoryOrdered'
      BY <1>0, <2>1, <2>2 DEF Retention, MemoryOrdered, Increasing
    <3>4. \A a : InMemory(a) => InFile(a)' /\ InMemory(a)'
      BY <2>2, <3>1 DEF InMemory, InFile
    <3>5. Kept'
      BY <1>0, <2>1, <2>2, <3>4 DEF Retention, Kept, Superseded
    <3> QED BY <1>0, <2>1, <3>2, <3>3, <3>5 DEF Retention
  <2>3. CASE pc # "down" /\ UNCHANGED <<file, entries>>
    BY <1>0, <2>1, <2>3
    DEF Retention, FileOrdered, MemoryOrdered, Kept, InFile, InMemory, Superseded, Increasing
  <2>4. CASE pc' = "down" /\ entries' = << >> /\ UNCHANGED file
    <3>1. MemoryOrdered'
      <4>1. Len(entries') = 0
        BY <2>4, EmptySeq
      <4> QED BY <4>1 DEF MemoryOrdered, Increasing
    <3>2. FileOrdered' /\ Kept'
      BY <1>0, <2>1, <2>4 DEF Retention, FileOrdered, Kept, InFile, Superseded
    <3> QED BY <1>0, <2>1, <3>1, <3>2 DEF Retention
  <2> QED BY <1>5, <2>2, <2>3, <2>4 DEF CompactLocked, Rewritten
<1>6. CASE Stop \/ Crash
  <2>1. pc' = "down" /\ entries' = << >> /\ UNCHANGED <<file, records, written, acked>>
    BY <1>6 DEF Stop, Crash, Gone
  <2>2. MemoryOrdered'
    <3>1. Len(entries') = 0
      BY <2>1, EmptySeq
    <3> QED BY <3>1 DEF MemoryOrdered, Increasing
  <2>3. FileOrdered' /\ Kept'
    BY <1>0, <2>1 DEF Retention, FileOrdered, Kept, InFile, Superseded
  <2> QED BY <1>0, <2>1, <2>2, <2>3 DEF Retention
<1>7. CASE CrashInAppend
  <2> DEFINE id == records + 1
  <2>1. id \in Ids
    BY <1>0, <1>7, NextId DEF CrashInAppend
  <2>2. PICK c \in Cuts :
          /\ file' = Appended(Cut(c, id)) /\ cuts' = cuts \cup {c}
          /\ written' = IF c = "newline" THEN written \cup {id} ELSE written
    BY <1>7 DEF CrashInAppend
  <2>3. c = "clean" /\ written' = written
    BY <2>2 DEF OnlyCleanCuts
  <2>4. Cut(c, id) \in Lines /\ Cut(c, id).kind = "clean"
    BY <2>1, <2>2, <2>3, LineType DEF Cut, Line
  <2>5. pc = "up" /\ pc' = "down" /\ entries' = << >> /\ records' = id /\ UNCHANGED acked
    BY <1>7 DEF CrashInAppend, Gone
  <2>6. FileOrdered' /\ \A a : InFile(a) => InFile(a)'
    BY <1>0, <2>2, <2>3, <2>4, <2>5, AppendKeepsOrder
  <2>7. MemoryOrdered'
    <3>1. Len(entries') = 0
      BY <2>5, EmptySeq
    <3> QED BY <3>1 DEF MemoryOrdered, Increasing
  <2>8. Kept'
    BY <1>0, <2>3, <2>5, <2>6 DEF Retention, Kept, Superseded
  <2>9. (written \subseteq 1 .. records)'
    BY <1>0, <2>3, <2>5 DEF Retention
  <2> QED BY <2>6, <2>7, <2>8, <2>9 DEF Retention
<1>8. CASE UNCHANGED vars
  BY <1>0, <1>8
  DEF vars, Retention, FileOrdered, MemoryOrdered, Kept, InFile, InMemory, Superseded, Increasing
<1> QED BY <1>1, <1>2, <1>3, <1>4, <1>5, <1>6, <1>7, <1>8 DEF Next

(* As long as appends were cut only by crashes, and within the JSON text,  *)
(* an entry whose append succeeded stays in memory while the store is open *)
(* until maxEntries newer ones are in the log, through failed appends and  *)
(* rewrites, crashes and restarts in any order.                            *)
THEOREM RecordedEntriesAreRetained == Spec => []RecordedEntriesRetained
<1>1. Init => CleanInv /\ RetentionInv
  <2> SUFFICES ASSUME Init PROVE Clean /\ Retention
    BY DEF CleanInv, RetentionInv
  <2>1. Len(file) = 0 /\ Len(entries) = 0 /\ ~refused /\ written = {} /\ acked = {}
    BY EmptySeq DEF Init
  <2> QED BY <2>1 DEF Clean, Retention, FileOrdered, MemoryOrdered, Increasing, Kept
<1>2. RetentionInv => RecordedEntriesRetained
  BY DEF RetentionInv, Retention, Kept, InMemory, Superseded, RecordedEntriesRetained
<1> QED BY <1>1, <1>2, NumberedInit, LogTypeStep, CleanStep, RetentionStep, PTL DEF Spec
=================================================================================
