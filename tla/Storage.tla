------------------------------ MODULE Storage -------------------------------
(***************************************************************************)
(* The two implementations of trait Storage, word by word: FileStorage     *)
(* (crates/raft-file-storage), whose process may crash after any write,    *)
(* and InMemoryStorage (crates/raft-test-utils), which the tests of the    *)
(* event loop use in its place.                                            *)
(*                                                                         *)
(* A frame of the log is three words: the index, the length, and the       *)
(* serialised entry.  Metadata and snapshot are two words each.  A crash   *)
(* may leave part of the next word behind, a torn word, which no read      *)
(* accepts.  What was written before a crash is there after it: the        *)
(* process crashes, not the machine.                                       *)
(*                                                                         *)
(* The event loop performs one operation after the other.  Module Cluster  *)
(* uses the log file frame by frame; StoredLog is what it relies on.       *)
(***************************************************************************)
EXTENDS Integers, Sequences, FiniteSets, FiniteSetsExt

CONSTANTS
    Entry,      \* serialised log entries, metadata and snapshots
    MaxIndex,   \* bound on the indices of entries
    MaxFrames,  \* bound on the frames in the log file
    MaxCrashes, \* bound on crashes
    None

VARIABLES
    \* FileStorage:
    log,        \* the words of the log file, None when there is none
    file,       \* [the other two files -> their words]
    tmp,        \* the words of the temporary file
    \* The operation under way:
    op,         \* "idle", "open", "append", "metadata" or "snapshot"
    addendum,   \* start_index and entries of store_log_entries
    rest,       \* words still to write
    \* InMemoryStorage:
    mem_log, mem_file,  \* words; an empty sequence stands for nothing stored
    \* For the properties:
    before,     \* frames of the log when the operation began
    saved,      \* [file -> what the last complete store has put there]
    crashes

files == <<log, file, tmp>>
memory == <<mem_log, mem_file>>
vars == <<files, op, addendum, rest, memory, before, saved, crashes>>

-----------------------------------------------------------------------------
(***************************************************************************)
(* Words.                                                                  *)
(***************************************************************************)
Torn == [word |-> "torn"]

Word ==
    [word : {"index"}, index : Nat] \cup [word : {"length"}] \cup
    [word : {"entry"}, entry : Entry] \cup {Torn}

FrameWords(index, entry) ==
    <<[word |-> "index", index |-> index], [word |-> "length"],
      [word |-> "entry", entry |-> entry]>>

\* The words of a sequence of entries from start_index on.
AddendumWords(a) ==
    [i \in 1 .. 3 * Len(a.entries) |->
        LET k == (i - 1) \div 3
        IN  FrameWords(a.start_index + k, a.entries[k + 1])[i - 3 * k]]

Serialized(value) == <<[half |-> 1, of |-> value], [half |-> 2, of |-> value]>>

ASSUME StorageAssumption ==
    /\ {MaxIndex, MaxFrames, MaxCrashes} \subseteq Nat
    /\ None \notin Entry /\ None \notin Seq(Word)
    /\ \A value \in Entry : None # Serialized(value)

\* A frame counts when its words, and those of all before it, can be read.
WholeFrames(words) ==
    {k \in 1 .. Len(words) \div 3 : \A i \in 1 .. 3 * k : words[i] # Torn}

Starts(words, index) ==
    {k \in 1 .. (Len(words) + 2) \div 3 :
        words[3 * k - 2] = [word |-> "index", index |-> index]}

Frames(words) ==
    [k \in 1 .. Cardinality(WholeFrames(words)) |->
        [index |-> words[3 * k - 2].index, entry |-> words[3 * k].entry]]

Min0(S, default) == IF S = {} THEN default ELSE Min(S)

-----------------------------------------------------------------------------
(***************************************************************************)
(* FileStorage::store_log_entries: open the file, cut it, write.           *)
(***************************************************************************)
\* A frame that is cut short counts like the others.
Mutant_truncate_at(words, start_index) ==
    Min0({3 * (k - 1) : k \in Starts(words, start_index)}, Len(words))

\* Frames are only ever appended.
Mutant_truncate_at_append(words, start_index) == 3 * Cardinality(WholeFrames(words))

\* Behind the last whole frame before the one with start_index.
truncate_at(words, start_index) ==
    Min0({3 * (k - 1) : k \in Starts(words, start_index)},
         3 * Cardinality(WholeFrames(words)))

\* The same for InMemoryStorage, whose frames are always whole.
mem_truncate_at(words, start_index) ==
    Min0({3 * (k - 1) : k \in Starts(words, start_index)}, Len(words))

\* The in-memory log only ever grows.
Mutant_mem_store_log_entries(words, a) == words \o AddendumWords(a)

mem_store_log_entries(words, a) ==
    SubSeq(words, 1, mem_truncate_at(words, a.start_index)) \o AddendumWords(a)

\* Both stores are given the same call.
store_log_entries(a) ==
    LET words == IF log = None THEN << >> ELSE log
    IN  /\ op = "idle"
        /\ Len(Frames(words)) + Len(a.entries) <= MaxFrames
        /\ op' = "open" /\ addendum' = a
        /\ log' = words
        /\ before' = Frames(words)
        /\ mem_log' = mem_store_log_entries(mem_log, a)
        /\ UNCHANGED <<file, tmp, rest, mem_file, saved, crashes>>

SetLen ==
    /\ op = "open"
    /\ op' = "append"
    /\ log' = SubSeq(log, 1, truncate_at(log, addendum.start_index))
    /\ rest' = AddendumWords(addendum)
    /\ UNCHANGED <<file, tmp, addendum, memory, before, saved, crashes>>

WriteWord ==
    /\ op = "append" /\ rest # << >>
    /\ log' = Append(log, Head(rest))
    /\ rest' = Tail(rest)
    /\ UNCHANGED <<file, tmp, op, addendum, memory, before, saved, crashes>>

SyncLog ==
    /\ op = "append" /\ rest = << >>
    /\ op' = "idle" /\ addendum' = None
    /\ before' = << >>
    /\ UNCHANGED <<files, rest, memory, saved, crashes>>

-----------------------------------------------------------------------------
(***************************************************************************)
(* store_metadata and store_snapshot: write a temporary file, rename it.   *)
(***************************************************************************)
atomic_serialize(f, value) ==
    /\ op = "idle"
    /\ op' = f /\ rest' = Serialized(value)
    /\ tmp' = << >>
    /\ UNCHANGED <<log, file, addendum, mem_log, before, saved, crashes>>

mem_store_metadata(value) == mem_file' = [mem_file EXCEPT !["metadata"] = Serialized(value)]

mem_store_snapshot(value) == mem_file' = [mem_file EXCEPT !["snapshot"] = Serialized(value)]

store_metadata(value) == atomic_serialize("metadata", value) /\ mem_store_metadata(value)

store_snapshot(value) == atomic_serialize("snapshot", value) /\ mem_store_snapshot(value)

\* The file is written in place.
Mutant_WriteTmp ==
    /\ op \in {"metadata", "snapshot"} /\ rest # << >>
    /\ tmp' = Append(tmp, Head(rest))
    /\ file' = [file EXCEPT ![op] = tmp']
    /\ rest' = Tail(rest)
    /\ UNCHANGED <<log, op, addendum, memory, before, saved, crashes>>

WriteTmp ==
    /\ op \in {"metadata", "snapshot"} /\ rest # << >>
    /\ tmp' = Append(tmp, Head(rest))
    /\ rest' = Tail(rest)
    /\ UNCHANGED <<log, file, op, addendum, memory, before, saved, crashes>>

Rename ==
    /\ op \in {"metadata", "snapshot"} /\ rest = << >>
    /\ file' = [file EXCEPT ![op] = tmp]
    /\ saved' = [saved EXCEPT ![op] = tmp[1].of]
    /\ tmp' = << >>
    /\ op' = "idle"
    /\ UNCHANGED <<log, addendum, rest, memory, before, crashes>>

mem_truncate_log == mem_log' = << >>

\* An error when there is no file, which changes nothing.
truncate_log ==
    /\ op = "idle" /\ log # None
    /\ log' = << >>
    /\ mem_truncate_log
    /\ UNCHANGED <<file, tmp, op, addendum, rest, mem_file, before, saved, crashes>>

-----------------------------------------------------------------------------
\* The process crashes, or an operation returns an error that is fatal to
\* it.  Part of the next word may have been written.
Crash ==
    /\ crashes < MaxCrashes /\ op # "idle"
    /\ crashes' = crashes + 1
    /\ log' \in {log} \cup (IF op = "append" /\ rest # << >> THEN {Append(log, Torn)} ELSE {})
    /\ op' = "idle" /\ addendum' = None /\ rest' = << >> /\ before' = << >>
    /\ UNCHANGED <<file, tmp, memory, saved>>

-----------------------------------------------------------------------------
(***************************************************************************)
(* What a start reads back.                                                *)
(***************************************************************************)
restore_log_entries ==
    IF log = None THEN None
    ELSE [k \in 1 .. Len(Frames(log)) |-> Frames(log)[k].entry]

mem_restore_log_entries ==
    IF mem_log = << >> THEN None
    ELSE [k \in 1 .. Len(Frames(mem_log)) |-> Frames(mem_log)[k].entry]

Deserialized(words) ==
    IF \E value \in Entry : words = Serialized(value) THEN words[1].of ELSE "error"

read_type(f) == IF file[f] = None THEN None ELSE Deserialized(file[f])

retrieve_snapshot_bytes == IF file["snapshot"] = None THEN "error" ELSE read_type("snapshot")

mem_restore_metadata ==
    IF mem_file["metadata"] = << >> THEN None ELSE Deserialized(mem_file["metadata"])

mem_restore_snapshot ==
    IF mem_file["snapshot"] = << >> THEN None ELSE Deserialized(mem_file["snapshot"])

mem_retrieve_snapshot_bytes == Deserialized(mem_file["snapshot"])

-----------------------------------------------------------------------------
OtherFiles == {"metadata", "snapshot"}

Init ==
    /\ log = None /\ file = [f \in OtherFiles |-> None] /\ tmp = << >>
    /\ op = "idle" /\ addendum = None /\ rest = << >>
    /\ mem_log = << >> /\ mem_file = [f \in OtherFiles |-> << >>]
    /\ before = << >> /\ saved = [f \in OtherFiles |-> None] /\ crashes = 0

Addenda ==
    [start_index : 1 .. MaxIndex,
     entries : UNION {[1 .. n -> Entry] : n \in 1 .. 2}]

Next ==
    \/ \E a \in Addenda : store_log_entries(a)
    \/ SetLen \/ WriteWord \/ SyncLog
    \/ \E value \in Entry : store_metadata(value) \/ store_snapshot(value)
    \/ WriteTmp \/ Rename
    \/ truncate_log
    \/ Crash

Spec == Init /\ [][Next]_vars

-----------------------------------------------------------------------------
\* The words of a log file: whole frames, then at most one cut short.
WellFormed(words) ==
    \A i \in 1 .. Len(words) :
        \/ words[i].word = <<"index", "length", "entry">>[((i - 1) % 3) + 1]
        \/ words[i] = Torn /\ i = Len(words)

\* Type invariant of the two stores: whatever was torn, a word is never read
\* as a word of another kind.
TypeOK ==
    /\ log # None => WellFormed(log)
    /\ WellFormed(mem_log) /\ Len(mem_log) % 3 = 0
    /\ op \in {"idle", "open", "append"} \cup OtherFiles
    /\ crashes \in 0 .. MaxCrashes

\* The frames that store_log_entries keeps, and the ones it adds: the frame
\* by frame store of module Cluster.
Kept == SubSeq(before, 1, Min0({k - 1 : k \in {j \in 1 .. Len(before) :
                                   before[j].index = addendum.start_index}}, Len(before)))
Added == [k \in 1 .. Len(addendum.entries) |->
             [index |-> addendum.start_index + k - 1, entry |-> addendum.entries[k]]]

\* At every moment of store_log_entries, and so after a crash at that moment,
\* the file holds the old log, or the frames kept and the first of the new
\* ones; when it returns, all of them.  A frame that an earlier crash has cut
\* short is never mistaken for one.
StoredLog ==
    op \in {"open", "append"} =>
        \/ op = "open" /\ Frames(log) = before
        \/ /\ op = "append"
           /\ \E n \in 0 .. Len(Added) :
                 /\ Frames(log) = Kept \o SubSeq(Added, 1, n)
                 /\ rest = << >> => n = Len(Added)

\* A start finds in each of the other two files what the last complete store
\* has put there, whole, however many stores were cut short since.
WholeFiles == \A f \in OtherFiles : read_type(f) = saved[f]

\* Without a crash the tests' double gives a start what the files would give
\* it, but for one case: a log that has been emptied is an empty log in the
\* files, and none at all in the double.
DoubleAgrees ==
    op = "idle" /\ crashes = 0 =>
        /\ mem_restore_log_entries =
              (IF log = << >> THEN None ELSE restore_log_entries)
        /\ mem_restore_metadata = read_type("metadata")
        /\ mem_restore_snapshot = read_type("snapshot")
        /\ mem_retrieve_snapshot_bytes = retrieve_snapshot_bytes

=============================================================================
