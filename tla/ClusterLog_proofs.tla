------------------------- MODULE ClusterLog_proofs --------------------------
(***************************************************************************)
(* Theorems about the logs of a cluster in which no snapshot has been      *)
(* taken yet: RestartKeepsState and LeaderAppendOnly on any network, and   *)
(* LogMatching as long as no late response is delivered.                   *)
(***************************************************************************)
EXTENDS Cluster_proofs

\* No node has a snapshot.
NoSnapshot == \A n \in Node : disk[n].snapshot = None

\* Option::None is not a snapshot.
NoneIsNoSnapshot ==
    \A i, t, data :
        None # [last_included_index |-> i, last_included_term |-> t, data |-> data]

-----------------------------------------------------------------------------
(***************************************************************************)
(* A core without a snapshot: indices are positions in the log.            *)
(***************************************************************************)
Whole(c) == c.last_included_index = 0 /\ c.last_included_term = 0

LEMMA WholeLog ==
    ASSUME NEW c \in Core, Whole(c)
    PROVE  /\ last_log_index(c) = Len(c.log)
           /\ log_term_at(c, 0) = 0
           /\ \A i \in 1 .. Len(c.log) : /\ log_entry_at(c, i) = c.log[i]
                                         /\ log_term_at(c, i) = c.log[i].term
           /\ \A i \in Nat : i > Len(c.log) => log_term_at(c, i) = None
           /\ \A i \in Nat \ {0} :
                 log_slice(c, i, Len(c.log) + 1) = SubSeq(c.log, i, Len(c.log))
  <1>1. c.log \in Seq(Entry) /\ Len(c.log) \in Nat /\ c.last_included_index = 0
        /\ c.last_included_term = 0
    BY DEF Core, Whole
  <1>2. last_log_index(c) = Len(c.log)
    BY <1>1 DEF last_log_index
  <1>3. log_term_at(c, 0) = 0
    BY <1>1, <1>2 DEF log_term_at
  <1>4. ASSUME NEW i \in 1 .. Len(c.log)
        PROVE  log_entry_at(c, i) = c.log[i] /\ log_term_at(c, i) = c.log[i].term
    <2>1. i - 0 = i /\ ~ (i <= 0 \/ i > Len(c.log)) /\ ~ (i < 0) /\ i # 0
      BY <1>1
    <2>2. log_entry_at(c, i) = c.log[i]
      BY <1>1, <1>2, <2>1 DEF log_entry_at
    <2> QED  BY <1>1, <1>2, <2>1, <2>2 DEF log_term_at
  <1>5. ASSUME NEW i \in Nat, i > Len(c.log) PROVE log_term_at(c, i) = None
    BY <1>1, <1>2, <1>5 DEF log_term_at
  <1>6. ASSUME NEW i \in Nat \ {0}
        PROVE  log_slice(c, i, Len(c.log) + 1) = SubSeq(c.log, i, Len(c.log))
    <2>1. ~ (i <= 0) /\ i - 0 = i /\ min(Len(c.log) + 1 - 0 - 1, Len(c.log)) = Len(c.log)
      BY <1>1 DEF min
    <2> QED  BY <1>1, <2>1 DEF log_slice
  <1> QED  BY <1>2, <1>3, <1>4, <1>5, <1>6

\* The entries of a log from index i on.
LEMMA TailOK ==
    ASSUME NEW log \in Seq(Entry), NEW i \in 1 .. Len(log) + 1
    PROVE  LET tail == SubSeq(log, i, Len(log)) IN
           /\ tail \in Seq(Entry) /\ Len(tail) = Len(log) + 1 - i
           /\ \A k \in 1 .. Len(tail) : i + k - 1 \in 1 .. Len(log) /\ tail[k] = log[i + k - 1]
  <1> DEFINE b == Len(log)
             tail == SubSeq(log, i, b)
  <1>1. i \in Int /\ b \in Nat /\ i <= b + 1 /\ i >= 1 /\ \A k \in i .. b : log[k] \in Entry
    OBVIOUS
  <1>2. tail \in Seq(Entry)
        /\ Len(tail) = (IF i <= b THEN b - i + 1 ELSE 0)
        /\ \A k \in 1 .. b - i + 1 : tail[k] = log[i + k - 1]
    <2> HIDE DEF b
    <2> QED  BY <1>1, SubSeqProperties
  <1> HIDE DEF tail, b
  <1>3. Len(tail) = b + 1 - i
    BY <1>1, <1>2
  <1>4. \A k \in 1 .. Len(tail) : i + k - 1 \in 1 .. b /\ tail[k] = log[i + k - 1]
    BY <1>1, <1>2, <1>3
  <1> QED  BY <1>2, <1>3, <1>4 DEF tail, b

\* What is to be written to the log file turns the log of c into that of r:
\* the entries from some index on are replaced.
Writes(c, r) ==
    \/ r.acts.log = None /\ r.core.log = c.log
    \/ \E s \in 1 .. Len(c.log) + 1 :
          /\ s <= Len(r.core.log) + 1 /\ r.acts.log # None
          /\ r.acts.log = [ start_index |-> s,
                            entries |-> SubSeq(r.core.log, s, Len(r.core.log)) ]
          /\ \A k \in 1 .. s - 1 : r.core.log[k] = c.log[k]

\* A push writes the last entry.
LEMMA PushWrites ==
    ASSUME NEW n, NEW c \in Core, Whole(c), NEW r, r.core \in Core, NEW command,
           Pushes(n, c, r, command)
    PROVE  Writes(c, r) /\ Whole(r.core) /\ r.acts.log # None /\ r.acts.install = None
  <1> DEFINE e == [term |-> c.current_term, command |-> command]
             last == Len(r.core.log)
  <1>1. r.core.log = Append(c.log, e) /\ r.acts.log = PersistLast(r.core)
        /\ SameLog([c EXCEPT !.log = r.core.log], r.core) /\ r.acts.install = None
    BY DEF Pushes
  <1>2. Whole(r.core)
    BY <1>1 DEF SameLog, Whole, Core
  <1>3. c.log \in Seq(Entry) /\ Len(c.log) \in Nat
    BY DEF Core
  <1> HIDE DEF e
  <1>4. last = Len(c.log) + 1 /\ \A k \in 1 .. Len(c.log) : r.core.log[k] = c.log[k]
    BY <1>1, <1>3, AppendProperties
  <1>5. last_log_index(r.core) = last /\ last \in Nat \ {0}
    BY <1>2, <1>3, <1>4, WholeLog
  <1>6. log_slice(r.core, last, last + 1) = SubSeq(r.core.log, last, last)
    BY <1>2, <1>5, WholeLog
  <1>7. r.acts.log = [start_index |-> last, entries |-> SubSeq(r.core.log, last, last)]
    BY <1>1, <1>5, <1>6 DEF PersistLast
  <1>8. last \in 1 .. Len(c.log) + 1 /\ last <= last + 1
        /\ \A k \in 1 .. last - 1 : r.core.log[k] = c.log[k]
    BY <1>3, <1>4
  <1>9. r.acts.log # None
    <2>1. AddendumOK(r.acts.log)
      <3>1. SubSeq(r.core.log, last, last) \in Seq(Entry)
        BY SMTT(30), <1>5, TailOK DEF Core
      <3> DEFINE entries == SubSeq(r.core.log, last, last)
      <3> HIDE DEF entries
      <3> QED  BY <1>7, <1>5, <3>1 DEF AddendumOK, entries
    <2> QED  BY <2>1, ClusterAssumption DEF AddendumOK
  <1>10. Writes(c, r)
    BY <1>7, <1>8, <1>9 DEF Writes
  <1> QED  BY <1>1, <1>2, <1>9, <1>10
\* Accepted entries are written from the first one on, together with what the
\* log holds behind them.
LEMMA AcceptWrites ==
    ASSUME NEW n, NEW c \in Core, Whole(c), NEW r, r.core \in Core, NEW m,
           m.prev_log_index \in Nat, m.entries \in Seq(Entry), Accepts(n, c, m, r)
    PROVE  Writes(c, r) /\ Whole(r.core) /\ r.acts.install = None
  <1> DEFINE prev == m.prev_log_index
             differs == {k \in 1 .. Len(m.entries) :
                             log_term_at(c, prev + k) # m.entries[k].term}
             first == Min(differs)
  <1>1. r.core.log = Overwrite(c, prev, m.entries).log /\ Whole(r.core)
        /\ r.acts.install = None /\ valid(c, m)
    BY DEF Accepts, Whole
  <1>2. c.log \in Seq(Entry) /\ Len(c.log) \in Nat /\ last_log_index(c) = Len(c.log)
        /\ r.core.log \in Seq(Entry) /\ Len(r.core.log) \in Nat
        /\ last_log_index(r.core) = Len(r.core.log)
    <2>1. last_log_index(c) = Len(c.log) /\ last_log_index(r.core) = Len(r.core.log)
      BY <1>1, WholeLog
    <2> QED  BY SMTT(30), <2>1 DEF Core
  <1>3. prev <= Len(c.log)
    BY <1>1, <1>2 DEF valid
  <1>4. prev <= Len(r.core.log) /\ \A k \in 1 .. prev : r.core.log[k] = c.log[k]
    <2>1. CASE differs = {}
      <3>1. r.core.log = c.log
        BY <1>1, <2>1 DEF Overwrite
      <3> QED  BY <1>2, <1>3, <3>1
    <2>2. CASE differs # {}
      <3>1. Overwrite(c, prev, m.entries) =
                [c EXCEPT !.log = SubSeq(c.log, 1, prev + first - 1 - c.last_included_index)
                                  \o SubSeq(m.entries, first, Len(m.entries))]
        BY <2>2 DEF Overwrite
      <3>2. first \in 1 .. Len(m.entries) /\ \A k \in differs : first <= k
        <4>1. differs \subseteq Nat
          OBVIOUS
        <4>2. first \in differs /\ \A k \in differs : first <= k
          BY <2>2, <4>1, MinNat
        <4> QED  BY <4>2
      <3> HIDE DEF first
      <3>3. PICK b \in Nat : b = prev + first - 1 - c.last_included_index /\ b >= prev
        BY <3>2 DEF Whole
      <3>4. r.core.log = SubSeq(c.log, 1, b) \o SubSeq(m.entries, first, Len(m.entries))
        BY <1>1, <3>1, <3>3 DEF Core
      <3>5. \A k \in 1 .. b : k <= Len(c.log) => SubSeq(c.log, 1, b)[k] = c.log[k]
        BY <1>2, <3>3
      <3>6. b <= Len(c.log)
        <4>1. CASE first = 1
          BY <1>3, <3>3, <4>1 DEF Whole
        <4>2. CASE first > 1
          <5>1. first - 1 \in 1 .. Len(m.entries) /\ first - 1 \notin differs
            BY <3>2, <4>2
          <5>2. log_term_at(c, prev + (first - 1)) = m.entries[first - 1].term
            BY <5>1
          <5>3. m.entries[first - 1].term \in Nat
            <6>1. m.entries[first - 1] \in Entry
              BY <5>1
            <6> QED  BY <6>1 DEF Entry
          <5>4. prev + (first - 1) \in Nat
            BY <3>2
          <5>5. log_term_at(c, prev + (first - 1)) # None
            BY <5>2, <5>3, CoreAssumption
          <5>6. prev + (first - 1) <= last_log_index(c)
            BY <5>4, <5>5, LogTermAt
          <5> QED  BY <1>2, <3>2, <3>3, <5>6 DEF Whole
        <4> QED  BY <3>2, <4>1, <4>2
      <3>7. SubSeq(c.log, 1, b) \in Seq(Entry) /\ Len(SubSeq(c.log, 1, b)) = b
        BY <1>2, <3>3, <3>6
      <3>8. SubSeq(m.entries, first, Len(m.entries)) \in Seq(Entry)
        BY <3>2, TailOK
      <3>9. Len(r.core.log) >= b
            /\ \A k \in 1 .. b : r.core.log[k] = SubSeq(c.log, 1, b)[k]
        BY <3>4, <3>7, <3>8, ConcatProperties
      <3> QED  BY <1>2, <1>3, <3>3, <3>5, <3>6, <3>9
    <2> QED  BY <2>1, <2>2
  <1>5. CASE m.entries = << >>
    <2>1. differs = {}
      BY <1>5
    <2>2. r.core.log = c.log
      BY <1>1, <2>1 DEF Overwrite
    <2>3. r.acts.log = None
      BY <1>5 DEF Accepts
    <2> QED  BY <1>1, <2>2, <2>3 DEF Writes
  <1>6. CASE m.entries # << >>
    <2>1. r.acts.log = [ start_index |-> prev + 1,
                         entries |-> log_slice(r.core, prev + 1, last_log_index(r.core) + 1) ]
      BY <1>6 DEF Accepts
    <2>2. PICK s \in Nat \ {0} : s = prev + 1
      OBVIOUS
    <2>3. log_slice(r.core, s, last_log_index(r.core) + 1) =
              SubSeq(r.core.log, s, Len(r.core.log))
      BY <1>1, <1>2, WholeLog
    <2>4. r.acts.log = [ start_index |-> s,
                         entries |-> SubSeq(r.core.log, s, Len(r.core.log)) ]
      BY <2>1, <2>2, <2>3
    <2>5. s \in 1 .. Len(c.log) + 1 /\ s <= Len(r.core.log) + 1
          /\ \A k \in 1 .. s - 1 : r.core.log[k] = c.log[k]
      BY SMTT(30), <1>2, <1>3, <1>4, <2>2
    <2>6. r.acts.log # None
      <3> DEFINE tail == SubSeq(r.core.log, s, Len(r.core.log))
      <3>1. tail \in Seq(Entry)
        BY <1>2, <2>5, TailOK
      <3> HIDE DEF tail
      <3>2. r.acts.log \in [start_index : Nat, entries : Seq(Entry)]
        BY <2>4, <3>1 DEF tail
      <3> QED  BY <3>2, ClusterAssumption
    <2> QED  BY <1>1, <2>4, <2>5, <2>6 DEF Writes
  <1> QED  BY <1>5, <1>6
-----------------------------------------------------------------------------
(***************************************************************************)
(* The files of a node without a snapshot: a log file that is there holds  *)
(* one frame per entry, numbered from 1, and no entry was ever written     *)
(* before the first metadata.                                              *)
(***************************************************************************)
InFile(d, log) ==
    IF d.log = None THEN log = << >>
    ELSE /\ Len(d.log) = Len(log)
         /\ \A k \in 1 .. Len(log) : d.log[k] = [index |-> k, entry |-> log[k]]

Holds(d, log) ==
    /\ d.snapshot = None /\ InFile(d, log)
    /\ d.metadata = None => log = << >>

\* Entries that continue the log at an index, or replace it from there on.
LEMMA StoreInFile ==
    ASSUME NEW d, DiskOK(d), NEW log \in Seq(Entry), InFile(d, log),
           NEW s \in 1 .. Len(log) + 1, NEW entries \in Seq(Entry),
           NEW stored \in Seq(Entry), Len(stored) = s - 1 + Len(entries),
           \A k \in 1 .. s - 1 : stored[k] = log[k],
           \A k \in 1 .. Len(entries) : stored[s - 1 + k] = entries[k]
    PROVE  LET e == store_log_entries(d, [start_index |-> s, entries |-> entries]) IN
           /\ InFile(e, stored) /\ e.log # None
           /\ e.snapshot = d.snapshot /\ e.metadata = d.metadata
  <1> DEFINE a == [start_index |-> s, entries |-> entries]
             old == IF d.log = None THEN << >> ELSE d.log
             hits == {k \in 1 .. Len(old) : old[k].index = s}
             kept == IF hits = {} THEN old ELSE SubSeq(old, 1, Min(hits) - 1)
             frames == [k \in 1 .. Len(entries) |->
                            [index |-> s + k - 1, entry |-> entries[k]]]
             e == store_log_entries(d, a)
  <1>1. a.start_index = s /\ a.entries = entries
    OBVIOUS
  <1>2. e = [metadata |-> d.metadata, log |-> kept \o frames, snapshot |-> d.snapshot]
    <2> HIDE DEF a
    <2> QED  BY <1>1 DEF store_log_entries
  <1>3. Len(log) \in Nat /\ Len(entries) \in Nat /\ s \in Nat /\ s >= 1 /\ s <= Len(log) + 1
    OBVIOUS
  <1>4. old \in Seq(Frame) /\ Len(old) = Len(log)
        /\ \A k \in 1 .. Len(log) : old[k] = [index |-> k, entry |-> log[k]]
    <2>1. CASE d.log = None
      <3>1. << >> \in Seq(Frame) /\ Len(<< >>) = 0
        OBVIOUS
      <3>2. log = << >>
        BY <2>1 DEF InFile
      <3> QED  BY <2>1, <3>1, <3>2
    <2>2. CASE d.log # None
      BY <2>2 DEF InFile, DiskOK, Option
    <2> QED  BY <2>1, <2>2
  <1> HIDE DEF old, e
  <1>a. ASSUME NEW k \in 1 .. Len(old) PROVE old[k].index = k
    <2>1. k \in 1 .. Len(log)
      BY <1>4
    <2>2. old[k] = [index |-> k, entry |-> log[k]]
      BY <1>4, <2>1
    <2> QED  BY <2>2
  <1>5. kept \in Seq(Frame) /\ Len(kept) = s - 1
        /\ \A k \in 1 .. s - 1 : kept[k] = [index |-> k, entry |-> log[k]]
    <2>1. CASE s = Len(log) + 1
      <3>1. hits = {}
        <4> SUFFICES ASSUME NEW k \in 1 .. Len(old), old[k].index = s PROVE FALSE
          OBVIOUS
        <4>1. old[k].index = k
          BY <1>a
        <4> QED  BY <1>3, <1>4, <2>1, <4>1
      <3> QED  BY <1>3, <1>4, <2>1, <3>1
    <2>2. CASE s # Len(log) + 1
      <3>1. s \in 1 .. Len(log)
        BY <1>3, <2>2
      <3>2. old[s].index = s /\ \A k \in 1 .. Len(old) : old[k].index = k
        BY <1>4, <1>a, <3>1
      <3>3. s \in hits /\ \A k \in hits : k = s
        BY <1>4, <3>1, <3>2
      <3>4. hits \subseteq Nat
        OBVIOUS
      <3> HIDE DEF hits
      <3>5. Min(hits) = s
        BY <3>3, <3>4, MinNat
      <3>6. hits # {}
        BY <3>3
      <3>7. kept = SubSeq(old, 1, s - 1)
        BY <3>5, <3>6
      <3> HIDE DEF kept
      <3>8. PICK b \in Nat : b = s - 1 /\ b <= Len(log)
        BY <1>3, <3>1
      <3>9. \A k \in 1 .. b : old[k] \in Frame
        BY <1>3, <1>4, <3>8
      <3>10. kept \in Seq(Frame) /\ Len(kept) = (IF 1 <= b THEN b - 1 + 1 ELSE 0)
             /\ \A k \in 1 .. b - 1 + 1 : kept[k] = old[1 + k - 1]
        BY <3>7, <3>8, <3>9, SubSeqProperties
      <3>11. \A k \in 1 .. b : 1 + k - 1 = k
        OBVIOUS
      <3>12. Len(kept) = b /\ \A k \in 1 .. b : kept[k] = old[k]
        BY <3>8, <3>10, <3>11
      <3>13. Len(kept) = s - 1
        BY <3>8, <3>12
      <3>14. ASSUME NEW k \in 1 .. s - 1
             PROVE  kept[k] = [index |-> k, entry |-> log[k]]
        <4>1. k \in 1 .. b /\ k \in 1 .. Len(log)
          BY <1>3, <3>8
        <4> QED  BY <1>4, <3>12, <4>1
      <3> QED  BY <3>10, <3>13, <3>14
    <2> QED  BY <2>1, <2>2
  <1>6. frames \in Seq(Frame) /\ Len(frames) = Len(entries)
    <2>1. \A k \in 1 .. Len(entries) : s + k - 1 \in Nat /\ entries[k] \in Entry
      BY <1>3
    <2>2. \A k \in 1 .. Len(entries) : [index |-> s + k - 1, entry |-> entries[k]] \in Frame
      BY <2>1 DEF Frame
    <2> QED  BY SMTT(30), <1>3, <2>2
  <1>7. ASSUME NEW k \in 1 .. Len(entries)
        PROVE  frames[k] = [index |-> s + k - 1, entry |-> entries[k]]
    OBVIOUS
  <1> HIDE DEF kept, frames
  <1> DEFINE all == kept \o frames
  <1>8. all \in Seq(Frame) /\ Len(all) = Len(stored)
        /\ \A k \in 1 .. Len(stored) :
              all[k] = IF k <= s - 1 THEN kept[k] ELSE frames[k - (s - 1)]
    BY SMTT(30), <1>3, <1>5, <1>6, ConcatProperties
  <1>9. ASSUME NEW k \in 1 .. Len(stored)
        PROVE  all[k] = [index |-> k, entry |-> stored[k]]
    <2>1. CASE k <= s - 1
      <3>1. k \in 1 .. s - 1
        BY <1>3, <2>1
      <3> QED  BY <1>5, <1>8, <2>1, <3>1
    <2>2. CASE ~ (k <= s - 1)
      <3>1. PICK i \in 1 .. Len(entries) : k = s - 1 + i /\ s + i - 1 = k /\ k - (s - 1) = i
        <4>1. k - (s - 1) \in 1 .. Len(entries)
          BY <1>3, <2>2
        <4> QED  BY <1>3, <4>1
      <3>2. all[k] = frames[i] /\ stored[k] = entries[i]
        BY <1>8, <2>2, <3>1
      <3> QED  BY <1>7, <3>1, <3>2
    <2> QED  BY <2>1, <2>2
  <1> HIDE DEF all
  <1>10. e.log = all /\ e.snapshot = d.snapshot /\ e.metadata = d.metadata
    BY <1>2 DEF all
  <1>11. e.log # None
    BY <1>8, <1>10, ClusterAssumption DEF Frame
  <1> QED  BY <1>8, <1>9, <1>10, <1>11 DEF InFile, e

\* What an input writes makes the file hold the new log; if the write is torn,
\* the new log up to an index that is not before the first entry written.
LEMMA WritesInFile ==
    ASSUME NEW d, DiskOK(d), NEW c \in Core, NEW r, r.core \in Core, InFile(d, c.log),
           Writes(c, r), r.acts.log # None, NEW k \in 0 .. Len(r.acts.log.entries)
    PROVE  LET e == store_log_entries(d, [r.acts.log EXCEPT !.entries = SubSeq(@, 1, k)]) IN
           /\ e.log # None /\ e.snapshot = d.snapshot /\ e.metadata = d.metadata
           /\ \E i \in 0 .. Len(r.core.log) :
                 /\ InFile(e, SubSeq(r.core.log, 1, i))
                 /\ k = Len(r.acts.log.entries) => i = Len(r.core.log)
  <1>1. PICK s \in 1 .. Len(c.log) + 1 :
            /\ s <= Len(r.core.log) + 1
            /\ r.acts.log = [ start_index |-> s,
                              entries |-> SubSeq(r.core.log, s, Len(r.core.log)) ]
            /\ \A j \in 1 .. s - 1 : r.core.log[j] = c.log[j]
    BY DEF Writes
  <1> DEFINE tail == SubSeq(r.core.log, s, Len(r.core.log))
             entries == SubSeq(tail, 1, k)
             i == s - 1 + k
             stored == SubSeq(r.core.log, 1, i)
  <1>2. c.log \in Seq(Entry) /\ r.core.log \in Seq(Entry) /\ Len(r.core.log) \in Nat
        /\ Len(c.log) \in Nat /\ s \in 1 .. Len(r.core.log) + 1
    <2>1. c.log \in Seq(Entry) /\ r.core.log \in Seq(Entry)
      BY DEF Core
    <2> QED  BY <1>1, <2>1
  <1>3. tail \in Seq(Entry) /\ Len(tail) = Len(r.core.log) + 1 - s
        /\ \A j \in 1 .. Len(tail) : s + j - 1 \in 1 .. Len(r.core.log)
                                    /\ tail[j] = r.core.log[s + j - 1]
    BY <1>2, TailOK
  <1>4. r.acts.log = [start_index |-> s, entries |-> tail]
    BY <1>1
  <1> HIDE DEF tail
  <1>5. r.acts.log.entries = tail /\ k \in 0 .. Len(tail)
        /\ [r.acts.log EXCEPT !.entries = SubSeq(@, 1, k)]
              = [start_index |-> s, entries |-> entries]
    <2>1. r.acts.log.entries = tail
      BY <1>4
    <2>2. [r.acts.log EXCEPT !.entries = SubSeq(@, 1, k)]
              = [r.acts.log EXCEPT !.entries = entries]
      BY <2>1
    <2> HIDE DEF entries
    <2>3. [r.acts.log EXCEPT !.entries = entries] = [start_index |-> s, entries |-> entries]
      BY <1>4
    <2> QED  BY <2>1, <2>2, <2>3
  <1>6. entries \in Seq(Entry) /\ Len(entries) = k
        /\ \A j \in 1 .. k : entries[j] = tail[j]
    BY <1>3, <1>5
  <1>7. i \in 0 .. Len(r.core.log) /\ (k = Len(tail) => i = Len(r.core.log))
    BY SMTT(30), <1>2, <1>3, <1>5
  <1>8. stored \in Seq(Entry) /\ Len(stored) = i
        /\ \A j \in 1 .. i : stored[j] = r.core.log[j]
    <2> HIDE DEF i
    <2> QED  BY <1>2, <1>7
  <1> HIDE DEF entries
  <1>9. \A j \in 1 .. s - 1 : stored[j] = c.log[j]
    BY <1>1, <1>2, <1>5, <1>8
  <1>10. ASSUME NEW j \in 1 .. Len(entries) PROVE stored[s - 1 + j] = entries[j]
    <2>1. j \in 1 .. k /\ j \in 1 .. Len(tail) /\ s - 1 + j \in 1 .. i /\ s - 1 + j = s + j - 1
      BY <1>2, <1>5, <1>6, <1>3
    <2> QED  BY <1>3, <1>6, <1>8, <2>1
  <1>11. Len(stored) = s - 1 + Len(entries)
    BY <1>6, <1>8
  <1> HIDE DEF stored
  <1>12. LET e == store_log_entries(d, [start_index |-> s, entries |-> entries]) IN
         /\ InFile(e, stored) /\ e.log # None
         /\ e.snapshot = d.snapshot /\ e.metadata = d.metadata
    BY <1>2, <1>6, <1>8, <1>9, <1>10, <1>11, StoreInFile
  <1> QED  BY <1>5, <1>7, <1>12 DEF stored
\* A node that starts on such files has the log they hold, as a follower that
\* knows of no commit.
LEMMA RestoredWhole ==
    ASSUME NEW d, DiskOK(d), NEW log \in Seq(Entry), Holds(d, log)
    PROVE  LET c == Restored(d) IN
           /\ ~StartupPanics(d) /\ c \in Core /\ Whole(c) /\ c.log = log
           /\ c.commit_index = 0 /\ c.last_applied = 0 /\ c.state = Follower
           /\ OnDisk(c, d) /\ c.match_index = [p \in Node |-> None]
  <1> DEFINE entries == IF d.log = None THEN << >> ELSE restore_log_entries(d)
             c == Restored(d)
  <1>1. d.snapshot = None /\ ~StartupPanics(d)
    BY DEF Holds, StartupPanics
  <1>2. c \in Core /\ c.last_applied = c.commit_index /\ OnDisk(c, d) /\ c.state = Follower
    BY <1>1, RestoredOK
  <1>3. entries = log
    <2>1. CASE d.log = None
      BY <2>1 DEF Holds, InFile
    <2>2. CASE d.log # None
      <3>1. Len(d.log) = Len(log) /\ Len(log) \in Nat
            /\ \A k \in 1 .. Len(log) : d.log[k].entry = log[k]
        <4>1. Len(d.log) = Len(log)
              /\ \A k \in 1 .. Len(log) : d.log[k] = [index |-> k, entry |-> log[k]]
          BY <2>2 DEF Holds, InFile
        <4>2. ASSUME NEW k \in 1 .. Len(log) PROVE d.log[k].entry = log[k]
          <5>1. d.log[k] = [index |-> k, entry |-> log[k]]
            BY <4>1
          <5> QED  BY <5>1
        <4> QED  BY <4>1, <4>2
      <3>2. entries = [k \in 1 .. Len(log) |-> log[k]]
        BY <2>2, <3>1 DEF restore_log_entries
      <3>3. log = [k \in 1 .. Len(log) |-> log[k]]
        OBVIOUS
      <3> QED  BY <3>2, <3>3, Zenon
    <2> QED  BY <2>1, <2>2
  <1>4. c = IF d.metadata # None THEN restore(d.metadata.term, d.metadata.voted_for, entries)
            ELSE new
    BY <1>1, Zenon DEF Restored
  <1> HIDE DEF entries, c
  <1>5. new.log = << >> /\ Whole(new) /\ new.commit_index = 0
        /\ new.match_index = [p \in Node |-> None]
    BY DEF new, Whole
  <1>6. ASSUME NEW t, NEW v, NEW e
        PROVE  LET b == restore(t, v, e) IN
               /\ b.log = e /\ Whole(b) /\ b.commit_index = 0
               /\ b.match_index = [p \in Node |-> None]
    BY DEF restore, new, Whole
  <1>7. CASE d.metadata = None
    <2>1. log = << >>
      BY <1>7 DEF Holds
    <2> QED  BY <1>1, <1>2, <1>4, <1>5, <1>7, <2>1 DEF c
  <1>8. CASE d.metadata # None
    BY <1>1, <1>2, <1>3, <1>4, <1>6, <1>8 DEF c
  <1> QED  BY <1>7, <1>8

(***************************************************************************)
(* The invariant as long as there is no snapshot, on any network: every    *)
(* node has its log, its term and its vote in its files, and whoever has   *)
(* written to a log had a term by then.                                    *)
(***************************************************************************)
NodeFiles(c, d) ==
    /\ Whole(c) /\ Holds(d, c.log) /\ OnDisk(c, d)
    /\ c.state # Follower => c.current_term >= 1

PlainMessage(x) ==
    /\ x.type \notin {"InstallSnapshot", "InstallSnapshotResponse"}
    /\ x.type \in {"AppendEntries", "AppendEntriesResponse"} => x.term >= 1

Files ==
    /\ \A n \in Node : NodeFiles(core[n], disk[n])
    /\ \A x \in net : PlainMessage(x)

FilesInv == NoSnapshot => Files

\* What an input does to a node without a snapshot.
Plainly(c, r) ==
    /\ Writes(c, r) /\ Whole(r.core) /\ r.acts.install = None
    /\ (r.acts.log # None \/ r.core.state # Follower) => r.core.current_term >= 1
    /\ \A x \in r.acts.send :
          /\ x.type # "InstallSnapshotResponse"
          /\ x.type \in {"AppendEntries", "AppendEntriesResponse"} => x.term >= 1

\* Terms only grow.
LEMMA TermGrows ==
    ASSUME NEW c \in Core, NEW r, MetaOK(c, r), r.core \in Core
    PROVE  r.core.current_term >= c.current_term
  <1>1. CASE r.acts.meta = << >>
    BY SMTT(30), <1>1 DEF MetaOK, Core
  <1>2. CASE r.acts.meta # << >>
    <2> DEFINE k == Len(r.acts.meta)
    <2>1. k \in 1 .. Len(r.acts.meta)
      BY <1>2 DEF MetaOK
    <2>2. Follows(c, r.acts.meta[k].term, r.acts.meta[k].voted_for)
          /\ r.acts.meta[k] = [term |-> r.core.current_term, voted_for |-> r.core.voted_for]
      BY <1>2, <2>1 DEF MetaOK
    <2> QED  BY <2>2 DEF Follows
  <1> QED  BY <1>1, <1>2

\* Every input is handled that way.
LEMMA InputPlain ==
    ASSUME IInv, Files, NEW n \in Node, NEW r, NEW pending, Input(n, r, pending)
    PROVE  Plainly(core[n], r)
  <1> DEFINE c == core[n]
             Sends == \A x \in r.acts.send :
                         /\ x.type # "InstallSnapshotResponse"
                         /\ x.type \in {"AppendEntries", "AppendEntriesResponse"} =>
                               x.term >= 1
             Role == r.core.state # Follower => r.core.current_term >= 1
  <1>1. c \in Core /\ c.last_applied = c.commit_index /\ TypeOK /\ Whole(c)
        /\ (c.state # Follower => c.current_term >= 1)
    BY StateOK DEF IInv, Files, NodeFiles
  <1>2. r.core \in Core /\ MetaOK(c, r) /\ StepOK(n, c, r)
    BY InputOK DEF StepOK, ResultOK
  <1>3. r.core.current_term >= c.current_term /\ r.core.current_term \in Nat
        /\ c.current_term \in Nat
    BY <1>1, <1>2, TermGrows DEF Core
  <1>4. ASSUME Idle(c, r), Role, Sends PROVE Plainly(c, r)
    BY <1>1, <1>4 DEF Idle, SameLog, Whole, Writes, Plainly
  <1>5. ASSUME NEW command, Pushes(n, c, r, command), c.state # Follower
        PROVE  Plainly(c, r)
    <2>1. Writes(c, r) /\ Whole(r.core) /\ r.acts.log # None /\ r.acts.install = None
      BY <1>1, <1>2, <1>5, PushWrites
    <2>2. r.core.current_term >= 1
      BY <1>1, <1>3, <1>5
    <2>3. r.acts.send = append_entries(n, r.core)
      BY <1>5 DEF Pushes
    <2>4. Sends
      BY <2>2, <2>3, AppendEntriesShape
    <2> QED  BY <2>1, <2>2, <2>4 DEF Plainly
  <1>6. ASSUME RoleOK(c, r) PROVE Role
    BY <1>1, <1>3, <1>6 DEF RoleOK
  <1> SUFFICES Plainly(c, r)
    OBVIOUS
  <1> HIDE DEF Sends, Role
  <1>7. CASE is_leader(c) /\ r = heartbeat(n, c)
    <2>1. Idle(c, r) /\ r.core = c /\ Role
      BY <1>1, <1>6, <1>7, HeartbeatIdle, HeartbeatOK
    <2>2. r.acts.send = append_entries(n, c)
      <3> DEFINE sent == append_entries(n, c)
      <3>1. r = Returns(c, [NoActions EXCEPT !.send = sent])
        BY <1>7 DEF heartbeat
      <3> HIDE DEF sent
      <3>2. r.acts.send = sent
        BY <3>1 DEF Returns, NoActions
      <3> QED  BY <3>2 DEF sent
    <2>3. c.current_term >= 1
      BY <1>1, <1>7 DEF is_leader, Leader, Follower
    <2>4. Sends
      BY <2>2, <2>3, AppendEntriesShape DEF Sends
    <2> QED  BY <1>4, <2>1, <2>4
  <1>8. CASE ~is_leader(c) /\ r = election_timeout(n, c)
    <2>1. Idle(c, r) /\ \A x \in r.acts.send : x.type = "RequestVote"
      BY <1>1, <1>8, ElectionTimeoutIdle DEF is_leader
    <2>2. r.core.current_term = c.current_term + 1
      BY <1>1, <1>8, ElectionTimeoutOK
    <2>3. Role
      BY <1>3, <2>2 DEF Role
    <2>4. Sends
      BY <2>1 DEF Sends
    <2> QED  BY <1>4, <2>1, <2>3, <2>4
  <1>9. CASE \E command \in Command : is_leader(c) /\ r = propose(n, c, command)
    BY <1>1, <1>5, <1>9, ProposePushes DEF is_leader, Leader, Follower
  <1>10. CASE \E m \in net : Message(n, m, r)
    <2>1. PICK m \in net : Message(n, m, r)
      BY <1>10
    <2>2. MessageOK(m) /\ PlainMessage(m) /\ m.term \in Nat
      BY <1>1 DEF TypeOK, Files, MessageOK
    <2>3. CASE r = handle_request_vote(n, c, m)
      <3>1. Idle(c, r) /\ Answers(n, m, r, "RequestVoteResponse") /\ Role
        BY <1>1, <1>6, <2>2, <2>3, RequestVoteIdle, RequestVoteOK
      <3>2. Sends
        BY <3>1 DEF Sends, Answers
      <3> QED  BY <1>4, <3>1, <3>2
    <2>4. CASE r = handle_request_vote_response(n, c, m)
      <3>1. ElectOK(c, m, r)
        BY <1>1, <2>2, <2>4, RequestVoteResponseOK
      <3>2. Role
        <4>1. r.core.state # Follower => r.core.state = Candidate \/ r.core.state = Leader
          BY <1>2 DEF Core
        <4> QED  BY <1>1, <1>3, <3>1, <4>1
                 DEF ElectOK, Role, Candidate, Leader, Follower
      <3>3. CASE Idle(c, r) /\ r.acts.send = {}
        BY <1>4, <3>2, <3>3 DEF Sends
      <3>4. CASE c.state = Candidate /\ Pushes(n, c, r, Noop)
        BY <1>5, <3>4 DEF Candidate, Follower
      <3> QED  BY <1>1, <2>2, <2>4, <3>3, <3>4, RequestVoteResponseKeeps
    <2>5. CASE m.type = "AppendEntries" /\ r = handle_append_entries(n, c, m)
      <3>1. Role
        BY <1>1, <1>6, <2>2, <2>5, AppendEntriesOK
      <3>2. m.term >= 1 /\ m.prev_log_index \in Nat /\ m.entries \in Seq(Entry)
        BY <2>2, <2>5 DEF PlainMessage, MessageOK
      <3>3. CASE Refuses(n, c, m, r)
        <4>1. Sends
          BY <1>3, <2>2, <3>2, <3>3 DEF Refuses, Answers, Sends
        <4> QED  BY <1>4, <3>1, <3>3, <4>1 DEF Refuses
      <3>4. CASE Accepts(n, c, m, r)
        <4>1. Writes(c, r) /\ Whole(r.core) /\ r.acts.install = None
          BY <1>1, <1>2, <3>2, <3>4, AcceptWrites
        <4>2. r.core.current_term = m.term
              /\ \A x \in r.acts.send : x.type = "AppendEntriesResponse" /\ x.term = m.term
          BY <3>4 DEF Accepts
        <4> QED  BY <3>2, <4>1, <4>2 DEF Plainly
      <3> QED  BY <1>1, <2>2, <2>5, <3>3, <3>4, AppendEntriesKeeps
    <2>6. CASE m.type = "AppendEntriesResponse"
               /\ r = handle_append_entries_response(n, c, m)
      <3>1. Role /\ m.term >= 1 /\ m.success \in BOOLEAN
        BY <1>1, <1>6, <2>2, <2>6, AppendEntriesResponseOK DEF PlainMessage, MessageOK
      <3>2. CASE ~m.success
        <4>1. Idle(c, r)
              /\ r.core.current_term = check_msg_term(c, m.term).current_term
              /\ r.acts.send = {build_append_entries_for_peer(n, r.core, m.from)}
          BY <1>1, <2>2, <2>6, <3>2, AppendEntriesResponseKeeps
        <4>2. r.core.current_term >= 1
          BY <1>1, <1>3, <2>2, <3>1, <4>1, CheckMsgTerm
        <4>3. Sends
          BY <4>1, <4>2, BuildShape DEF Sends
        <4> QED  BY <1>4, <3>1, <4>1, <4>3
      <3>3. CASE m.success
        <4>1. Commits(c, m, r)
          BY <1>1, <2>2, <2>6, <3>3, AppendEntriesResponseKeeps
        <4>2. r.core.log = c.log /\ Whole(r.core) /\ r.acts.log = None
              /\ r.acts.install = None /\ r.acts.send = {}
          <5>1. PICK d \in Core : \E commit :
                    /\ SameLog(c, d)
                    /\ SameLog([d EXCEPT !.commit_index = commit, !.last_applied = commit],
                               r.core)
                    /\ r.acts.log = None /\ r.acts.install = None /\ r.acts.send = {}
            BY <4>1 DEF Commits
          <5> QED  BY <1>1, <5>1 DEF SameLog, Core, Whole
        <4> QED  BY <3>1, <4>2 DEF Plainly, Writes, Role
      <3> QED  BY <3>1, <3>2, <3>3
    <2>7. m.type \notin {"InstallSnapshot", "InstallSnapshotResponse"}
      BY <2>2 DEF PlainMessage
    <2> QED  BY <2>1, <2>3, <2>4, <2>5, <2>6, <2>7 DEF Message
  <1> QED  BY <1>7, <1>8, <1>9, <1>10 DEF Input
-----------------------------------------------------------------------------
(***************************************************************************)
(* The two ways a handled input ends, as long as there is no snapshot.     *)
(***************************************************************************)
\* The metadata that go with a written log are in the file by then.
LEMMA StoredMeta ==
    ASSUME IInv, NEW n \in Node, OnDisk(core[n], disk[n]), NEW r, StepOK(n, core[n], r)
    PROVE  LET d == store_metadata(disk[n], r.acts.meta) IN
           /\ DiskOK(d) /\ d.log = disk[n].log /\ d.snapshot = disk[n].snapshot
           /\ OnDisk(r.core, d) /\ (r.core.current_term >= 1 => d.metadata # None)
           /\ d.metadata = None => disk[n].metadata = None
  <1> DEFINE d == store_metadata(disk[n], r.acts.meta)
             metas == r.acts.meta
  <1>1. DiskOK(disk[n]) /\ metas \in Seq(Metadata) /\ MetaOK(core[n], r)
    BY DEF IInv, TypeOK, StepOK, MetaOK
  <1>2. /\ DiskOK(d) /\ d.log = disk[n].log /\ d.snapshot = disk[n].snapshot
        /\ metas = << >> => d.metadata = disk[n].metadata
        /\ metas # << >> => d.metadata = metas[Len(metas)]
    BY <1>1, StoreMetadataOK
  <1> HIDE DEF d
  <1>3. OnDisk(r.core, d) /\ (d.metadata = None => disk[n].metadata = None)
    <2>1. CASE metas = << >>
      BY <1>1, <1>2, <2>1 DEF MetaOK, OnDisk, DiskTerm, DiskVote
    <2>2. CASE metas # << >>
      <3>1. Len(metas) \in 1 .. Len(metas) /\ d.metadata \in Metadata
        BY <1>1, <1>2, <2>2
      <3>2. d.metadata = [term |-> r.core.current_term, voted_for |-> r.core.voted_for]
        BY <1>1, <1>2, <2>2 DEF MetaOK
      <3>3. d.metadata # None
        BY <3>1, ClusterAssumption
      <3> QED  BY <3>2, <3>3 DEF OnDisk, DiskTerm, DiskVote
    <2> QED  BY <2>1, <2>2
  <1>4. r.core.current_term >= 1 => d.metadata # None
    BY <1>3 DEF OnDisk, DiskTerm
  <1> QED  BY <1>2, <1>3, <1>4 DEF d

\* The first entries of a file that holds a log are in it.
LEMMA WholeEntries ==
    ASSUME NEW log \in Seq(Entry)
    PROVE  SubSeq(log, 1, Len(log)) = log
  BY SubSeqFull

\* All that an input persists, and what a crash may leave of it: the old log
\* with old or new metadata, or the new log (up to some index, when a write
\* may be torn) with the new metadata.
LEMMA PersistedHolds ==
    ASSUME IInv, Files, NEW n \in Node, NEW r, NEW pending, Input(n, r, pending), ~r.panic
    PROVE  LET d == Persisted(n, r) IN
           /\ DiskOK(d) /\ Holds(d, r.core.log) /\ OnDisk(r.core, d)
  <1> DEFINE m == store_metadata(disk[n], r.acts.meta)
             d == Persisted(n, r)
             c == core[n]
  <1>1. Plainly(c, r) /\ StepOK(n, c, r) /\ r.core \in Core /\ c \in Core
    BY InputPlain, InputOK, StateOK DEF StepOK, ResultOK, IInv
  <1>2. OnDisk(c, disk[n]) /\ Holds(disk[n], c.log)
    BY DEF Files, NodeFiles
  <1>3. /\ DiskOK(m) /\ m.log = disk[n].log /\ m.snapshot = disk[n].snapshot
        /\ OnDisk(r.core, m) /\ (r.core.current_term >= 1 => m.metadata # None)
        /\ (m.metadata = None => disk[n].metadata = None)
    BY <1>1, <1>2, StoredMeta
  <1>4. d = IF r.acts.log = None THEN m ELSE store_log_entries(m, r.acts.log)
    BY DEF Persisted
  <1> HIDE DEF m, d
  <1>5. CASE r.acts.log = None
    <2>1. r.core.log = c.log
      BY <1>1, <1>5 DEF Plainly, Writes
    <2>2. Holds(m, c.log)
      BY <1>2, <1>3 DEF Holds, InFile
    <2> QED  BY <1>3, <1>4, <1>5, <2>1, <2>2 DEF d
  <1>6. CASE r.acts.log # None
    <2>1. r.acts.log \in [start_index : Nat, entries : Seq(Entry)]
      BY <1>1, <1>6 DEF StepOK, ResultOK, AddendumOK
    <2>2. PICK k \in 0 .. Len(r.acts.log.entries) :
              k = Len(r.acts.log.entries) /\ SubSeq(r.acts.log.entries, 1, k) = r.acts.log.entries
      <3>1. r.acts.log.entries \in Seq(Entry) /\ Len(r.acts.log.entries) \in Nat
        BY <2>1
      <3> QED  BY <3>1, WholeEntries
    <2>3. [r.acts.log EXCEPT !.entries = SubSeq(@, 1, k)] = r.acts.log
      BY <2>1, <2>2
    <2>4. InFile(m, c.log) /\ Writes(c, r)
      BY <1>1, <1>2, <1>3 DEF Holds, InFile, Plainly
    <2> DEFINE e == store_log_entries(m, [r.acts.log EXCEPT !.entries = SubSeq(@, 1, k)])
    <2>5. /\ e.log # None /\ e.snapshot = m.snapshot /\ e.metadata = m.metadata
          /\ \E i \in 0 .. Len(r.core.log) :
                /\ InFile(e, SubSeq(r.core.log, 1, i))
                /\ k = Len(r.acts.log.entries) => i = Len(r.core.log)
      BY <1>1, <1>3, <1>6, <2>4, WritesInFile
    <2>a. d = e
      BY <1>4, <1>6, <2>3
    <2> HIDE DEF e
    <2>6. InFile(d, r.core.log)
      <3>1. r.core.log \in Seq(Entry)
        BY <1>1 DEF Core
      <3>2. InFile(e, SubSeq(r.core.log, 1, Len(r.core.log)))
        BY <2>2, <2>5
      <3> QED  BY <2>a, <3>1, <3>2, WholeEntries
    <2>7. m.metadata # None
      BY <1>1, <1>3, <1>6 DEF Plainly
    <2>8. Holds(d, r.core.log) /\ OnDisk(r.core, d)
      BY <1>2, <1>3, <2>a, <2>5, <2>6, <2>7 DEF Holds, OnDisk, DiskTerm, DiskVote
    <2>9. DiskOK(d)
      BY <1>3, <1>4, <1>6, <2>1, StoreLogEntriesOK DEF AddendumOK
    <2> QED  BY <2>8, <2>9 DEF d
  <1> QED  BY <1>5, <1>6

Leaves(n, r, d) ==
    /\ DiskOK(d) /\ DiskFollows(disk[n], d)
    /\ \/ Holds(d, core[n].log)
       \/ /\ r.acts.log # None /\ OnDisk(r.core, d)
          /\ \E i \in 0 .. Len(r.core.log) :
                /\ Holds(d, SubSeq(r.core.log, 1, i))
                /\ i = Len(r.core.log) \/ TornWrites

LEMMA CrashLeaves ==
    ASSUME NoneIsNoSnapshot, IInv, Files, NEW n \in Node, NEW r, NEW pending,
           Input(n, r, pending), ~r.panic, NEW d \in CrashDisks(n, r), d.snapshot = None
    PROVE  Leaves(n, r, d)
  <1> DEFINE metas == r.acts.meta
             m == store_metadata(disk[n], metas)
             log == r.acts.log
             torn(k) == [log EXCEPT !.entries = SubSeq(@, 1, k)]
             own(k) == store_snapshot(Persisted(n, r), OwnSnapshot(n, r, k))
             c == core[n]
  <1>1. Plainly(c, r) /\ StepOK(n, c, r) /\ r.core \in Core /\ c \in Core
        /\ metas \in Seq(Metadata) /\ ResultOK(r) /\ TypeOK /\ MetaOK(c, r)
    BY InputPlain, InputOK, StateOK DEF StepOK, ResultOK, IInv, MetaOK
  <1>2. OnDisk(c, disk[n]) /\ Holds(disk[n], c.log) /\ DiskOK(disk[n])
    BY <1>1 DEF Files, NodeFiles, TypeOK
  <1>3. DiskOK(d) /\ DiskFollows(disk[n], d)
    <2>1. DiskOK(d) /\ (\/ d.metadata = disk[n].metadata
                        \/ \E k \in 1 .. Len(metas) : d.metadata = metas[k])
      BY <1>1, CrashDisksOK
    <2> QED  BY <1>1, <1>2, <2>1, MetaFollows
  <1>4. CASE \E k \in 0 .. Len(metas) : d = store_metadata(disk[n], SubSeq(metas, 1, k))
    <2>1. PICK k \in 0 .. Len(metas) : d = store_metadata(disk[n], SubSeq(metas, 1, k))
      BY <1>4
    <2> DEFINE p == SubSeq(metas, 1, k)
    <2>2. p \in Seq(Metadata)
      BY <1>1, <2>1
    <2> HIDE DEF p
    <2>3. /\ d.log = disk[n].log /\ d.snapshot = disk[n].snapshot
          /\ p = << >> => d.metadata = disk[n].metadata
          /\ p # << >> => d.metadata = p[Len(p)]
      BY <1>2, <2>1, <2>2, StoreMetadataOK DEF p
    <2>4. p # << >> => d.metadata # None
      <3>1. p # << >> => p[Len(p)] \in Metadata
        BY <2>2
      <3> QED  BY <2>3, <3>1, ClusterAssumption
    <2>5. Holds(d, c.log)
      BY <1>2, <2>3, <2>4 DEF Holds, InFile
    <2> QED  BY <1>3, <2>5 DEF Leaves
  <1>5. CASE d = Persisted(n, r)
    <2>1. Holds(d, r.core.log) /\ OnDisk(r.core, d)
      BY <1>5, PersistedHolds
    <2>2. CASE log = None
      <3>1. r.core.log = c.log
        BY <1>1, <2>2 DEF Plainly, Writes
      <3> QED  BY <1>3, <2>1, <3>1 DEF Leaves
    <2>3. CASE log # None
      <3> DEFINE i == Len(r.core.log)
      <3>1. r.core.log \in Seq(Entry)
        BY <1>1 DEF Core
      <3>2. i \in 0 .. i /\ SubSeq(r.core.log, 1, i) = r.core.log
        BY <3>1, WholeEntries
      <3> QED  BY <1>3, <2>1, <2>3, <3>2 DEF Leaves
    <2> QED  BY <2>2, <2>3
  <1>6. CASE /\ TornWrites /\ log # None
             /\ \E k \in 0 .. Len(log.entries) : d = store_log_entries(m, torn(k))
    <2>1. PICK k \in 0 .. Len(log.entries) : d = store_log_entries(m, torn(k))
      BY <1>6
    <2>2. /\ DiskOK(m) /\ m.log = disk[n].log /\ m.snapshot = disk[n].snapshot
          /\ OnDisk(r.core, m) /\ (r.core.current_term >= 1 => m.metadata # None)
      BY <1>1, <1>2, StoredMeta
    <2>3. m.metadata # None
      BY <1>1, <1>6, <2>2 DEF Plainly
    <2> HIDE DEF m
    <2>4. InFile(m, c.log) /\ Writes(c, r)
      BY <1>1, <1>2, <2>2 DEF Holds, InFile, Plainly
    <2> DEFINE e == store_log_entries(m, [r.acts.log EXCEPT !.entries = SubSeq(@, 1, k)])
    <2>a. /\ e.log # None /\ e.snapshot = m.snapshot /\ e.metadata = m.metadata
          /\ \E i \in 0 .. Len(r.core.log) :
                /\ InFile(e, SubSeq(r.core.log, 1, i))
                /\ k = Len(r.acts.log.entries) => i = Len(r.core.log)
      BY <1>1, <1>6, <2>2, <2>4, WritesInFile
    <2>b. d = e
      BY <2>1
    <2> HIDE DEF e
    <2>5. /\ d.log # None /\ d.snapshot = m.snapshot /\ d.metadata = m.metadata
          /\ \E i \in 0 .. Len(r.core.log) : InFile(d, SubSeq(r.core.log, 1, i))
      BY <2>a, <2>b
    <2>6. OnDisk(r.core, d)
      BY <2>2, <2>5 DEF OnDisk, DiskTerm, DiskVote
    <2>7. \E i \in 0 .. Len(r.core.log) : Holds(d, SubSeq(r.core.log, 1, i))
      BY <1>2, <2>2, <2>3, <2>5 DEF Holds
    <2> QED  BY <1>3, <1>6, <2>6, <2>7 DEF Leaves
  <1>7. ~ \E k : d = own(k) \/ d = truncate_log(own(k))
    <2> SUFFICES ASSUME NEW k, d = own(k) \/ d = truncate_log(own(k)) PROVE FALSE
      OBVIOUS
    <2>1. OwnSnapshot(n, r, k) # None
      BY DEF NoneIsNoSnapshot, OwnSnapshot
    <2>2. own(k).snapshot = OwnSnapshot(n, r, k)
      BY DEF store_snapshot
    <2> HIDE DEF own
    <2>3. truncate_log(own(k)).snapshot = own(k).snapshot
      BY DEF truncate_log
    <2> QED  BY <2>1, <2>2, <2>3
  <1>8. \/ \E k \in 0 .. Len(metas) : d = store_metadata(disk[n], SubSeq(metas, 1, k))
        \/ d = Persisted(n, r) \/ (r.acts.install # None /\ d = WithSnapshot(n, r))
        \/ /\ TornWrites /\ log # None
           /\ \E k \in 0 .. Len(log.entries) : d = store_log_entries(m, torn(k))
        \/ \E k : d = own(k) \/ d = truncate_log(own(k))
    <2> HIDE DEF own
    <2> QED  BY DEF CrashDisks, own
  <1>9. r.acts.install = None
    BY <1>1 DEF Plainly
  <1> HIDE DEF own, torn, m
  <1> QED  BY <1>4, <1>5, <1>6, <1>7, <1>8, <1>9
\* Persisting metadata and entries leaves the snapshot alone.
LEMMA PersistedSnapshot ==
    ASSUME NEW n, NEW r
    PROVE  Persisted(n, r).snapshot = disk[n].snapshot
  <1> DEFINE m == store_metadata(disk[n], r.acts.meta)
  <1>1. \A metas : store_metadata(disk[n], metas).snapshot = disk[n].snapshot
    BY DEF store_metadata
  <1>2. \A a, d : store_log_entries(d, a).snapshot = d.snapshot
    BY DEF store_log_entries
  <1>3. Persisted(n, r) = m \/ Persisted(n, r) = store_log_entries(m, r.acts.log)
    BY DEF Persisted
  <1> QED  BY <1>1, <1>2, <1>3

\* A node whose files hold no snapshot after an input had none before, and
\* has not taken one.
LEMMA NoSnapshotTaken ==
    ASSUME NoneIsNoSnapshot, NEW n, NEW r, DiskAfter(n, r).snapshot = None
    PROVE  /\ disk[n].snapshot = None /\ ~Compacts(n, r.acts)
           /\ SnapshotToStore(n, r) = None
           /\ CoreAfter(n, r) = r.core /\ DiskAfter(n, r) = Persisted(n, r)
  <1> DEFINE s == SnapshotToStore(n, r)
             d == Persisted(n, r)
  <1>1. s # None => DiskAfter(n, r).snapshot = s
    <2>1. \A b : truncate_log(b).snapshot = b.snapshot
      BY DEF truncate_log
    <2>2. store_snapshot(d, s).snapshot = s
      BY DEF store_snapshot
    <2>3. s # None => WithSnapshot(n, r) = store_snapshot(d, s)
      BY DEF WithSnapshot
    <2> HIDE DEF s, d
    <2>4. s # None => DiskAfter(n, r) = WithSnapshot(n, r)
                      \/ DiskAfter(n, r) = truncate_log(WithSnapshot(n, r))
      BY DEF DiskAfter
    <2> QED  BY <2>1, <2>2, <2>3, <2>4
  <1>2. s = None
    BY <1>1
  <1>3. r.acts.install = None /\ ~Compacts(n, r.acts)
    <2>1. \A k : OwnSnapshot(n, r, k) # None
      BY DEF NoneIsNoSnapshot, OwnSnapshot
    <2> QED  BY <1>2, <2>1 DEF SnapshotToStore
  <1>4. DiskAfter(n, r) = d
    BY <1>2 DEF DiskAfter, WithSnapshot
  <1> QED  BY <1>2, <1>3, <1>4, PersistedSnapshot DEF CoreAfter

LEMMA CrashSnapshot ==
    ASSUME NoneIsNoSnapshot, NEW n, NEW r, NEW d \in CrashDisks(n, r), d.snapshot = None
    PROVE  disk[n].snapshot = None
  <1> DEFINE m == store_metadata(disk[n], r.acts.meta)
             log == r.acts.log
             torn(k) == [log EXCEPT !.entries = SubSeq(@, 1, k)]
             own(k) == store_snapshot(Persisted(n, r), OwnSnapshot(n, r, k))
  <1>1. \/ \E k : d = store_metadata(disk[n], SubSeq(r.acts.meta, 1, k))
        \/ d = Persisted(n, r) \/ (r.acts.install # None /\ d = WithSnapshot(n, r))
        \/ \E k : d = store_log_entries(m, torn(k))
        \/ \E k : d = own(k) \/ d = truncate_log(own(k))
    <2> HIDE DEF own
    <2> QED  BY DEF CrashDisks, own
  <1>2. \A metas : store_metadata(disk[n], metas).snapshot = disk[n].snapshot
    BY DEF store_metadata
  <1>3. \A a, b : store_log_entries(b, a).snapshot = b.snapshot
    BY DEF store_log_entries
  <1>4. \A k : own(k).snapshot # None /\ truncate_log(own(k)).snapshot # None
    BY DEF NoneIsNoSnapshot, OwnSnapshot, store_snapshot, truncate_log
  <1>5. r.acts.install # None => WithSnapshot(n, r).snapshot # None
    <2> DEFINE s == SnapshotToStore(n, r)
               e == Persisted(n, r)
    <2>1. r.acts.install # None => s = r.acts.install
      BY DEF SnapshotToStore
    <2>2. WithSnapshot(n, r) = IF s = None THEN e ELSE store_snapshot(e, s)
      BY DEF WithSnapshot
    <2>3. store_snapshot(e, s).snapshot = s
      BY DEF store_snapshot
    <2> HIDE DEF s, e
    <2> QED  BY <2>1, <2>2, <2>3
  <1> HIDE DEF own, torn, m
  <1>6. m.snapshot = disk[n].snapshot
    BY <1>2 DEF m
  <1> QED  BY <1>1, <1>2, <1>3, <1>4, <1>5, <1>6, PersistedSnapshot

\* What may be received of the messages of an input.
Heard(r) ==
    {x \in r.acts.send :
        x.type # "InstallSnapshot" /\ (LeadersOnly => FromLeader(r.core, x))}

\* The input is handled to the end.
Performed(n, r, pending) ==
    /\ ~r.panic
    /\ core' = [core EXCEPT ![n] = r.core] /\ disk' = [disk EXCEPT ![n] = Persisted(n, r)]
    /\ net' \subseteq net \cup Heard(r)
    /\ panicked' = IF \E x \in r.acts.send : x.type = "InstallSnapshot"
                   THEN panicked \cup {n} ELSE panicked
    /\ pending_proposals' = [pending_proposals EXCEPT ![n] = pending]
    /\ Recorded(n, r.core) /\ committed' = committed \cup Committed(r)
    /\ crashes' = crashes

\* The core panics.
Panicked(n) ==
    /\ UNCHANGED <<core, disk, pending_proposals, votes, leaders, committed, crashes>>
    /\ net' \subseteq net /\ panicked' = panicked \cup {n}

\* The node is started on the files in d.
Started(n, d) ==
    /\ core' = [core EXCEPT ![n] = Restored(d)] /\ disk' = [disk EXCEPT ![n] = d]
    /\ net' \subseteq net /\ panicked' = panicked \ {n}
    /\ pending_proposals' = [pending_proposals EXCEPT ![n] = {}]
    /\ Recorded(n, Restored(d)) /\ UNCHANGED committed /\ crashes' # crashes

\* Something is asked to be read; the core has the same log, role and peers.
Asked(n) ==
    /\ core' = [core EXCEPT ![n] = request_read_barrier(core[n])]
    /\ UNCHANGED <<disk, net, panicked, pending_proposals, votes, leaders, committed, crashes>>

\* The steps of a cluster without a snapshot.
QuietStep ==
    \/ UNCHANGED vars
    \/ \E n \in Node \ panicked : Asked(n)
    \/ \E n \in Node \ panicked : \E r, pending :
          Input(n, r, pending) /\ (Performed(n, r, pending) \/ (r.panic /\ Panicked(n)))
    \/ \E n \in Node \ panicked : \E r, pending, d :
          /\ Input(n, r, pending) /\ ~r.panic
          /\ d \in CrashDisks(n, r) /\ Leaves(n, r, d) /\ Started(n, d)
    \/ \E n \in Node : Started(n, disk[n])

LEMMA StartOnStarted ==
    ASSUME NEW n \in Node, NEW d, d.snapshot = None, StartOn(n, d), net' \subseteq net,
           IInv
    PROVE  Started(n, d)
  <1>1. ~StartupPanics(d)
    BY DEF StartupPanics
  <1>2. core' = [core EXCEPT ![n] = Restored(d)] /\ Recorded(n, core'[n])
        /\ panicked' = panicked \ {n}
    BY <1>1 DEF StartOn
  <1>3. core'[n] = Restored(d)
    BY <1>2 DEF IInv, TypeOK
  <1>4. crashes' # crashes
    BY DEF StartOn, IInv, TypeOK
  <1> QED  BY <1>2, <1>3, <1>4 DEF StartOn, Started

LEMMA QuietSteps ==
    ASSUME NoneIsNoSnapshot, IInv, FilesInv, [Next]_vars, NoSnapshot'
    PROVE  NoSnapshot /\ Files /\ QuietStep
  <1>0. DOMAIN disk = Node /\ core \in [Node -> Core]
    BY DEF IInv, TypeOK
  <1>1. CASE UNCHANGED vars
    <2>1. disk' = disk
      BY <1>1 DEF vars
    <2> QED  BY <1>1, <2>1 DEF NoSnapshot, FilesInv, QuietStep
  <1>2. ASSUME NEW n \in Node \ panicked, ReadRequest(n)
        PROVE  NoSnapshot /\ Files /\ QuietStep
    <2>1. disk' = disk /\ Asked(n)
      BY <1>2 DEF ReadRequest, Asked
    <2> QED  BY <2>1 DEF NoSnapshot, FilesInv, QuietStep
  <1>3. ASSUME NEW n \in Node, Restart(n)
        PROVE  NoSnapshot /\ Files /\ QuietStep
    <2>1. StartOn(n, disk[n]) /\ net' \subseteq net /\ disk' = [disk EXCEPT ![n] = disk[n]]
      BY <1>3 DEF Restart, StartOn
    <2>2. NoSnapshot
      BY <1>0, <2>1 DEF NoSnapshot
    <2>3. Started(n, disk[n])
      BY <2>1, <2>2, StartOnStarted DEF NoSnapshot
    <2> QED  BY <2>2, <2>3 DEF FilesInv, QuietStep
  <1>4. ASSUME NEW n \in Node \ panicked, NEW rest \in SUBSET net, NEW r, NEW pending,
               Input(n, r, pending), Handle(n, r, pending, rest)
        PROVE  NoSnapshot /\ Files /\ QuietStep
    <2>1. CASE Perform(n, r, pending, rest)
      <3>1. disk' = [disk EXCEPT ![n] = DiskAfter(n, r)]
        BY <2>1 DEF Perform
      <3>2. DiskAfter(n, r).snapshot = None
        BY <1>0, <3>1 DEF NoSnapshot
      <3>3. disk[n].snapshot = None /\ SnapshotToStore(n, r) = None
            /\ CoreAfter(n, r) = r.core /\ DiskAfter(n, r) = Persisted(n, r)
        BY <3>2, NoSnapshotTaken
      <3>4. NoSnapshot
        BY <1>0, <3>1, <3>3 DEF NoSnapshot
      <3>5. Outgoing(n, r) \subseteq {x \in r.acts.send : x.type # "InstallSnapshot"}
            /\ (Unsendable(n, r) # {} <=> \E x \in r.acts.send : x.type = "InstallSnapshot")
        BY <3>2 DEF Outgoing, Unsendable
      <3>6. DriverPanics(n, r) <=> \E x \in r.acts.send : x.type = "InstallSnapshot"
        BY <3>3, <3>5 DEF DriverPanics, TruncatePanics
      <3>7. net' \subseteq net \cup Heard(r)
        <4>1. PICK sent \in SUBSET Outgoing(n, r) :
                  net' = rest \cup sent /\ (LeadersOnly => \A x \in sent : FromLeader(r.core, x))
          BY <2>1 DEF Perform
        <4>2. sent \subseteq Heard(r)
          BY <3>5, <4>1 DEF Heard
        <4> QED  BY <4>1, <4>2
      <3>8. Performed(n, r, pending)
        <4>1. panicked' = IF \E x \in r.acts.send : x.type = "InstallSnapshot"
                          THEN panicked \cup {n} ELSE panicked
          <5>1. panicked' = IF DriverPanics(n, r) THEN panicked \cup {n} ELSE panicked
            BY <2>1 DEF Perform
          <5> QED  BY <3>6, <5>1
        <4>2. ~r.panic /\ core' = [core EXCEPT ![n] = r.core]
              /\ pending_proposals' = [pending_proposals EXCEPT ![n] = pending]
              /\ Recorded(n, r.core) /\ committed' = committed \cup Committed(r)
              /\ crashes' = crashes
          BY <2>1, <3>3 DEF Perform
        <4> QED  BY <3>1, <3>3, <3>7, <4>1, <4>2 DEF Performed
      <3>9. Input(n, r, pending) /\ (Performed(n, r, pending) \/ (r.panic /\ Panicked(n)))
        BY <1>4, <3>8, Zenon
      <3>10. QuietStep
        BY <3>9, Zenon DEF QuietStep
      <3> QED  BY <3>4, <3>10 DEF FilesInv
    <2>2. CASE CorePanic(n, r, rest)
      <3>1. disk' = disk /\ Panicked(n) /\ r.panic
        BY <2>2 DEF CorePanic, Panicked, driver
      <3> QED  BY <1>4, <3>1 DEF NoSnapshot, FilesInv, QuietStep
    <2>3. CASE Interrupted(n, r, rest)
      <3>1. PICK d \in CrashDisks(n, r) : StartOn(n, d)
        BY <2>3 DEF Interrupted
      <3>2. disk' = [disk EXCEPT ![n] = d] /\ net' \subseteq net /\ ~r.panic
        BY <2>3, <3>1 DEF Interrupted, StartOn
      <3>3. d.snapshot = None
        BY <1>0, <3>2 DEF NoSnapshot
      <3>4. disk[n].snapshot = None
        BY <3>3, CrashSnapshot
      <3>5. NoSnapshot
        BY <1>0, <3>2, <3>4 DEF NoSnapshot
      <3>6. Leaves(n, r, d)
        BY <1>4, <3>2, <3>3, <3>5, CrashLeaves DEF FilesInv
      <3>7. Started(n, d)
        BY <3>1, <3>2, <3>3, StartOnStarted
      <3> QED  BY <1>4, <3>2, <3>5, <3>6, <3>7 DEF FilesInv, QuietStep
    <2> QED  BY <1>4, <2>1, <2>2, <2>3 DEF Handle
  <1> QED  BY <1>1, <1>2, <1>3, <1>4, Steps
-----------------------------------------------------------------------------
(***************************************************************************)
(* RestartKeepsState.                                                      *)
(***************************************************************************)
\* The files of node n follow its core.
LEMMA FilesStep ==
    ASSUME TypeOK, Files, NEW n \in Node, NEW c, NEW d, NodeFiles(c, d),
           core' = [core EXCEPT ![n] = c],
           disk'[n] = d, \A k \in Node : k # n => disk'[k] = disk[k],
           \A x \in net' : x \in net \/ PlainMessage(x)
    PROVE  Files'
  <1>1. core'[n] = c /\ disk'[n] = d
        /\ \A k \in Node : k # n => core'[k] = core[k] /\ disk'[k] = disk[k]
    BY DEF TypeOK
  <1>2. \A k \in Node : NodeFiles(core'[k], disk'[k])
    BY <1>1 DEF Files
  <1> QED  BY <1>2 DEF Files

LEMMA StartedFiles ==
    ASSUME IInv, Files, NEW n \in Node, NEW d, DiskOK(d), NEW log \in Seq(Entry),
           Holds(d, log), Started(n, d)
    PROVE  Files'
  <1> DEFINE c == Restored(d)
  <1>1. Whole(c) /\ c.log = log /\ c.state = Follower /\ OnDisk(c, d)
    BY RestoredWhole
  <1> HIDE DEF c
  <1>2. NodeFiles(c, d)
    BY <1>1 DEF NodeFiles
  <1>3. core' = [core EXCEPT ![n] = c] /\ disk' = [disk EXCEPT ![n] = d]
        /\ \A x \in net' : x \in net
    BY DEF Started, c
  <1>4. disk'[n] = d /\ \A k \in Node : k # n => disk'[k] = disk[k]
    BY <1>3 DEF IInv, TypeOK
  <1> QED  BY <1>2, <1>3, <1>4, FilesStep DEF IInv

\* The log a crash leaves is a sequence of entries.
LEMMA LeavesLog ==
    ASSUME IInv, NEW n \in Node, NEW r, r.core \in Core, NEW d, Leaves(n, r, d)
    PROVE  \E log \in Seq(Entry) : Holds(d, log)
  <1>1. core[n].log \in Seq(Entry) /\ r.core.log \in Seq(Entry)
    BY DEF IInv, TypeOK, Core
  <1>2. \A i \in 0 .. Len(r.core.log) : SubSeq(r.core.log, 1, i) \in Seq(Entry)
    BY <1>1
  <1> QED  BY <1>1, <1>2 DEF Leaves

LEMMA NextFiles ==
    ASSUME NoneIsNoSnapshot
    PROVE  IInv /\ FilesInv /\ [Next]_vars => FilesInv'
  <1> SUFFICES ASSUME IInv, FilesInv, [Next]_vars, NoSnapshot' PROVE Files'
    BY DEF FilesInv
  <1>1. Files /\ QuietStep /\ TypeOK
    BY QuietSteps DEF IInv
  <1>2. CASE UNCHANGED vars
    <2>1. core' = core /\ disk' = disk /\ net' = net
      BY <1>2 DEF vars
    <2> QED  BY <1>1, <2>1 DEF Files
  <1>3. ASSUME NEW n \in Node \ panicked, Asked(n) PROVE Files'
    <2> DEFINE c == request_read_barrier(core[n])
    <2>1. core[n] \in Core /\ NodeFiles(core[n], disk[n])
      BY <1>1 DEF TypeOK, Files
    <2>2. c.log = core[n].log /\ c.state = core[n].state
          /\ c.current_term = core[n].current_term /\ c.voted_for = core[n].voted_for
          /\ c.last_included_index = core[n].last_included_index
          /\ c.last_included_term = core[n].last_included_term
      BY <2>1 DEF request_read_barrier, Core
    <2> HIDE DEF c
    <2>3. NodeFiles(c, disk[n])
      BY <2>1, <2>2 DEF NodeFiles, Whole, OnDisk
    <2>4. core' = [core EXCEPT ![n] = c] /\ disk' = disk /\ \A x \in net' : x \in net
      BY <1>3 DEF Asked, c
    <2> QED  BY <1>1, <2>3, <2>4, FilesStep
  <1>4. ASSUME NEW n \in Node \ panicked, NEW r, NEW pending, Input(n, r, pending),
               Performed(n, r, pending)
        PROVE  Files'
    <2>1. ~r.panic /\ core' = [core EXCEPT ![n] = r.core]
          /\ disk' = [disk EXCEPT ![n] = Persisted(n, r)]
          /\ net' \subseteq net \cup {x \in r.acts.send : x.type # "InstallSnapshot"}
      BY <1>4 DEF Performed, Heard
    <2>2. Plainly(core[n], r)
      BY <1>1, <1>4, <2>1, InputPlain
    <2>3. Holds(Persisted(n, r), r.core.log) /\ OnDisk(r.core, Persisted(n, r))
      BY <1>1, <1>4, <2>1, PersistedHolds
    <2>4. NodeFiles(r.core, Persisted(n, r))
      <3>1. Whole(r.core) /\ (r.core.state # Follower => r.core.current_term >= 1)
        BY <2>2 DEF Plainly
      <3> QED  BY <2>3, <3>1 DEF NodeFiles
    <2>5. ASSUME NEW x \in net' PROVE x \in net \/ PlainMessage(x)
      <3>1. x \in net \/ (x \in r.acts.send /\ x.type # "InstallSnapshot")
        BY <2>1
      <3>2. x \in r.acts.send =>
                /\ x.type # "InstallSnapshotResponse"
                /\ x.type \in {"AppendEntries", "AppendEntriesResponse"} => x.term >= 1
        BY <2>2 DEF Plainly
      <3> QED  BY <3>1, <3>2 DEF PlainMessage
    <2>6. disk'[n] = Persisted(n, r) /\ \A k \in Node : k # n => disk'[k] = disk[k]
      BY <1>1, <2>1 DEF TypeOK
    <2> QED  BY <1>1, <2>1, <2>4, <2>5, <2>6, FilesStep
  <1>5. ASSUME NEW n \in Node, Panicked(n) PROVE Files'
    BY <1>1, <1>5 DEF Panicked, Files
  <1>6. ASSUME NEW n \in Node \ panicked, NEW r, NEW pending, NEW d, Input(n, r, pending),
               ~r.panic, Leaves(n, r, d), Started(n, d)
        PROVE  Files'
    <2>1. r.core \in Core /\ DiskOK(d)
      BY <1>6, InputOK DEF StepOK, ResultOK, Leaves
    <2>2. PICK log \in Seq(Entry) : Holds(d, log)
      BY <1>6, <2>1, LeavesLog
    <2> QED  BY <1>1, <1>6, <2>1, <2>2, StartedFiles
  <1>7. ASSUME NEW n \in Node, Started(n, disk[n]) PROVE Files'
    <2>1. DiskOK(disk[n]) /\ Holds(disk[n], core[n].log) /\ core[n].log \in Seq(Entry)
      BY <1>1 DEF Files, NodeFiles, TypeOK, Core
    <2> QED  BY <1>1, <1>7, <2>1, StartedFiles
  <1> QED  BY <1>1, <1>2, <1>3, <1>4, <1>5, <1>6, <1>7 DEF QuietStep

LEMMA InitFiles == Init => FilesInv
  <1> SUFFICES ASSUME Init PROVE Files
    BY DEF FilesInv
  <1>1. new.log = << >> /\ Whole(new) /\ new.state = Follower /\ new.current_term = 0
        /\ new.voted_for = None
    BY NewOK DEF new, Whole
  <1>2. NodeFiles(new, EmptyDisk)
    BY <1>1 DEF NodeFiles, EmptyDisk, Holds, InFile, OnDisk, DiskTerm, DiskVote
  <1> QED  BY <1>2 DEF Init, Files

\* Restarting a node gives it back the term, the vote and the log it has, on
\* any network and whatever a crash tears: the files of a node always hold
\* what its core holds, until the first snapshot is taken.
THEOREM RestartIsSafe ==
    ASSUME NoneIsNoSnapshot
    PROVE  Spec => [](NoSnapshot => RestartKeepsState)
  <1>1. IInv /\ FilesInv => (NoSnapshot => RestartKeepsState)
    <2> SUFFICES ASSUME IInv, Files, NEW n \in Node
                 PROVE  LET c == Restored(disk[n])
                        IN  /\ c.current_term = core[n].current_term
                            /\ c.voted_for = core[n].voted_for
                            /\ c.log = core[n].log
      BY DEF FilesInv, RestartKeepsState
    <2>1. DiskOK(disk[n]) /\ core[n].log \in Seq(Entry) /\ Holds(disk[n], core[n].log)
          /\ OnDisk(core[n], disk[n])
      BY DEF Files, NodeFiles, IInv, TypeOK, Core
    <2>2. Restored(disk[n]).log = core[n].log /\ OnDisk(Restored(disk[n]), disk[n])
      BY <2>1, RestoredWhole
    <2> QED  BY <2>1, <2>2 DEF OnDisk
  <1> QED  BY <1>1, InitInv, NextInv, InitFiles, NextFiles, PTL DEF Spec

-----------------------------------------------------------------------------
(***************************************************************************)
(* The logs that the leaders have had: L[t] is the log of the leader of    *)
(* term t as far as it has got, empty when there has been none.            *)
(***************************************************************************)
\* Up to every entry, the log is what the leader of the entry's term had.
Agrees(L, log) ==
    \A i \in 1 .. Len(log) :
        /\ i <= Len(L[log[i].term])
        /\ \A j \in 1 .. i : log[j] = L[log[i].term][j]

\* The entries of an AppendEntries message, and the one before, are in the log.
Carries(log, x) ==
    /\ x.prev_log_index + Len(x.entries) <= Len(log)
    /\ \A k \in 1 .. Len(x.entries) : x.entries[k] = log[x.prev_log_index + k]
    /\ x.prev_log_index > 0 => x.prev_log_term = log[x.prev_log_index].term

\* Node k has won the election of term t, and no longer campaigns in it.
Won(t, k) ==
    /\ ByMajority(t, k)
    /\ \/ core[k].current_term > t
       \/ core[k].current_term = t /\ core[k].state # Candidate

LogInv(L) ==
    /\ \A n \in Node : /\ Agrees(L, core[n].log)
                       /\ is_leader(core[n]) => L[core[n].current_term] = core[n].log
    /\ \A t \in Nat : /\ Agrees(L, L[t])
                      /\ L[t] # << >> => \E k \in Node : Won(t, k)
    /\ \A x \in net : x.type = "AppendEntries" => Carries(L[x.term], x)

Logs == [Nat -> Seq(Entry)]

LogsInv == NoSnapshot => \E L \in Logs : LogInv(L)

\* Two logs that agree with the leaders' have the same entries up to an index
\* at which they have the same term.
LEMMA SameUpTo ==
    ASSUME NEW L \in Logs, NEW a \in Seq(Entry), NEW b \in Seq(Entry), Agrees(L, a),
           Agrees(L, b), NEW i \in Nat, i >= 1, i <= Len(a), i <= Len(b),
           a[i].term = b[i].term
    PROVE  \A j \in 1 .. i : a[j] = b[j]
  <1>1. i \in 1 .. Len(a) /\ i \in 1 .. Len(b)
    OBVIOUS
  <1>2. \A j \in 1 .. i : a[j] = L[a[i].term][j] /\ b[j] = L[b[i].term][j]
    BY <1>1 DEF Agrees
  <1> QED  BY <1>2

LEMMA PrefixAgrees ==
    ASSUME NEW L \in Logs, NEW a \in Seq(Entry), NEW b \in Seq(Entry), Agrees(L, a),
           Len(b) <= Len(a), \A i \in 1 .. Len(b) : b[i] = a[i]
    PROVE  Agrees(L, b)
  <1> SUFFICES ASSUME NEW i \in 1 .. Len(b)
               PROVE  /\ i <= Len(L[b[i].term])
                      /\ \A j \in 1 .. i : b[j] = L[b[i].term][j]
    BY DEF Agrees
  <1>1. i \in 1 .. Len(a) /\ b[i] = a[i] /\ \A j \in 1 .. i : j \in 1 .. Len(b)
    OBVIOUS
  <1>2. i <= Len(L[a[i].term]) /\ \A j \in 1 .. i : a[j] = L[a[i].term][j]
    BY <1>1 DEF Agrees
  <1> QED  BY <1>1, <1>2

\* A leader's log is only extended.
Extends(L, M) ==
    \A t \in Nat : /\ Len(L[t]) <= Len(M[t])
                   /\ \A i \in 1 .. Len(L[t]) : M[t][i] = L[t][i]

LEMMA ExtendsAgrees ==
    ASSUME NEW L \in Logs, NEW M \in Logs, Extends(L, M), NEW a \in Seq(Entry), Agrees(L, a)
    PROVE  Agrees(M, a)
  <1> SUFFICES ASSUME NEW i \in 1 .. Len(a)
               PROVE  /\ i <= Len(M[a[i].term])
                      /\ \A j \in 1 .. i : a[j] = M[a[i].term][j]
    BY DEF Agrees
  <1>1. PICK t \in Nat : t = a[i].term
    <2>1. a[i] \in Entry
      OBVIOUS
    <2> QED  BY <2>1 DEF Entry
  <1>2. i <= Len(L[t]) /\ \A j \in 1 .. i : a[j] = L[t][j]
    <2>1. i <= Len(L[a[i].term]) /\ \A j \in 1 .. i : a[j] = L[a[i].term][j]
      BY DEF Agrees
    <2> QED  BY <1>1, <2>1
  <1>3. Len(L[t]) \in Nat /\ Len(M[t]) \in Nat
    <2>1. L[t] \in Seq(Entry) /\ M[t] \in Seq(Entry)
      BY DEF Logs
    <2> QED  BY <2>1
  <1>4. Len(L[t]) <= Len(M[t]) /\ \A j \in 1 .. Len(L[t]) : M[t][j] = L[t][j]
    BY DEF Extends
  <1> QED  BY <1>1, <1>2, <1>3, <1>4

LEMMA ExtendsCarries ==
    ASSUME NEW L \in Logs, NEW M \in Logs, Extends(L, M), NEW x, MessageOK(x),
           x.type = "AppendEntries", Carries(L[x.term], x)
    PROVE  Carries(M[x.term], x)
  <1>1. x.term \in Nat /\ x.prev_log_index \in Nat /\ Len(x.entries) \in Nat
        /\ Len(L[x.term]) \in Nat /\ Len(M[x.term]) \in Nat
    <2>1. x.term \in Nat /\ x.prev_log_index \in Nat /\ x.entries \in Seq(Entry)
      BY DEF MessageOK
    <2>2. L[x.term] \in Seq(Entry) /\ M[x.term] \in Seq(Entry)
      BY <2>1 DEF Logs
    <2> QED  BY <2>1, <2>2
  <1>2. Len(L[x.term]) <= Len(M[x.term])
        /\ \A j \in 1 .. Len(L[x.term]) : M[x.term][j] = L[x.term][j]
    BY <1>1 DEF Extends
  <1>3. x.prev_log_index + Len(x.entries) <= Len(L[x.term])
        /\ (\A k \in 1 .. Len(x.entries) : x.entries[k] = L[x.term][x.prev_log_index + k])
        /\ (x.prev_log_index > 0 => x.prev_log_term = L[x.term][x.prev_log_index].term)
    BY DEF Carries
  <1>4. ASSUME NEW k \in 1 .. Len(x.entries)
        PROVE  x.entries[k] = M[x.term][x.prev_log_index + k]
    <2>1. x.prev_log_index + k \in 1 .. Len(L[x.term])
      BY <1>1, <1>3
    <2> QED  BY <1>2, <1>3, <2>1
  <1>5. x.prev_log_index > 0 => x.prev_log_term = M[x.term][x.prev_log_index].term
    <2>1. x.prev_log_index > 0 => x.prev_log_index \in 1 .. Len(L[x.term])
      BY <1>1, <1>3
    <2> QED  BY <1>2, <1>3, <2>1
  <1>6. x.prev_log_index + Len(x.entries) <= Len(M[x.term])
    BY <1>1, <1>2, <1>3
  <1> QED  BY <1>4, <1>5, <1>6 DEF Carries

\* What a leader sends is in its log.
LEMMA BuildCarries ==
    ASSUME NEW n \in Node, NEW c \in Core, Whole(c), NEW peer \in Node, NEW x,
           x = build_append_entries_for_peer(n, c, peer), x.type = "AppendEntries"
    PROVE  Carries(c.log, x) /\ x.term = c.current_term /\ x.leader_commit = c.commit_index
  <1> DEFINE next == IF c.next_index[peer] = None THEN last_log_index(c)
                     ELSE c.next_index[peer]
             prev == IF next > 0 THEN next - 1 ELSE 0
             slice == log_slice(c, next, last_log_index(c) + 1)
             snapshot == install_snapshot_for_peer(n, c, peer)
             entries == [ type |-> "AppendEntries", from |-> n, to |-> peer,
                          term |-> c.current_term,
                          prev_log_index |-> prev, prev_log_term |-> log_term_at(c, prev),
                          entries |-> slice, leader_commit |-> c.commit_index ]
  <1>1. build_append_entries_for_peer(n, c, peer) =
            IF log_term_at(c, prev) = None THEN snapshot ELSE entries
    BY Zenon DEF build_append_entries_for_peer
  <1>2. last_log_index(c) = Len(c.log) /\ Len(c.log) \in Nat /\ c.log \in Seq(Entry)
        /\ c.last_included_index = 0
    BY WholeLog DEF Core, Whole
  <1>3. next \in Nat
    BY <1>2 DEF Core, Option
  <1>4. prev \in Nat /\ (next > 0 => next = prev + 1) /\ (next = 0 => prev = 0)
    BY <1>3
  <1> HIDE DEF next, prev
  <1>5. snapshot.type # "AppendEntries"
    BY DEF install_snapshot_for_peer
  <1>6. log_term_at(c, prev) # None /\ x = entries
    <2> HIDE DEF snapshot, entries
    <2> QED  BY <1>1, <1>5
  <1>7. prev <= Len(c.log)
    BY <1>2, <1>4, <1>6, LogTermAt
  <1>8. slice \in Seq(Entry) /\ prev + Len(slice) <= Len(c.log)
        /\ \A k \in 1 .. Len(slice) : slice[k] = c.log[prev + k]
    <2>1. CASE next = 0
      <3>1. slice = << >> /\ << >> \in Seq(Entry) /\ Len(<< >>) = 0
        BY <1>2, <2>1 DEF log_slice
      <3> HIDE DEF slice
      <3> QED  BY <1>2, <1>4, <1>7, <3>1
    <2>2. CASE next # 0
      <3>1. next \in 1 .. Len(c.log) + 1 /\ next = prev + 1 /\ next \in Nat \ {0}
        BY <1>2, <1>3, <1>4, <1>7, <2>2
      <3>2. slice = SubSeq(c.log, next, Len(c.log))
        BY <1>2, <3>1, WholeLog
      <3> DEFINE tail == SubSeq(c.log, next, Len(c.log))
      <3>3. tail \in Seq(Entry) /\ Len(tail) = Len(c.log) + 1 - next
            /\ \A k \in 1 .. Len(tail) : next + k - 1 \in 1 .. Len(c.log)
                                        /\ tail[k] = c.log[next + k - 1]
        BY <1>2, <3>1, TailOK
      <3> HIDE DEF tail, slice
      <3>4. slice = tail
        BY <3>2 DEF tail
      <3>5. \A k \in 1 .. Len(tail) : next + k - 1 = prev + k
        BY <3>1, <1>4, <3>3
      <3>6. prev + Len(slice) <= Len(c.log)
        <4>1. Len(slice) = Len(c.log) + 1 - next
          BY <3>3, <3>4
        <4>2. PICK p \in Nat, b \in Nat : p = prev /\ b = Len(c.log) /\ next = p + 1
          BY <1>2, <1>4, <3>1
        <4>3. p + (b + 1 - (p + 1)) <= b
          OBVIOUS
        <4> QED  BY <4>1, <4>2, <4>3
      <3>7. ASSUME NEW k \in 1 .. Len(slice) PROVE slice[k] = c.log[prev + k]
        <4>1. k \in 1 .. Len(tail) /\ slice[k] = tail[k]
          BY <3>4
        <4>2. tail[k] = c.log[next + k - 1] /\ next + k - 1 = prev + k
          BY <3>3, <3>5, <4>1
        <4> QED  BY <4>1, <4>2
      <3> QED  BY <3>3, <3>4, <3>6, <3>7
    <2> QED  BY <1>3, <2>1, <2>2
  <1>9. prev > 0 => log_term_at(c, prev) = c.log[prev].term
    <2>1. prev > 0 => prev \in 1 .. Len(c.log)
      BY <1>2, <1>4, <1>7
    <2> QED  BY <2>1, WholeLog
  <1> HIDE DEF slice
  <1>10. x.prev_log_index = prev /\ x.entries = slice /\ x.prev_log_term = log_term_at(c, prev)
         /\ x.term = c.current_term /\ x.leader_commit = c.commit_index
    BY <1>6
  <1> QED  BY <1>4, <1>8, <1>9, <1>10 DEF Carries

\* A follower that accepts entries has the log of the message's leader up to
\* the last of them, and what it had if it had them all before.
LEMMA AcceptedLog ==
    ASSUME NEW L \in Logs, NEW c \in Core, Whole(c), NEW m, MessageOK(m),
           m.type = "AppendEntries", Agrees(L, c.log), Agrees(L, L[m.term]),
           Carries(L[m.term], m), NEW n, NEW r, r.core \in Core, Accepts(n, c, m, r)
    PROVE  LET b == m.prev_log_index + Len(m.entries) IN
           /\ b <= Len(r.core.log) /\ b <= Len(L[m.term])
           /\ \A i \in 1 .. b : r.core.log[i] = L[m.term][i]
           /\ r.core.log = c.log \/ Len(r.core.log) = b
           /\ Agrees(L, r.core.log)
  <1> DEFINE prev == m.prev_log_index
             old == c.log
             lead == L[m.term]
             entries == m.entries
             differs == {k \in 1 .. Len(entries) :
                             log_term_at(c, prev + k) # entries[k].term}
             first == Min(differs)
             now == r.core.log
             b == prev + Len(entries)
  <1>1. m.term \in Nat /\ prev \in Nat /\ entries \in Seq(Entry) /\ Len(entries) \in Nat
        /\ old \in Seq(Entry) /\ Len(old) \in Nat /\ now \in Seq(Entry)
        /\ Len(now) \in Nat /\ b \in Nat
    <2>1. m.term \in Nat /\ prev \in Nat /\ entries \in Seq(Entry)
      BY DEF MessageOK
    <2>2. old \in Seq(Entry) /\ now \in Seq(Entry)
      BY DEF Core
    <2> QED  BY <2>1, <2>2
  <1>2. lead \in Seq(Entry) /\ Len(lead) \in Nat
    <2>1. lead \in Seq(Entry)
      BY <1>1 DEF Logs
    <2> QED  BY <2>1
  <1>3. valid(c, m) /\ now = Overwrite(c, prev, entries).log
    BY DEF Accepts
  <1>4. /\ last_log_index(c) = Len(old)
        /\ \A i \in 1 .. Len(old) : log_term_at(c, i) = old[i].term
        /\ \A i \in Nat : i > Len(old) => log_term_at(c, i) = None
    BY WholeLog
  <1>5. /\ b <= Len(lead)
        /\ \A k \in 1 .. Len(entries) : entries[k] = lead[prev + k]
        /\ prev > 0 => m.prev_log_term = lead[prev].term
    BY DEF Carries
  <1>6. prev <= Len(old)
    BY <1>1, <1>3, <1>4 DEF valid
  <1> HIDE DEF lead, old, now, b
  <1>7. ASSUME NEW i \in Nat, i = 0 \/ (i <= Len(lead) /\ log_term_at(c, i) = lead[i].term)
        PROVE  i <= Len(old) /\ \A j \in 1 .. i : old[j] = lead[j]
    <2>1. CASE i = 0
      BY <1>1, <2>1
    <2>2. CASE i # 0
      <3>1. i \in 1 .. Len(lead) /\ i >= 1
        BY <1>2, <1>7, <2>2
      <3>2. lead[i].term \in Nat
        <4>1. lead[i] \in Entry
          BY <1>2, <3>1
        <4> QED  BY <4>1 DEF Entry
      <3>3. i <= Len(old)
        BY <1>1, <1>4, <1>7, <2>2, <3>2, CoreAssumption
      <3>4. old[i].term = lead[i].term
        BY <1>1, <1>4, <1>7, <2>2, <3>1, <3>3
      <3>5. Agrees(L, old) /\ Agrees(L, lead)
        BY DEF old, lead
      <3> QED  BY <1>1, <1>2, <3>1, <3>3, <3>4, <3>5, SameUpTo
    <2> QED  BY <2>1, <2>2
  <1>8. \A j \in 1 .. prev : old[j] = lead[j]
    <2>1. CASE prev = 0
      BY <2>1
    <2>2. CASE prev # 0
      <3>1. log_term_at(c, prev) = m.prev_log_term /\ prev > 0
        BY <1>1, <1>3, <2>2 DEF valid
      <3>2. prev <= Len(lead)
        BY <1>1, <1>2, <1>5 DEF b
      <3> QED  BY <1>1, <1>5, <1>7, <3>1, <3>2
    <2> QED  BY <2>1, <2>2
  <1>9. ASSUME NEW k \in 0 .. Len(entries), k # 0 => k \notin differs
        PROVE  prev + k <= Len(old) /\ \A j \in 1 .. prev + k : old[j] = lead[j]
    <2>1. CASE k = 0
      BY <1>1, <1>6, <1>8, <2>1
    <2>2. CASE k # 0
      <3>1. k \in 1 .. Len(entries) /\ k \notin differs
        BY <1>1, <1>9, <2>2
      <3>2. log_term_at(c, prev + k) = lead[prev + k].term
        BY <1>5, <3>1
      <3>3. PICK i \in Nat : i = prev + k /\ i <= Len(lead)
        BY <1>1, <1>2, <1>5, <3>1 DEF b
      <3> QED  BY <1>7, <3>2, <3>3
    <2> QED  BY <2>1, <2>2
  <1>10. /\ b <= Len(now) /\ \A i \in 1 .. b : now[i] = lead[i]
         /\ now = old \/ Len(now) = b
    <2>1. CASE differs = {}
      <3>1. now = old
        BY <1>3, <2>1 DEF Overwrite, old
      <3>2. Len(entries) \in 0 .. Len(entries) /\ Len(entries) \notin differs
        <4> HIDE DEF differs
        <4> QED  BY <1>1, <2>1
      <3>3. b <= Len(old) /\ \A j \in 1 .. b : old[j] = lead[j]
        BY <1>9, <3>2 DEF b
      <3> QED  BY <3>1, <3>3
    <2>2. CASE differs # {}
      <3>1. Overwrite(c, prev, entries) =
                [c EXCEPT !.log = SubSeq(c.log, 1, prev + first - 1 - c.last_included_index)
                                  \o SubSeq(entries, first, Len(entries))]
        BY <2>2 DEF Overwrite
      <3>2. first \in 1 .. Len(entries) /\ \A k \in differs : first <= k
        <4>1. differs \subseteq Nat
          BY <1>1
        <4>2. first \in differs /\ \A k \in differs : first <= k
          BY <2>2, <4>1, MinNat
        <4> QED  BY <4>2
      <3> HIDE DEF first
      <3>3. first - 1 \in 0 .. Len(entries) /\ first - 1 \notin differs
        BY <1>1, <3>2
      <3> HIDE DEF differs, prev, entries
      <3>4. PICK p \in Nat : p = prev + (first - 1)
        BY <1>1, <3>3
      <3>5. p <= Len(old) /\ \A j \in 1 .. p : old[j] = lead[j]
        BY <1>9, <3>3, <3>4
      <3>6. p = prev + first - 1 - c.last_included_index
        BY <1>1, <3>2, <3>4 DEF Whole
      <3> DEFINE head == SubSeq(old, 1, p)
                 tail == SubSeq(entries, first, Len(entries))
      <3>7. now = head \o tail
        BY <1>3, <3>1, <3>6 DEF Core, old
      <3>8. head \in Seq(Entry) /\ Len(head) = p /\ \A j \in 1 .. p : head[j] = old[j]
        BY <1>1, <3>4, <3>5
      <3>9. tail \in Seq(Entry) /\ Len(tail) = Len(entries) + 1 - first
            /\ \A k \in 1 .. Len(tail) : first + k - 1 \in 1 .. Len(entries)
                                        /\ tail[k] = entries[first + k - 1]
        BY <1>1, <3>2, TailOK
      <3> HIDE DEF head, tail
      <3>10. Len(now) = p + Len(tail)
             /\ \A i \in 1 .. p + Len(tail) :
                   now[i] = IF i <= p THEN head[i] ELSE tail[i - p]
        BY <3>7, <3>8, <3>9, ConcatProperties
      <3>11. Len(now) = b
        <4>1. PICK e \in Nat, f \in Nat : e = Len(entries) /\ f = first
          BY <1>1, <3>2
        <4>2. Len(tail) = e + 1 - f /\ p = prev + (f - 1)
          BY <3>4, <3>9, <4>1
        <4>3. Len(now) = prev + e
          BY <1>1, <3>10, <4>1, <4>2
        <4> QED  BY <4>1, <4>3 DEF b
      <3>12. ASSUME NEW i \in 1 .. b PROVE now[i] = lead[i]
        <4>1. CASE i <= p
          <5>1. i \in 1 .. p
            BY <4>1
          <5> QED  BY <3>5, <3>8, <3>10, <3>11, <4>1, <5>1
        <4>2. CASE ~(i <= p)
          <5>1. PICK k \in 1 .. Len(tail) : i - p = k
            <6>1. b = p + Len(tail) /\ Len(tail) \in Nat
              BY <3>9, <3>10, <3>11
            <6>2. i - p \in 1 .. Len(tail)
              BY <3>4, <4>2, <6>1
            <6> QED  BY <6>2
          <5>2. now[i] = tail[k]
            BY <3>10, <3>11, <4>2, <5>1
          <5>3. first + k - 1 \in 1 .. Len(entries) /\ tail[k] = entries[first + k - 1]
            BY <3>9
          <5>4. PICK q \in 1 .. Len(entries) : q = first + k - 1
            BY <5>3
          <5>5. prev + q = i
            BY <1>1, <3>2, <3>4, <5>1, <5>4
          <5> QED  BY <1>5, <5>2, <5>3, <5>4, <5>5
        <4> QED  BY <4>1, <4>2
      <3>13. b <= Len(now)
        BY <1>1, <3>11
      <3> QED  BY <3>11, <3>12, <3>13
    <2> QED  BY <2>1, <2>2
  <1>11. Agrees(L, now)
    <2>1. CASE now = old
      BY <2>1 DEF old
    <2>2. CASE Len(now) = b
      <3>1. Agrees(L, lead)
        BY DEF lead
      <3> QED  BY <1>1, <1>2, <1>5, <1>10, <2>2, <3>1, PrefixAgrees
    <2> QED  BY <1>10, <2>1, <2>2
  <1> QED  BY <1>5, <1>10, <1>11 DEF b, lead, old, now

(***************************************************************************)
(* What an input does to a node's log and role, as long as no late         *)
(* response is delivered.                                                  *)
(***************************************************************************)
\* The log stays, and whoever leads now has led before.
Stays(c, r) ==
    /\ r.core.log = c.log /\ Whole(r.core)
    /\ r.core.state = Leader => c.state = Leader /\ r.core.current_term = c.current_term

PushesOne(n, c, r) ==
    \E command \in Command \cup {Noop} :
        Pushes(n, c, r, command) /\ c.state \in {Candidate, Leader}

\* A leader builds AppendEntries from its own log.
SendsOwn(n, r) ==
    \A x \in r.acts.send : x.type = "AppendEntries" /\ r.core.state = Leader =>
        \E peer \in Node : x = build_append_entries_for_peer(n, r.core, peer)

\* Nobody starts to campaign in a term it has already.
Campaigns(c, r) ==
    r.core.state = Candidate /\ r.core.current_term = c.current_term => c.state = Candidate

Acts(n, c, r) ==
    /\ \/ Stays(c, r) \/ PushesOne(n, c, r)
       \/ \E m \in net : m.type = "AppendEntries" /\ Accepts(n, c, m, r)
    /\ SendsOwn(n, r) /\ Campaigns(c, r)
    /\ r.core.state = Leader => ByMajority(r.core.current_term, n)

LEMMA InputActs ==
    ASSUME InSessionOnly, IInv, ElectionInv, Files, NEW n \in Node, NEW r, NEW pending,
           Input(n, r, pending)
    PROVE  Acts(n, core[n], r)
  <1> DEFINE c == core[n]
  <1>1. c \in Core /\ c.last_applied = c.commit_index /\ TypeOK /\ Whole(c)
    BY StateOK DEF IInv, Files, NodeFiles
  <1>2. r.core \in Core /\ MetaOK(c, r) /\ StepOK(n, c, r)
    BY InputOK DEF StepOK, ResultOK
  <1>3. r.core.current_term >= c.current_term /\ r.core.current_term \in Nat
        /\ c.current_term \in Nat
    BY <1>1, <1>2, TermGrows DEF Core
  <1>4. ASSUME Earned(n, r), r.core.state = Leader PROVE ByMajority(r.core.current_term, n)
    <2>1. CASE [term |-> r.core.current_term, node |-> n] \in leaders
      BY <2>1 DEF ElectionInv, LeadersAreElected
    <2> QED  BY <1>4, <2>1 DEF Earned
  <1>5. ASSUME RoleOK(c, r) PROVE Earned(n, r) /\ Campaigns(c, r)
    <2>1. Earned(n, r)
      BY <1>5, RoleEarned
    <2> QED  BY <1>5, <2>1 DEF RoleOK, Campaigns, Candidate, Follower
  <1>6. ASSUME RoleOK(c, r), SameLog(c, r.core) PROVE Stays(c, r)
    BY <1>1, <1>6 DEF SameLog, Whole, Stays, RoleOK, Leader, Follower
  <1>7. ASSUME r.core.state = Leader, r.acts.send = append_entries(n, r.core)
        PROVE  SendsOwn(n, r)
    BY <1>7 DEF append_entries, SendsOwn, Peers
  <1>8. ASSUME NEW command \in Command \cup {Noop}, Pushes(n, c, r, command),
               c.state \in {Candidate, Leader}
        PROVE  PushesOne(n, c, r) /\ SendsOwn(n, r) /\ Campaigns(c, r)
    <2>1. r.core.state = Leader /\ r.acts.send = append_entries(n, r.core)
      BY <1>8 DEF Pushes
    <2>2. Campaigns(c, r)
      BY <2>1 DEF Campaigns, Leader, Candidate
    <2> QED  BY <1>7, <1>8, <2>1, <2>2 DEF PushesOne
  <1>9. ASSUME \A x \in r.acts.send : x.type # "AppendEntries" PROVE SendsOwn(n, r)
    BY <1>9 DEF SendsOwn
  <1> SUFFICES Acts(n, c, r)
    OBVIOUS
  <1>10. CASE is_leader(c) /\ r = heartbeat(n, c)
    <2>1. Idle(c, r) /\ r.core = c /\ RoleOK(c, r)
      BY <1>1, <1>10, HeartbeatIdle, HeartbeatOK
    <2>2. r.acts.send = append_entries(n, r.core)
      <3> DEFINE sent == append_entries(n, c)
      <3>1. r = Returns(c, [NoActions EXCEPT !.send = sent])
        BY <1>10 DEF heartbeat
      <3> HIDE DEF sent
      <3>2. r.acts.send = sent /\ r.core = c
        BY <3>1 DEF Returns, NoActions
      <3> QED  BY <3>2 DEF sent
    <2>3. SendsOwn(n, r)
      BY <1>7, <1>10, <2>1, <2>2 DEF is_leader
    <2> QED  BY <1>4, <1>5, <1>6, <2>1, <2>3 DEF Acts, Idle
  <1>11. CASE ~is_leader(c) /\ r = election_timeout(n, c)
    <2>1. Idle(c, r) /\ \A x \in r.acts.send : x.type = "RequestVote"
      BY <1>1, <1>11, ElectionTimeoutIdle DEF is_leader
    <2>2. r.core.current_term = c.current_term + 1 /\ r.core.state = Candidate
      BY <1>1, <1>11, ElectionTimeoutOK
    <2>3. SendsOwn(n, r)
      BY <1>9, <2>1
    <2>4. Stays(c, r)
      BY <1>1, <2>1, <2>2 DEF Stays, Idle, SameLog, Whole, Candidate, Leader
    <2>5. Campaigns(c, r) /\ r.core.state # Leader
      BY <1>3, <2>2 DEF Campaigns, Candidate, Leader
    <2> QED  BY <2>3, <2>4, <2>5 DEF Acts
  <1>12. CASE \E command \in Command : is_leader(c) /\ r = propose(n, c, command)
    <2>1. PICK command \in Command : is_leader(c) /\ r = propose(n, c, command)
      BY <1>12
    <2>2. Pushes(n, c, r, command) /\ RoleOK(c, r) /\ c.state \in {Candidate, Leader}
      BY <1>1, <2>1, ProposePushes, ProposeOK DEF is_leader
    <2> QED  BY <1>4, <1>5, <1>8, <2>2 DEF Acts
  <1>13. CASE \E m \in net : Message(n, m, r)
    <2>1. PICK m \in net : Message(n, m, r)
      BY <1>13
    <2>2. MessageOK(m) /\ PlainMessage(m) /\ m.term \in Nat /\ m.to = n /\ InSession(m)
      BY <1>1, <2>1 DEF TypeOK, Files, MessageOK, Message
    <2>3. CASE r = handle_request_vote(n, c, m)
      <3>1. Idle(c, r) /\ Answers(n, m, r, "RequestVoteResponse") /\ RoleOK(c, r)
        BY <1>1, <2>2, <2>3, RequestVoteIdle, RequestVoteOK
      <3>2. SendsOwn(n, r)
        BY <1>9, <3>1 DEF Answers
      <3> QED  BY <1>4, <1>5, <1>6, <3>1, <3>2 DEF Acts, Idle
    <2>4. CASE m.type = "RequestVoteResponse" /\ r = handle_request_vote_response(n, c, m)
      <3>1. m.term >= c.current_term
        BY <2>2, <2>4 DEF InSession, c
      <3>2. Earned(n, r) /\ ElectOK(c, m, r)
        BY <1>1, <2>2, <2>4, <3>1, ResponseEarned, RequestVoteResponseOK
      <3>3. CASE Idle(c, r) /\ r.acts.send = {}
        <4>1. SendsOwn(n, r) /\ SameLog(c, r.core) /\ SameReads(c, r.core)
          BY <1>9, <3>3 DEF Idle
        <4>2. Campaigns(c, r)
          BY <3>2 DEF ElectOK, Campaigns
        <4>3. CASE r.core.state = Leader => c.state = Leader
          <5>1. r.core.state = Leader => r.core.current_term = c.current_term
            BY <3>2 DEF ElectOK, Leader, Follower
          <5>2. Stays(c, r)
            BY <1>1, <4>1, <4>3, <5>1 DEF Stays, SameLog, Whole
          <5> QED  BY <1>4, <3>2, <4>1, <4>2, <5>2 DEF Acts
        <4>4. r.core.state = Leader => c.state = Leader
          BY <4>1 DEF SameReads
        <4> QED  BY <4>3, <4>4
      <3>4. CASE c.state = Candidate /\ Pushes(n, c, r, Noop)
        <4>1. PushesOne(n, c, r) /\ SendsOwn(n, r) /\ Campaigns(c, r)
          BY <1>8, <3>4
        <4> QED  BY <1>4, <3>2, <4>1 DEF Acts
      <3> QED  BY <1>1, <2>2, <2>4, <3>3, <3>4, RequestVoteResponseKeeps
    <2>5. CASE m.type = "AppendEntries" /\ r = handle_append_entries(n, c, m)
      <3>1. RoleOK(c, r)
        BY <1>1, <2>2, <2>5, AppendEntriesOK
      <3>2. CASE Refuses(n, c, m, r)
        <4>1. SendsOwn(n, r)
          BY <1>9, <3>2 DEF Refuses, Answers
        <4> QED  BY <1>4, <1>5, <1>6, <3>1, <3>2, <4>1 DEF Acts, Refuses, Idle
      <3>3. CASE Accepts(n, c, m, r)
        <4>1. \A x \in r.acts.send : x.type = "AppendEntriesResponse"
          BY <3>3 DEF Accepts
        <4>2. SendsOwn(n, r)
          BY <1>9, <4>1
        <4> QED  BY <1>4, <1>5, <2>5, <3>1, <3>3, <4>2 DEF Acts
      <3> QED  BY <1>1, <2>2, <2>5, <3>2, <3>3, AppendEntriesKeeps
    <2>6. CASE m.type = "AppendEntriesResponse"
               /\ r = handle_append_entries_response(n, c, m)
      <3>1. RoleOK(c, r) /\ m.success \in BOOLEAN /\ m.from \in Node
        BY <1>1, <2>2, <2>6, AppendEntriesResponseOK DEF MessageOK
      <3>3. CASE ~m.success
        <4>1. Idle(c, r) /\ r.core.state = check_msg_term(c, m.term).state
              /\ r.acts.send = {build_append_entries_for_peer(n, r.core, m.from)}
          BY <1>1, <2>2, <2>6, <3>3, AppendEntriesResponseKeeps
        <4>3. SendsOwn(n, r)
          BY <3>1, <4>1 DEF SendsOwn
        <4> QED  BY <1>4, <1>5, <1>6, <3>1, <4>1, <4>3 DEF Acts, Idle
      <3>4. CASE m.success
        <4>1. Commits(c, m, r)
          BY <1>1, <2>2, <2>6, <3>4, AppendEntriesResponseKeeps
        <4>2. r.core.log = c.log /\ Whole(r.core) /\ r.acts.send = {}
          <5>1. PICK d \in Core : \E commit :
                    /\ SameLog(c, d)
                    /\ SameLog([d EXCEPT !.commit_index = commit, !.last_applied = commit],
                               r.core)
                    /\ r.acts.send = {}
            BY <4>1 DEF Commits
          <5> QED  BY <1>1, <5>1 DEF SameLog, Core, Whole
        <4>3. SendsOwn(n, r)
          BY <1>9, <4>2
        <4>4. Stays(c, r)
          BY <3>1, <4>2 DEF Stays, RoleOK, Leader, Follower
        <4> QED  BY <1>4, <1>5, <3>1, <4>3, <4>4 DEF Acts
      <3> QED  BY <3>1, <3>3, <3>4
    <2>7. m.type \notin {"InstallSnapshot", "InstallSnapshotResponse"}
      BY <2>2 DEF PlainMessage
    <2> QED  BY <2>1, <2>3, <2>4, <2>5, <2>6, <2>7 DEF Message
  <1> QED  BY <1>10, <1>11, <1>12, <1>13 DEF Input

\* Two winners of one term are the same node.
LEMMA OneWinner ==
    ASSUME VoteOncePerTerm, NEW t, NEW a, NEW b, ByMajority(t, a), ByMajority(t, b)
    PROVE  a = b
  <1>1. PICK Q \in SUBSET Node :
            2 * Cardinality(Q) > Cardinality(Node) /\ \A q \in Q : Vote(t, q, a) \in votes
    BY DEF ByMajority
  <1>2. PICK R \in SUBSET Node :
            2 * Cardinality(R) > Cardinality(Node) /\ \A q \in R : Vote(t, q, b) \in votes
    BY DEF ByMajority
  <1>3. PICK q : q \in Q /\ q \in R
    BY <1>1, <1>2, Majorities
  <1> DEFINE v == Vote(t, q, a)
             w == Vote(t, q, b)
  <1>4. v \in votes /\ w \in votes
    BY <1>1, <1>2, <1>3
  <1>5. v.term = t /\ v.voter = q /\ v.candidate = a
        /\ w.term = t /\ w.voter = q /\ w.candidate = b
    BY DEF Vote
  <1> HIDE DEF v, w
  <1> QED  BY <1>4, <1>5 DEF VoteOncePerTerm

-----------------------------------------------------------------------------
(***************************************************************************)
(* The leaders' logs after an input.                                       *)
(***************************************************************************)
Grow(L, r) ==
    IF r.core.state = Leader THEN [L EXCEPT ![r.core.current_term] = r.core.log] ELSE L

LEMMA GrowLogs ==
    ASSUME NEW L \in Logs, NEW r, r.core \in Core
    PROVE  /\ Grow(L, r) \in Logs
           /\ r.core.state = Leader => Grow(L, r)[r.core.current_term] = r.core.log
           /\ \A t \in Nat : r.core.state # Leader \/ t # r.core.current_term =>
                                 Grow(L, r)[t] = L[t]
  <1>1. r.core.current_term \in Nat /\ r.core.log \in Seq(Entry)
    BY DEF Core
  <1> QED  BY <1>1 DEF Grow, Logs

\* The winner of an election has no earlier log of that term, and what a
\* leader has is its own: it only appends.
LEMMA InputExtends ==
    ASSUME IInv, ElectionInv, Files, NEW L \in Logs, LogInv(L), NEW n \in Node, NEW r,
           r.core \in Core, Acts(n, core[n], r)
    PROVE  LET M == Grow(L, r) IN
           /\ Extends(L, M)
           /\ Agrees(M, r.core.log) /\ (\A t \in Nat : Agrees(M, M[t]))
           /\ \A x \in r.acts.send : x.type = "AppendEntries" /\ r.core.state = Leader =>
                 Carries(M[x.term], x)
  <1> DEFINE c == core[n]
             t == r.core.current_term
             M == Grow(L, r)
  <1>1. c \in Core /\ TypeOK /\ Whole(c) /\ t \in Nat /\ c.log \in Seq(Entry)
        /\ r.core.log \in Seq(Entry) /\ c.current_term \in Nat
    <2>1. c \in Core /\ TypeOK /\ Whole(c)
      BY StateOK DEF IInv, Files, NodeFiles
    <2> QED  BY <2>1 DEF Core
  <1>2. /\ M \in Logs /\ (r.core.state = Leader => M[t] = r.core.log)
        /\ \A u \in Nat : r.core.state # Leader \/ u # t => M[u] = L[u]
    BY GrowLogs
  <1>3. Agrees(L, c.log) /\ (c.state = Leader => L[c.current_term] = c.log)
    BY DEF LogInv, is_leader
  <1>4. \A u \in Nat : L[u] \in Seq(Entry) /\ M[u] \in Seq(Entry)
    BY <1>2 DEF Logs
  <1> HIDE DEF M
  <1>5. ASSUME r.core.state = Leader => Len(L[t]) <= Len(r.core.log)
                                        /\ \A i \in 1 .. Len(L[t]) : r.core.log[i] = L[t][i]
        PROVE  Extends(L, M)
    <2> SUFFICES ASSUME NEW u \in Nat
                 PROVE  /\ Len(L[u]) <= Len(M[u])
                        /\ \A i \in 1 .. Len(L[u]) : M[u][i] = L[u][i]
      BY DEF Extends
    <2>1. CASE r.core.state = Leader /\ u = t
      BY <1>2, <1>5, <2>1
    <2>2. CASE r.core.state # Leader \/ u # t
      <3>1. Len(L[u]) \in Nat
        BY <1>4
      <3> QED  BY <1>2, <2>2, <3>1
    <2> QED  BY <2>1, <2>2
  <1>6. ASSUME Extends(L, M), Agrees(M, r.core.log)
        PROVE  \A u \in Nat : Agrees(M, M[u])
    <2> SUFFICES ASSUME NEW u \in Nat PROVE Agrees(M, M[u])
      OBVIOUS
    <2>1. CASE r.core.state = Leader /\ u = t
      BY <1>2, <1>6, <2>1
    <2>2. CASE r.core.state # Leader \/ u # t
      <3>1. Agrees(L, L[u])
        BY DEF LogInv
      <3>2. Agrees(M, L[u])
        BY <1>2, <1>4, <1>6, <3>1, ExtendsAgrees
      <3> QED  BY <1>2, <2>2, <3>2
    <2> QED  BY <2>1, <2>2
  <1>7. Extends(L, M) /\ Agrees(M, r.core.log) /\ Whole(r.core)
    <2>1. CASE Stays(c, r)
      <3>1. r.core.state = Leader => L[t] = r.core.log
        BY <1>3, <2>1 DEF Stays
      <3>2. Len(r.core.log) \in Nat
        BY <1>1
      <3>3. Extends(L, M)
        BY <1>5, <3>1, <3>2
      <3> QED  BY <1>1, <1>2, <1>3, <2>1, <3>3, ExtendsAgrees DEF Stays
    <2>2. CASE PushesOne(n, c, r)
      <3>1. PICK command \in Command \cup {Noop} :
                Pushes(n, c, r, command) /\ c.state \in {Candidate, Leader}
        BY <2>2 DEF PushesOne
      <3> DEFINE e == [term |-> c.current_term, command |-> command]
      <3>2. /\ r.core.log = Append(c.log, e) /\ t = c.current_term /\ r.core.state = Leader
            /\ SameLog([c EXCEPT !.log = r.core.log], r.core)
        BY <3>1 DEF Pushes
      <3>3. Whole(r.core)
        BY <1>1, <3>2 DEF SameLog, Whole, Core
      <3>4. e.term = t /\ e \in Entry
        BY <1>1, <3>2 DEF Entry
      <3> HIDE DEF e
      <3>5. /\ Len(c.log) \in Nat /\ Len(r.core.log) = Len(c.log) + 1
            /\ r.core.log[Len(c.log) + 1] = e
            /\ \A k \in 1 .. Len(c.log) : r.core.log[k] = c.log[k]
        BY <1>1, <3>2, <3>4, AppendProperties
      <3>6. L[t] = c.log \/ L[t] = << >>
        <4>1. CASE c.state = Leader
          BY <1>3, <3>2, <4>1
        <4>2. CASE c.state = Candidate /\ L[t] # << >>
          <5>1. PICK k \in Node : Won(t, k)
            BY <1>1, <4>2 DEF LogInv
          <5>2. ByMajority(t, n)
            BY <3>2 DEF Acts
          <5>3. k = n
            BY <5>1, <5>2, OneWinner DEF Won, IInv, VoteInv
          <5> QED  BY <1>1, <3>2, <4>2, <5>1, <5>3 DEF Won
        <4> QED  BY <3>1, <4>1, <4>2
      <3>7. Len(L[t]) <= Len(r.core.log)
            /\ \A i \in 1 .. Len(L[t]) : r.core.log[i] = L[t][i]
        <4>1. CASE L[t] = c.log
          BY <3>5, <4>1
        <4>2. CASE L[t] = << >>
          BY <3>5, <4>2
        <4> QED  BY <3>6, <4>1, <4>2
      <3>8. Extends(L, M)
        BY <1>5, <3>7
      <3>9. Agrees(M, c.log)
        BY <1>1, <1>2, <1>3, <3>8, ExtendsAgrees
      <3>10. Agrees(M, r.core.log)
        <4> SUFFICES ASSUME NEW i \in 1 .. Len(r.core.log)
                     PROVE  /\ i <= Len(M[r.core.log[i].term])
                            /\ \A j \in 1 .. i :
                                  r.core.log[j] = M[r.core.log[i].term][j]
          BY DEF Agrees
        <4>1. CASE i \in 1 .. Len(c.log)
          <5>1. i <= Len(M[c.log[i].term])
                /\ \A j \in 1 .. i : c.log[j] = M[c.log[i].term][j]
            BY <3>9, <4>1 DEF Agrees
          <5>2. r.core.log[i] = c.log[i] /\ \A j \in 1 .. i : r.core.log[j] = c.log[j]
            BY <3>5, <4>1
          <5> QED  BY <5>1, <5>2
        <4>2. CASE i = Len(c.log) + 1
          <5>1. r.core.log[i].term = t
            BY <3>4, <3>5, <4>2
          <5>2. M[t] = r.core.log
            BY <1>2, <3>2
          <5> QED  BY <5>1, <5>2
        <4> QED  BY SMTT(30), <3>5, <4>1, <4>2
      <3> QED  BY <3>3, <3>8, <3>10
    <2>3. CASE \E m \in net : m.type = "AppendEntries" /\ Accepts(n, c, m, r)
      <3>1. PICK m \in net : m.type = "AppendEntries" /\ Accepts(n, c, m, r)
        BY <2>3
      <3>2. MessageOK(m) /\ m.term \in Nat
        BY <1>1 DEF TypeOK, MessageOK
      <3>3. Carries(L[m.term], m) /\ Agrees(L, L[m.term])
        BY <3>1, <3>2 DEF LogInv
      <3>4. Agrees(L, r.core.log)
        BY <1>1, <1>3, <3>1, <3>2, <3>3, AcceptedLog
      <3>5. r.core.state # Leader /\ Whole(r.core)
        BY <1>1, <3>1 DEF Accepts, Leader, Follower, Whole
      <3>6. Extends(L, M)
        BY <1>5, <3>5
      <3> QED  BY <1>1, <1>2, <3>4, <3>5, <3>6, ExtendsAgrees
    <2> QED  BY <2>1, <2>2, <2>3 DEF Acts
  <1>8. ASSUME NEW x \in r.acts.send, x.type = "AppendEntries", r.core.state = Leader
        PROVE  Carries(M[x.term], x)
    <2>1. PICK peer \in Node : x = build_append_entries_for_peer(n, r.core, peer)
      BY <1>8 DEF Acts, SendsOwn
    <2>2. Carries(r.core.log, x) /\ x.term = t
      BY <1>7, <1>8, <2>1, BuildCarries
    <2> QED  BY <1>2, <1>8, <2>2
  <1> QED  BY <1>6, <1>7, <1>8 DEF M

\* A read request changes nothing but the barriers.
LEMMA AskedCore ==
    ASSUME NEW c \in Core
    PROVE  LET d == request_read_barrier(c) IN
           /\ d \in Core /\ d.log = c.log /\ d.state = c.state
           /\ d.current_term = c.current_term /\ d.commit_index = c.commit_index
           /\ d.last_applied = c.last_applied /\ d.match_index = c.match_index
           /\ d.next_index = c.next_index /\ d.votes_received = c.votes_received
           /\ d.voted_for = c.voted_for
  <1> DEFINE d == request_read_barrier(c)
             id == c.next_read_barrier_id + 1
             barriers == c.read_barriers \cup {[id |-> id, count |-> 0]}
  <1>1. d = [c EXCEPT !.next_read_barrier_id = id, !.read_barriers = barriers]
    BY DEF request_read_barrier
  <1>2. id \in Nat /\ barriers \in SUBSET [id : Nat, count : Nat]
    BY DEF Core
  <1> HIDE DEF id, barriers, d
  <1>3. d \in Core
    BY <1>1, <1>2 DEF Core
  <1>4. /\ d.log = c.log /\ d.state = c.state
        /\ d.current_term = c.current_term /\ d.commit_index = c.commit_index
        /\ d.last_applied = c.last_applied /\ d.match_index = c.match_index
        /\ d.next_index = c.next_index /\ d.votes_received = c.votes_received
        /\ d.voted_for = c.voted_for
    BY <1>1 DEF Core
  <1> QED  BY <1>3, <1>4 DEF d

LEMMA SamePrefix ==
    ASSUME NEW a \in Seq(Entry), NEW b \in Seq(Entry), NEW i \in Nat, i <= Len(a),
           i <= Len(b), \A j \in 1 .. i : a[j] = b[j]
    PROVE  SubSeq(a, 1, i) = SubSeq(b, 1, i)
  <1> DEFINE s == SubSeq(a, 1, i)
             t == SubSeq(b, 1, i)
  <1>1. s \in Seq(Entry) /\ t \in Seq(Entry) /\ Len(s) = i /\ Len(t) = i
        /\ (\A j \in 1 .. i : s[j] = a[j]) /\ \A j \in 1 .. i : t[j] = b[j]
    OBVIOUS
  <1> HIDE DEF s, t
  <1>2. s = t
    BY <1>1, SeqEqual
  <1> QED  BY <1>2 DEF s, t

\* Node n has core c now.
LEMMA LogsStep ==
    ASSUME IInv, ElectionInv, NEW L \in Logs, LogInv(L), NEW M \in Logs, Extends(L, M),
           \A t \in Nat : Agrees(M, M[t]),
           NEW n \in Node, NEW c \in Core, core' = [core EXCEPT ![n] = c],
           Agrees(M, c.log), c.state = Leader => M[c.current_term] = c.log,
           c.current_term >= core[n].current_term,
           c.state = Candidate /\ c.current_term = core[n].current_term =>
               core[n].state = Candidate,
           \A t \in Nat : M[t] # L[t] =>
               /\ ByMajority(t, n) /\ c.current_term >= t
               /\ c.current_term = t => c.state # Candidate,
           votes \subseteq votes',
           \A x \in net' : x \in net \/ (x.type = "AppendEntries" => Carries(M[x.term], x))
    PROVE  LogInv(M)'
  <1>1. core'[n] = c /\ (\A k \in Node : k # n => core'[k] = core[k])
        /\ \A k \in Node : core[k] \in Core /\ core[k].current_term \in Nat
    <2>1. core \in [Node -> Core]
      BY DEF IInv, TypeOK
    <2> QED  BY <2>1 DEF Core
  <1>2. c.current_term \in Nat
    BY DEF Core
  <1>3. ASSUME NEW k \in Node
        PROVE  Agrees(M, core'[k].log)
               /\ (is_leader(core'[k]) => M[core'[k].current_term] = core'[k].log)
    <2>1. CASE k = n
      BY <1>1, <2>1 DEF is_leader
    <2>2. CASE k # n
      <3>1. core'[k] = core[k] /\ core[k].log \in Seq(Entry)
        BY <1>1, <2>2 DEF Core
      <3>2. Agrees(L, core[k].log)
            /\ (is_leader(core[k]) => L[core[k].current_term] = core[k].log)
        BY DEF LogInv
      <3>3. Agrees(M, core[k].log)
        BY <3>1, <3>2, ExtendsAgrees
      <3>4. ASSUME is_leader(core[k]), M[core[k].current_term] # core[k].log PROVE FALSE
        <4>1. ByMajority(core[k].current_term, n)
          BY <1>1, <3>2, <3>4
        <4>2. ByMajority(core[k].current_term, k)
          BY <3>4 DEF ElectionInv, LeadersAreRecorded, LeadersAreElected, is_leader
        <4> QED  BY <2>2, <4>1, <4>2, OneWinner DEF IInv, VoteInv
      <3> QED  BY <3>1, <3>3, <3>4
    <2> QED  BY <2>1, <2>2
  <1>4. ASSUME NEW t \in Nat, M[t] # << >> PROVE \E k \in Node : Won(t, k)'
    <2>1. CASE M[t] # L[t]
      <3>1. ByMajority(t, n)'
        BY <2>1, MajorityStays
      <3> QED  BY <1>1, <1>2, <2>1, <3>1 DEF Won
    <2>2. CASE M[t] = L[t]
      <3>1. PICK k \in Node : Won(t, k)
        BY <1>4, <2>2 DEF LogInv
      <3>2. ByMajority(t, k)'
        BY <3>1, MajorityStays DEF Won
      <3>3. CASE k = n
        BY <1>1, <1>2, <3>1, <3>2, <3>3 DEF Won
      <3>4. CASE k # n
        BY <1>1, <3>1, <3>2, <3>4 DEF Won
      <3> QED  BY <3>3, <3>4
    <2> QED  BY <2>1, <2>2
  <1>5. ASSUME NEW x \in net', x.type = "AppendEntries" PROVE Carries(M[x.term], x)
    <2>1. CASE x \in net
      <3>1. MessageOK(x) /\ Carries(L[x.term], x)
        BY <1>5, <2>1 DEF LogInv, IInv, TypeOK
      <3> QED  BY <1>5, <3>1, ExtendsCarries
    <2> QED  BY <1>5, <2>1
  <1> QED  BY <1>3, <1>4, <1>5 DEF LogInv

\* The node is started with a log that agrees with the leaders' logs.
LEMMA StartedLogs ==
    ASSUME IInv, ElectionInv, Files, NEW L \in Logs, LogInv(L), NEW M \in Logs,
           Extends(L, M), \A t \in Nat : Agrees(M, M[t]),
           NEW n \in Node, NEW d, DiskOK(d), DiskFollows(disk[n], d),
           NEW log \in Seq(Entry), Holds(d, log), Agrees(M, log), Started(n, d),
           \A t \in Nat : M[t] # L[t] => ByMajority(t, n) /\ DiskTerm(d) >= t
    PROVE  LogInv(M)'
  <1> DEFINE c == Restored(d)
  <1>1. c \in Core /\ c.log = log /\ c.state = Follower /\ OnDisk(c, d)
    BY RestoredWhole
  <1>2. OnDisk(core[n], disk[n])
    BY DEF Files, NodeFiles
  <1> HIDE DEF c
  <1>3. core' = [core EXCEPT ![n] = c] /\ votes \subseteq votes' /\ \A x \in net' : x \in net
    BY DEF Started, Recorded, c
  <1>4. c.state # Leader /\ c.state # Candidate
    BY <1>1 DEF Leader, Candidate, Follower
  <1>5. c.current_term = DiskTerm(d) /\ c.current_term >= core[n].current_term
    BY <1>1, <1>2 DEF OnDisk, DiskFollows
  <1> QED  BY <1>1, <1>3, <1>4, <1>5, LogsStep

\* What an input does to the leaders' logs.
LEMMA InputGrows ==
    ASSUME InSessionOnly, IInv, ElectionInv, Files, NEW L \in Logs, LogInv(L),
           NEW n \in Node, NEW r, NEW pending, Input(n, r, pending)
    PROVE  /\ Acts(n, core[n], r) /\ r.core \in Core /\ core[n] \in Core
           /\ r.core.current_term >= core[n].current_term /\ r.core.current_term \in Nat
           /\ Grow(L, r) \in Logs /\ Extends(L, Grow(L, r))
           /\ Agrees(Grow(L, r), r.core.log)
           /\ (\A t \in Nat : Agrees(Grow(L, r), Grow(L, r)[t]))
           /\ (\A x \in r.acts.send : x.type = "AppendEntries" /\ r.core.state = Leader =>
                  Carries(Grow(L, r)[x.term], x))
           /\ (r.core.state = Leader => Grow(L, r)[r.core.current_term] = r.core.log)
           /\ \A t \in Nat : Grow(L, r)[t] # L[t] =>
                 ByMajority(t, n) /\ r.core.current_term = t /\ r.core.state = Leader
  <1>1. Acts(n, core[n], r) /\ r.core \in Core /\ MetaOK(core[n], r) /\ core[n] \in Core
    BY InputActs, InputOK, StateOK DEF StepOK, ResultOK
  <1>2. r.core.current_term >= core[n].current_term /\ r.core.current_term \in Nat
    BY <1>1, TermGrows DEF Core
  <1>3. Grow(L, r) \in Logs
        /\ (r.core.state = Leader => Grow(L, r)[r.core.current_term] = r.core.log)
        /\ \A t \in Nat : r.core.state # Leader \/ t # r.core.current_term =>
                              Grow(L, r)[t] = L[t]
    BY <1>1, GrowLogs
  <1>4. r.core.state = Leader => ByMajority(r.core.current_term, n)
    BY <1>1 DEF Acts
  <1>5. /\ Extends(L, Grow(L, r)) /\ Agrees(Grow(L, r), r.core.log)
        /\ (\A t \in Nat : Agrees(Grow(L, r), Grow(L, r)[t]))
        /\ \A x \in r.acts.send : x.type = "AppendEntries" /\ r.core.state = Leader =>
              Carries(Grow(L, r)[x.term], x)
    BY <1>1, InputExtends
  <1> QED  BY <1>1, <1>2, <1>3, <1>4, <1>5

LEMMA LogsStay ==
    ASSUME NEW L \in Logs, LogInv(L)
    PROVE  Extends(L, L) /\ \A t \in Nat : Agrees(L, L[t])
  <1>1. \A t \in Nat : L[t] \in Seq(Entry)
    BY DEF Logs
  <1>2. \A t \in Nat : Len(L[t]) \in Nat
    BY <1>1
  <1> QED  BY <1>2 DEF Extends, LogInv

LEMMA AskedLogs ==
    ASSUME IInv, ElectionInv, NEW L \in Logs, LogInv(L), NEW n \in Node, Asked(n)
    PROVE  LogInv(L)'
  <1> DEFINE c == request_read_barrier(core[n])
  <1>1. core[n] \in Core
    BY StateOK
  <1>2. c \in Core /\ c.log = core[n].log /\ c.state = core[n].state
        /\ c.current_term = core[n].current_term
    BY <1>1, AskedCore
  <1> HIDE DEF c
  <1>3. core' = [core EXCEPT ![n] = c] /\ votes \subseteq votes' /\ \A x \in net' : x \in net
    BY DEF Asked, c
  <1>4. Agrees(L, c.log) /\ (c.state = Leader => L[c.current_term] = c.log)
    BY <1>2 DEF LogInv, is_leader
  <1>5. c.current_term >= core[n].current_term
    BY <1>1, <1>2 DEF Core
  <1> QED  BY <1>2, <1>3, <1>4, <1>5, LogsStay, LogsStep

LEMMA PerformedLogs ==
    ASSUME InSessionOnly, LeadersOnly, IInv, ElectionInv, Files, NEW L \in Logs, LogInv(L),
           NEW n \in Node, NEW r, NEW pending, Input(n, r, pending), Performed(n, r, pending),
           NEW M \in Logs, M = Grow(L, r)
    PROVE  LogInv(M)'
  <1>1. ~r.panic /\ core' = [core EXCEPT ![n] = r.core] /\ votes \subseteq votes'
        /\ net' \subseteq net \cup Heard(r)
    BY DEF Performed, Recorded
  <1>2. Campaigns(core[n], r)
    BY <1>1, InputGrows DEF Acts
  <1>3. r.core.state = Leader => r.core.state # Candidate
    BY DEF Leader, Candidate
  <1>4. r.core.current_term >= core[n].current_term /\ r.core.current_term \in Nat
    BY <1>1, InputGrows
  <1>5. ASSUME NEW t \in Nat, M[t] # L[t]
        PROVE  /\ ByMajority(t, n) /\ r.core.current_term >= t
               /\ r.core.current_term = t => r.core.state # Candidate
    <2>1. ByMajority(t, n) /\ r.core.current_term = t /\ r.core.state = Leader
      BY <1>1, <1>5, InputGrows
    <2> QED  BY <1>3, <1>4, <2>1
  <1>6. /\ Extends(L, M) /\ (\A t \in Nat : Agrees(M, M[t])) /\ r.core \in Core
        /\ Agrees(M, r.core.log)
        /\ (r.core.state = Leader => M[r.core.current_term] = r.core.log)
        /\ \A x \in r.acts.send : x.type = "AppendEntries" /\ r.core.state = Leader =>
              Carries(M[x.term], x)
    BY <1>1, InputGrows
  <1>7. \A x \in net' : x \in net \/ (x.type = "AppendEntries" => Carries(M[x.term], x))
    BY <1>1, <1>6 DEF Heard, FromLeader, is_leader
  <1>8. r.core.state = Candidate /\ r.core.current_term = core[n].current_term =>
            core[n].state = Candidate
    BY <1>2 DEF Campaigns
  <1> QED  BY <1>1, <1>4, <1>5, <1>6, <1>7, <1>8, LogsStep

\* After a crash the node has the log from before the input, or a part of the
\* log the input made.
LEMMA CrashLogs ==
    ASSUME InSessionOnly, IInv, ElectionInv, Files, NEW L \in Logs, LogInv(L),
           NEW n \in Node, NEW r, NEW pending, Input(n, r, pending), ~r.panic,
           NEW d, Leaves(n, r, d), Started(n, d), NEW M \in Logs, M = Grow(L, r)
    PROVE  /\ Holds(d, core[n].log) => LogInv(L)'
           /\ OnDisk(r.core, d) /\ (\E i \in 0 .. Len(r.core.log) :
                                       Holds(d, SubSeq(r.core.log, 1, i))) => LogInv(M)'
  <1>1. DiskOK(d) /\ DiskFollows(disk[n], d) /\ core[n].log \in Seq(Entry)
        /\ r.core.log \in Seq(Entry) /\ r.core \in Core
    <2>1. r.core \in Core /\ core[n] \in Core
      BY InputGrows
    <2> QED  BY <2>1 DEF Leaves, Core
  <1>2. ASSUME Holds(d, core[n].log) PROVE LogInv(L)'
    <2>1. Agrees(L, core[n].log)
      BY DEF LogInv
    <2> QED  BY <1>1, <1>2, <2>1, LogsStay, StartedLogs
  <1>3. ASSUME OnDisk(r.core, d), NEW i \in 0 .. Len(r.core.log),
               Holds(d, SubSeq(r.core.log, 1, i))
        PROVE  LogInv(M)'
    <2>1. PICK log \in Seq(Entry) : log = SubSeq(r.core.log, 1, i)
      <3>1. SubSeq(r.core.log, 1, i) \in Seq(Entry)
        BY <1>1
      <3> QED  BY <3>1
    <2>2. Len(log) <= Len(r.core.log) /\ \A k \in 1 .. Len(log) : log[k] = r.core.log[k]
      BY <1>1, <2>1
    <2>3. /\ Extends(L, M) /\ (\A t \in Nat : Agrees(M, M[t])) /\ Agrees(M, r.core.log)
          /\ \A t \in Nat : M[t] # L[t] =>
                   ByMajority(t, n) /\ r.core.current_term = t /\ r.core.state = Leader
      BY InputGrows
    <2>4. Agrees(M, log)
      BY <1>1, <2>2, <2>3, PrefixAgrees
    <2>5. r.core.current_term \in Nat
      BY <1>1 DEF Core
    <2>6. \A t \in Nat : M[t] # L[t] => ByMajority(t, n) /\ DiskTerm(d) >= t
      BY <1>3, <2>3, <2>5 DEF OnDisk
    <2> QED  BY <1>1, <1>3, <2>1, <2>3, <2>4, <2>6, StartedLogs
  <1> QED  BY <1>2, <1>3

LEMMA RestartFiles ==
    ASSUME IInv, Files, NEW n \in Node
    PROVE  /\ DiskOK(disk[n]) /\ Holds(disk[n], core[n].log) /\ core[n].log \in Seq(Entry)
           /\ DiskFollows(disk[n], disk[n])
  <1>1. DiskOK(disk[n]) /\ Holds(disk[n], core[n].log) /\ core[n].log \in Seq(Entry)
    BY DEF Files, NodeFiles, IInv, TypeOK, Core
  <1>2. DiskTerm(disk[n]) \in Nat
    BY <1>1, DiskTermOK
  <1> QED  BY <1>1, <1>2 DEF DiskFollows

LEMMA RestartLogs ==
    ASSUME IInv, ElectionInv, Files, NEW L \in Logs, LogInv(L), NEW n \in Node,
           Started(n, disk[n])
    PROVE  LogInv(L)'
  <1>1. Agrees(L, core[n].log)
    BY DEF LogInv
  <1> QED  BY <1>1, RestartFiles, LogsStay, StartedLogs

LEMMA NextLogs ==
    ASSUME NoneIsNoSnapshot, InSessionOnly, LeadersOnly
    PROVE  IInv /\ ElectionInv /\ FilesInv /\ LogsInv /\ [Next]_vars => LogsInv'
  <1> SUFFICES ASSUME IInv, ElectionInv, FilesInv, LogsInv, [Next]_vars, NoSnapshot'
               PROVE  \E M \in Logs : LogInv(M)'
    BY DEF LogsInv
  <1>1. NoSnapshot /\ Files /\ QuietStep
    BY QuietSteps
  <1>2. PICK L \in Logs : LogInv(L)
    BY <1>1 DEF LogsInv
  <1>3. CASE UNCHANGED vars
    <2>1. core' = core /\ net' = net /\ votes' = votes
      BY <1>3 DEF vars
    <2>2. LogInv(L)'
      BY <1>2, <2>1 DEF LogInv, Won, ByMajority
    <2> QED  BY <2>2
  <1>4. ASSUME NEW n \in Node \ panicked, Asked(n) PROVE LogInv(L)'
    BY <1>2, <1>4, AskedLogs
  <1>5. ASSUME NEW n \in Node \ panicked, NEW r, NEW pending, Input(n, r, pending),
               Performed(n, r, pending)
        PROVE  \E M \in Logs : LogInv(M)'
    <2>1. ~r.panic
      BY <1>5 DEF Performed
    <2>2. PICK M \in Logs : M = Grow(L, r)
      BY <1>1, <1>2, <1>5, <2>1, InputGrows
    <2>3. LogInv(M)'
      BY <1>1, <1>2, <1>5, <2>2, PerformedLogs
    <2> QED  BY <2>3
  <1>6. ASSUME NEW n \in Node, Panicked(n) PROVE LogInv(L)'
    BY <1>2, <1>6 DEF Panicked, LogInv, Won, ByMajority
  <1>7. ASSUME NEW n \in Node \ panicked, NEW r, NEW pending, NEW d, Input(n, r, pending),
               ~r.panic, Leaves(n, r, d), Started(n, d)
        PROVE  \E M \in Logs : LogInv(M)'
    <2>1. PICK M \in Logs : M = Grow(L, r)
      BY <1>1, <1>2, <1>7, InputGrows
    <2>2. LogInv(L)' \/ LogInv(M)'
      BY <1>1, <1>2, <1>7, <2>1, CrashLogs DEF Leaves
    <2> QED  BY <1>2, <2>2
  <1>8. ASSUME NEW n \in Node, Started(n, disk[n]) PROVE LogInv(L)'
    BY <1>1, <1>2, <1>8, RestartLogs
  <1> QED  BY <1>1, <1>2, <1>3, <1>4, <1>5, <1>6, <1>7, <1>8 DEF QuietStep

LEMMA InitLogs == Init => LogsInv
  <1> SUFFICES ASSUME Init PROVE \E L \in Logs : LogInv(L)
    BY DEF LogsInv
  <1> DEFINE L == [t \in Nat |-> << >>]
  <1>1. << >> \in Seq(Entry) /\ Len(<< >>) = 0
    OBVIOUS
  <1>2. L \in Logs /\ \A t \in Nat : L[t] = << >>
    BY <1>1 DEF Logs
  <1> HIDE DEF L
  <1>3. Agrees(L, << >>)
    BY <1>1 DEF Agrees
  <1>4. \A n \in Node : core[n].log = << >> /\ ~is_leader(core[n])
    BY NewOK DEF Init, new, is_leader, Leader, Follower
  <1>5. LogInv(L)
    BY <1>2, <1>3, <1>4 DEF LogInv, Init
  <1> QED  BY <1>2, <1>5

\* Two logs with the same term at an index agree up to that index, whatever
\* crashes and torn writes do, as long as no late response and no request of a
\* deposed leader is delivered and no snapshot is taken: each is, up to there,
\* the log of the one leader of that term, since handle_append_entries takes
\* over entries only behind an entry that the log shares with the sender's.
THEOREM LogsMatch ==
    ASSUME NoneIsNoSnapshot, InSessionOnly, LeadersOnly
    PROVE  Spec => [](NoSnapshot => LogMatching)
  <1>1. IInv /\ LogsInv => (NoSnapshot => LogMatching)
    <2> SUFFICES ASSUME IInv, NEW L \in Logs, LogInv(L), NEW a \in Node, NEW b \in Node,
                        NEW i \in 1 .. min(Len(core[a].log), Len(core[b].log)),
                        core[a].log[i].term = core[b].log[i].term
                 PROVE  SubSeq(core[a].log, 1, i) = SubSeq(core[b].log, 1, i)
      BY DEF LogsInv, LogMatching
    <2>1. core[a].log \in Seq(Entry) /\ core[b].log \in Seq(Entry)
          /\ Agrees(L, core[a].log) /\ Agrees(L, core[b].log)
      BY DEF IInv, TypeOK, Core, LogInv
    <2>2. i \in Nat /\ i >= 1 /\ i <= Len(core[a].log) /\ i <= Len(core[b].log)
      BY <2>1 DEF min
    <2>3. \A j \in 1 .. i : core[a].log[j] = core[b].log[j]
      BY <2>1, <2>2, SameUpTo
    <2> QED  BY <2>1, <2>2, <2>3, SamePrefix
  <1> QED  BY <1>1, InitInv, NextInv, InitElection, NextElection, InitFiles, NextFiles,
              InitLogs, NextLogs, PTL DEF Spec

-----------------------------------------------------------------------------
(***************************************************************************)
(* LeaderAppendOnly, on any network.                                       *)
(***************************************************************************)
\* A leader that stays one appends at most one entry.
KeepsLog(c, d) == d.log = c.log \/ \E e \in Entry : d.log = Append(c.log, e)

LEMMA InputKeeps ==
    ASSUME IInv, Files, NEW n \in Node, NEW r, NEW pending, Input(n, r, pending), ~r.panic
    PROVE  /\ r.core.commit_index >= core[n].commit_index
           /\ core[n].state = Leader /\ r.core.state = Leader => KeepsLog(core[n], r.core)
  <1> DEFINE c == core[n]
  <1>1. c \in Core /\ c.last_applied = c.commit_index /\ TypeOK /\ c.commit_index \in Nat
        /\ c.current_term \in Nat
    <2>1. c \in Core /\ c.last_applied = c.commit_index /\ TypeOK
      BY StateOK DEF IInv
    <2> QED  BY <2>1 DEF Core
  <1> DEFINE OK == /\ r.core.commit_index >= c.commit_index
                   /\ c.state = Leader /\ r.core.state = Leader => KeepsLog(c, r.core)
  <1>2. ASSUME Idle(c, r) PROVE OK
    BY <1>1, <1>2 DEF Idle, SameLog, KeepsLog
  <1>3. ASSUME NEW command \in Command \cup {Noop}, Pushes(n, c, r, command) PROVE OK
    <2> DEFINE e == [term |-> c.current_term, command |-> command]
    <2>1. r.core.log = Append(c.log, e) /\ SameLog([c EXCEPT !.log = r.core.log], r.core)
      BY <1>3 DEF Pushes
    <2>2. e \in Entry
      BY <1>1 DEF Entry
    <2> HIDE DEF e
    <2> QED  BY <1>1, <2>1, <2>2 DEF SameLog, Core, KeepsLog
  <1> SUFFICES OK
    OBVIOUS
  <1> HIDE DEF OK
  <1>4. CASE is_leader(c) /\ r = heartbeat(n, c)
    BY <1>1, <1>2, <1>4, HeartbeatIdle
  <1>5. CASE ~is_leader(c) /\ r = election_timeout(n, c)
    BY <1>1, <1>2, <1>5, ElectionTimeoutIdle DEF is_leader
  <1>6. CASE \E command \in Command : is_leader(c) /\ r = propose(n, c, command)
    BY <1>1, <1>3, <1>6, ProposePushes DEF is_leader
  <1>7. CASE \E m \in net : Message(n, m, r)
    <2>1. PICK m \in net : Message(n, m, r)
      BY <1>7
    <2>2. MessageOK(m) /\ PlainMessage(m)
      BY <1>1 DEF TypeOK, Files
    <2>3. CASE r = handle_request_vote(n, c, m)
      BY <1>1, <1>2, <2>2, <2>3, RequestVoteIdle
    <2>4. CASE r = handle_request_vote_response(n, c, m)
      BY <1>1, <1>2, <1>3, <2>2, <2>4, RequestVoteResponseKeeps
    <2>5. CASE m.type = "AppendEntries" /\ r = handle_append_entries(n, c, m)
      <3>1. CASE Refuses(n, c, m, r)
        BY <1>2, <3>1 DEF Refuses
      <3>2. CASE Accepts(n, c, m, r)
        <4>1. r.core.state = Follower /\ ~(r.core.commit_index < c.commit_index)
          BY <3>2 DEF Accepts
        <4>2. r.core.commit_index \in Nat
          BY <1>1, <2>2, <2>5, AppendEntriesOK DEF StepOK, ResultOK, Core
        <4> QED  BY <1>1, <4>1, <4>2 DEF OK, Follower, Leader
      <3> QED  BY <1>1, <2>2, <2>5, <3>1, <3>2, AppendEntriesKeeps
    <2>6. CASE m.type = "AppendEntriesResponse"
               /\ r = handle_append_entries_response(n, c, m)
      <3>1. m.success \in BOOLEAN
        BY <2>2, <2>6 DEF MessageOK
      <3>2. CASE ~m.success
        BY <1>1, <1>2, <2>2, <2>6, <3>2, AppendEntriesResponseKeeps
      <3>3. CASE m.success
        <4>1. Commits(c, m, r)
          BY <1>1, <2>2, <2>6, <3>3, AppendEntriesResponseKeeps
        <4>2. PICK d \in Core :
                  /\ SameLog(c, d)
                  /\ SameLog([d EXCEPT !.commit_index = new_commit(d, replicated_index(d)),
                                       !.last_applied = new_commit(d, replicated_index(d))],
                             r.core)
          BY <4>1 DEF Commits
        <4> DEFINE commit == new_commit(d, replicated_index(d))
        <4>3. commit \in Nat /\ commit >= d.commit_index
          BY NewCommit
        <4>4. SameLog([d EXCEPT !.commit_index = commit, !.last_applied = commit], r.core)
          BY <4>2
        <4> HIDE DEF commit
        <4>5. r.core.log = c.log /\ r.core.commit_index = commit
              /\ d.commit_index = c.commit_index
          BY <4>2, <4>4 DEF SameLog, Core
        <4> QED  BY <4>3, <4>5 DEF OK, KeepsLog
      <3> QED  BY <3>1, <3>2, <3>3
    <2>7. m.type \notin {"InstallSnapshot", "InstallSnapshotResponse"}
      BY <2>2 DEF PlainMessage
    <2> QED  BY <2>1, <2>3, <2>4, <2>5, <2>6, <2>7 DEF Message
  <1> QED  BY <1>4, <1>5, <1>6, <1>7 DEF Input

LEMMA KeepsPrefix ==
    ASSUME NEW c \in Core, NEW d \in Core, KeepsLog(c, d)
    PROVE  IsPrefix(c.log, d.log)
  <1>1. c.log \in Seq(Entry) /\ d.log \in Seq(Entry) /\ Len(c.log) \in Nat
        /\ Len(d.log) \in Nat
    <2>1. c.log \in Seq(Entry) /\ d.log \in Seq(Entry)
      BY DEF Core
    <2> QED  BY <2>1
  <1>2. Len(c.log) <= Len(d.log) /\ \A k \in 1 .. Len(c.log) : d.log[k] = c.log[k]
    <2>1. CASE d.log = c.log
      BY <1>1, <2>1
    <2>2. ASSUME NEW e \in Entry, d.log = Append(c.log, e)
          PROVE  Len(c.log) <= Len(d.log) /\ \A k \in 1 .. Len(c.log) : d.log[k] = c.log[k]
      BY <1>1, <2>2, AppendProperties
    <2> QED  BY <2>1, <2>2 DEF KeepsLog
  <1>3. SubSeq(c.log, 1, Len(c.log)) = SubSeq(d.log, 1, Len(c.log))
    BY <1>1, <1>2, SamePrefix
  <1> QED  BY <1>1, <1>2, <1>3 DEF IsPrefix

\* No step takes back a commit or cuts a leader's log, unless it restarts the
\* node.
OnlyAppends ==
    \A n \in Node :
        crashes' = crashes =>
            /\ core'[n].commit_index >= core[n].commit_index
            /\ is_leader(core[n]) /\ is_leader(core'[n]) => IsPrefix(core[n].log, core'[n].log)

LEMMA StepAppends ==
    ASSUME NoneIsNoSnapshot, IInv, FilesInv, [Next]_vars, NoSnapshot'
    PROVE  OnlyAppends
  <1>1. Files /\ QuietStep /\ TypeOK /\ core \in [Node -> Core]
    BY QuietSteps DEF IInv, TypeOK
  <1>2. ASSUME NEW k \in Node
        PROVE  core[k] \in Core /\ core[k].commit_index >= core[k].commit_index
               /\ IsPrefix(core[k].log, core[k].log)
    <2>1. core[k] \in Core
      BY <1>1
    <2>2. KeepsLog(core[k], core[k])
      BY DEF KeepsLog
    <2>3. core[k].commit_index \in Nat
      BY <2>1 DEF Core
    <2> QED  BY <2>1, <2>2, <2>3, KeepsPrefix
  <1>3. ASSUME core' = core PROVE OnlyAppends
    BY <1>2, <1>3 DEF OnlyAppends
  <1>4. ASSUME NEW n \in Node, NEW c \in Core, core' = [core EXCEPT ![n] = c],
               c.commit_index >= core[n].commit_index,
               core[n].state = Leader /\ c.state = Leader => KeepsLog(core[n], c)
        PROVE  OnlyAppends
    <2>1. core'[n] = c /\ \A k \in Node : k # n => core'[k] = core[k]
      BY <1>1, <1>4
    <2>2. is_leader(core[n]) /\ is_leader(c) => IsPrefix(core[n].log, c.log)
      BY <1>2, <1>4, KeepsPrefix DEF is_leader
    <2> QED  BY <1>2, <1>4, <2>1, <2>2 DEF OnlyAppends
  <1>5. CASE UNCHANGED vars
    BY <1>3, <1>5 DEF vars
  <1>6. ASSUME NEW n \in Node, Asked(n) PROVE OnlyAppends
    <2> DEFINE c == request_read_barrier(core[n])
    <2>1. c \in Core /\ c.log = core[n].log /\ c.commit_index = core[n].commit_index
      BY <1>2, AskedCore
    <2> HIDE DEF c
    <2>2. core' = [core EXCEPT ![n] = c] /\ KeepsLog(core[n], c)
      BY <1>6, <2>1 DEF Asked, KeepsLog, c
    <2> QED  BY <1>2, <1>4, <2>1, <2>2
  <1>7. ASSUME NEW n \in Node, NEW r, NEW pending, Input(n, r, pending),
               Performed(n, r, pending)
        PROVE  OnlyAppends
    <2>1. ~r.panic /\ core' = [core EXCEPT ![n] = r.core]
      BY <1>7 DEF Performed
    <2>2. r.core \in Core
      BY <1>7, <2>1, InputOK DEF StepOK, ResultOK
    <2> QED  BY <1>1, <1>4, <1>7, <2>1, <2>2, InputKeeps
  <1>8. ASSUME NEW n, Panicked(n) PROVE OnlyAppends
    BY <1>3, <1>8 DEF Panicked
  <1>9. ASSUME NEW n, NEW d, Started(n, d) PROVE OnlyAppends
    BY <1>9 DEF Started, OnlyAppends
  <1> QED  BY <1>1, <1>5, <1>6, <1>7, <1>8, <1>9 DEF QuietStep

\* A leader only ever appends to its log and no running node takes back a
\* commit, on any network, as long as no snapshot is taken: a leader refuses
\* AppendEntries of its own term, a higher term makes it a follower first, and
\* a node whose commit index would go back panics instead.
THEOREM LeadersOnlyAppend ==
    ASSUME NoneIsNoSnapshot
    PROVE  Spec /\ []NoSnapshot => LeaderAppendOnly
  <1>1. IInv /\ FilesInv /\ [Next]_vars /\ NoSnapshot' => [OnlyAppends]_vars
    BY StepAppends
  <1>2. LeaderAppendOnly <=> [][OnlyAppends]_vars
    BY DEF LeaderAppendOnly, OnlyAppends
  <1> QED  BY <1>1, <1>2, InitInv, NextInv, InitFiles, NextFiles, PTL DEF Spec

=============================================================================
