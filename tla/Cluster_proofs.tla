--------------------------- MODULE Cluster_proofs ---------------------------
(***************************************************************************)
(* Theorems about Cluster, for every number of nodes and every bound:      *)
(* type correctness, VoteOncePerTerm and NoOrphanedReads on any network,   *)
(* with snapshots and crashes, and ElectionSafety as long as no late       *)
(* response is delivered.                                                  *)
(***************************************************************************)
EXTENDS Cluster, RaftCore_proofs

(***************************************************************************)
(* The inductive invariant.  A vote is remembered where a crash cannot     *)
(* reach it: the files of a running node hold its term and vote, and every *)
(* vote ever held is the one on disk or belongs to an earlier term.        *)
(***************************************************************************)
DiskTerm(d) == IF d.metadata = None THEN 0 ELSE d.metadata.term
DiskVote(d) == IF d.metadata = None THEN None ELSE d.metadata.voted_for

\* Core c holds the term and the vote that are in the files d.
OnDisk(c, d) == c.current_term = DiskTerm(d) /\ c.voted_for = DiskVote(d)

AppliedIsCommitted == \A n \in Node : core[n].last_applied = core[n].commit_index

CoreOnDisk == \A n \in Node \ panicked : OnDisk(core[n], disk[n])

VotesOnDisk ==
    \A v \in votes :
        /\ v.voter \in Node /\ v.candidate # None /\ v.term \in Nat
        /\ v.term <= DiskTerm(disk[v.voter])
        /\ v.term = DiskTerm(disk[v.voter]) => v.candidate = DiskVote(disk[v.voter])

VoteInv == CoreOnDisk /\ VotesOnDisk /\ VoteOncePerTerm

IInv == TypeOK /\ AppliedIsCommitted /\ VoteInv

\* The files e may follow the files d: the term grows, or the vote stays.
DiskFollows(d, e) ==
    /\ DiskTerm(e) >= DiskTerm(d)
    /\ DiskTerm(e) = DiskTerm(d) => DiskVote(d) = None \/ DiskVote(e) = DiskVote(d)

\* What the metadata file holds is a term and a vote.
LEMMA DiskTermOK ==
    ASSUME NEW d, DiskOK(d)
    PROVE  DiskTerm(d) \in Nat /\ DiskVote(d) \in Option(Node)
  BY DEF DiskOK, DiskTerm, DiskVote, Option, Metadata

\* The heart of VoteOncePerTerm: a step of node n that leaves the files d
\* and a core whose vote, if it has one, is in them.
LEMMA VoteStep ==
    ASSUME TypeOK, VotesOnDisk, VoteOncePerTerm, NEW n \in Node, NEW d, DiskOK(d),
           DiskFollows(disk[n], d), NEW c, c.voted_for = None \/ OnDisk(c, d),
           disk' = [disk EXCEPT ![n] = d], votes' = votes \cup VoteOf(n, c)
    PROVE  VotesOnDisk' /\ VoteOncePerTerm'
  <1>0. DOMAIN disk = Node /\ \A k \in Node : DiskTerm(disk[k]) \in Nat
    BY DiskTermOK DEF TypeOK
  <1>1. disk'[n] = d /\ (\A k \in Node : k # n => disk'[k] = disk[k])
    BY <1>0
  <1>2. DiskTerm(d) \in Nat
    BY DiskTermOK
  <1>3. ASSUME NEW v \in VoteOf(n, c)
        PROVE  v.voter = n /\ v.candidate # None /\ v.term = DiskTerm(d)
               /\ v.candidate = DiskVote(d)
    BY DEF VoteOf, OnDisk
  <1>4. ASSUME NEW v \in votes
        PROVE  /\ v.voter \in Node /\ v.candidate # None /\ v.term \in Nat
               /\ v.term <= DiskTerm(disk'[v.voter])
               /\ v.term = DiskTerm(disk'[v.voter]) => v.candidate = DiskVote(disk'[v.voter])
    <2>1. v.voter \in Node /\ v.candidate # None /\ v.term \in Nat
          /\ v.term <= DiskTerm(disk[v.voter])
          /\ (v.term = DiskTerm(disk[v.voter]) => v.candidate = DiskVote(disk[v.voter]))
      BY DEF VotesOnDisk
    <2>2. CASE v.voter # n
      BY <1>1, <2>1, <2>2
    <2>3. CASE v.voter = n
      BY <1>0, <1>1, <1>2, <2>1, <2>3 DEF DiskFollows
    <2> QED  BY <2>2, <2>3
  <1>5. VotesOnDisk'
    BY <1>1, <1>2, <1>3, <1>4 DEF VotesOnDisk
  <1>6. ASSUME NEW v \in votes', NEW w \in votes', v.term = w.term, v.voter = w.voter
        PROVE  v.candidate = w.candidate
    <2>1. CASE v \in votes /\ w \in votes
      BY <1>6, <2>1 DEF VoteOncePerTerm
    <2>2. CASE v \in VoteOf(n, c) \/ w \in VoteOf(n, c)
      <3>1. \A u \in votes' : u.voter = n /\ u.term = DiskTerm(d) =>
                                u.candidate = DiskVote(d)
        BY <1>1, <1>3, <1>4
      <3> QED  BY <1>3, <1>6, <2>2, <3>1
    <2> QED  BY <2>1, <2>2
  <1> QED  BY <1>5, <1>6 DEF VoteOncePerTerm

-----------------------------------------------------------------------------
(***************************************************************************)
(* What the driver does with a result r of the core.                       *)
(***************************************************************************)
LEMMA NumDeliveredOK ==
    ASSUME NEW acts, Len(acts.apply) \in Nat
    PROVE  /\ NumDelivered(acts) \in Nat
           /\ NumDelivered(acts) > 0 => Len(acts.apply) > 0
  <1> DEFINE S == {k \in 1 .. Len(acts.apply) : IsCommand(acts.apply[k].command)}
  <1>1. IsFiniteSet(1 .. Len(acts.apply))
    BY FS_Interval
  <1>2. IsFiniteSet(S) /\ Cardinality(S) \in Nat
    BY <1>1, FS_Subset, FS_CardinalityType
  <1>3. Len(acts.apply) = 0 => S = {}
    OBVIOUS
  <1>4. S = {} => Cardinality(S) = 0
    BY FS_EmptySet
  <1>5. NumDelivered(acts) = Cardinality(S)
    BY DEF NumDelivered
  <1> HIDE DEF S
  <1> QED  BY <1>2, <1>3, <1>4, <1>5

\* num_entries stays below the threshold, and only applying entries compacts.
LEMMA CountedOK ==
    ASSUME TypeOK, NEW n \in Node, NEW acts, Len(acts.apply) \in Nat
    PROVE  /\ NumEntriesAfter(n, acts) \in 0 .. SnapshotThreshold - 1
           /\ Compacts(n, acts) => Len(acts.apply) > 0
  <1>1. num_entries[n] \in 0 .. SnapshotThreshold - 1 /\ SnapshotThreshold \in Nat \ {0}
    BY ClusterAssumption DEF TypeOK
  <1>2. Counted(n, acts) \in Nat
    BY <1>1, NumDeliveredOK DEF Counted
  <1>3. NumEntriesAfter(n, acts) \in 0 .. SnapshotThreshold - 1
    BY <1>1, <1>2 DEF NumEntriesAfter
  <1>4. Compacts(n, acts) => NumDelivered(acts) > 0
    BY NumDeliveredOK DEF Compacts, Thresholds
  <1> QED  BY <1>3, <1>4, NumDeliveredOK

\* The entry a node's own snapshot ends with is in its log.
LEMMA PrepareSnapshotOK ==
    ASSUME TypeOK, NEW n \in Node, NEW r, ResultOK(r), Compacts(n, r.acts)
    PROVE  LET s == prepare_snapshot(r.core) IN
           /\ s.last_applied \in Nat /\ s.last_applied_term \in Nat
           /\ s.last_applied > r.core.last_included_index
           /\ s.last_applied <= last_log_index(r.core)
  <1>1. r.core \in Core /\ Len(r.acts.apply) > 0
    BY CountedOK DEF ResultOK
  <1>2. r.core.last_applied > r.core.last_included_index
        /\ r.core.last_applied <= last_log_index(r.core)
    BY <1>1 DEF ResultOK
  <1>3. r.core.last_applied \in Nat /\ r.core.last_included_index \in Nat
    BY <1>1 DEF Core
  <1>4. log_term_at(r.core, r.core.last_applied) \in Nat
    BY <1>1, <1>2, <1>3, LogTermAt
  <1> QED  BY <1>2, <1>3, <1>4 DEF prepare_snapshot

\* Compaction changes neither the role nor what is committed.
SameButLog(c, d) ==
    /\ d.state = c.state /\ d.current_term = c.current_term
    /\ d.voted_for = c.voted_for /\ d.votes_received = c.votes_received
    /\ d.last_applied = c.last_applied /\ d.commit_index = c.commit_index

\* complete_snapshot shortens the log and keeps term, vote and role.
LEMMA CoreAfterOK ==
    ASSUME TypeOK, NEW n \in Node, NEW r, ResultOK(r)
    PROVE  CoreAfter(n, r) \in Core /\ SameButLog(r.core, CoreAfter(n, r))
  <1> DEFINE c == r.core
             s == prepare_snapshot(r.core)
             d == CoreAfter(n, r)
  <1>0. c \in Core
    BY DEF ResultOK
  <1>1. CASE ~Compacts(n, r.acts)
    <2>1. d = c
      BY <1>1 DEF CoreAfter
    <2> QED  BY <1>0, <2>1 DEF SameButLog
  <1>2. CASE Compacts(n, r.acts)
    <2> DEFINE a == s.last_applied - c.last_included_index + 1
               log == SubSeq(c.log, a, Len(c.log))
    <2>1. s.last_applied \in Nat /\ s.last_applied_term \in Nat
          /\ s.last_applied > c.last_included_index
      BY <1>2, PrepareSnapshotOK
    <2>2. c.last_included_index \in Nat /\ c.log \in Seq(Entry) /\ Len(c.log) \in Nat
      BY <1>0 DEF Core
    <2> HIDE DEF s
    <2>3. a \in Nat /\ a >= 1
      BY <2>1, <2>2
    <2>4. ~ (s.last_applied <= c.last_included_index)
      BY <2>1, <2>2
    <2>5. d = [c EXCEPT !.log = log, !.last_included_index = s.last_applied,
                        !.last_included_term = s.last_applied_term]
      <3>1. d = complete_snapshot(c, s)
        BY <1>2 DEF CoreAfter, s
      <3> QED  BY <2>4, <3>1 DEF complete_snapshot
    <2> HIDE DEF a
    <2>6. log \in Seq(Entry)
      <3>1. \A i \in a .. Len(c.log) : c.log[i] \in Entry
        BY <2>2, <2>3
      <3> QED  BY <2>2, <2>3, <3>1, SubSeqProperties
    <2> HIDE DEF log, c, d
    <2>7. d \in Core
      BY <1>0, <2>1, <2>5, <2>6 DEF Core
    <2>8. SameButLog(c, d)
      BY <1>0, <2>5 DEF Core, SameButLog
    <2> QED  BY <2>7, <2>8 DEF c, d
  <1> QED  BY <1>1, <1>2

\* The term and the vote after PersistMetadata.
LEMMA StoreMetadataOK ==
    ASSUME NEW d, DiskOK(d), NEW metas \in Seq(Metadata)
    PROVE  LET e == store_metadata(d, metas) IN
           /\ DiskOK(e) /\ e.log = d.log /\ e.snapshot = d.snapshot
           /\ metas = << >> => e.metadata = d.metadata
           /\ metas # << >> => e.metadata = metas[Len(metas)]
  <1>1. CASE metas = << >>
    BY <1>1 DEF store_metadata
  <1>2. CASE metas # << >>
    <2>1. metas[Len(metas)] \in Metadata
      BY <1>2
    <2> DEFINE e == [metadata |-> metas[Len(metas)], log |-> d.log, snapshot |-> d.snapshot]
    <2>2. store_metadata(d, metas) = e
      BY <1>2 DEF store_metadata
    <2>3. e.metadata = metas[Len(metas)] /\ e.log = d.log /\ e.snapshot = d.snapshot
      OBVIOUS
    <2> HIDE DEF e
    <2> QED  BY <1>2, <2>1, <2>2, <2>3 DEF DiskOK, Option
  <1> QED  BY <1>1, <1>2

\* store_log_entries leaves a well-formed log file and the metadata alone.
LEMMA StoreLogEntriesOK ==
    ASSUME NEW d, DiskOK(d), NEW a, AddendumOK(a)
    PROVE  LET e == store_log_entries(d, a) IN DiskOK(e) /\ e.metadata = d.metadata
  <1> DEFINE old == IF d.log = None THEN << >> ELSE d.log
             hits == {k \in 1 .. Len(old) : old[k].index = a.start_index}
             kept == IF hits = {} THEN old ELSE SubSeq(old, 1, Min(hits) - 1)
             frames == [k \in 1 .. Len(a.entries) |->
                           [index |-> a.start_index + k - 1, entry |-> a.entries[k]]]
             e == store_log_entries(d, a)
  <1>1. e = [metadata |-> d.metadata, log |-> kept \o frames, snapshot |-> d.snapshot]
    BY Zenon DEF store_log_entries
  <1>2. old \in Seq(Frame)
    BY DEF DiskOK, Option
  <1> HIDE DEF old
  <1>3. kept \in Seq(Frame)
    <2>1. CASE hits = {}
      BY <1>2, <2>1
    <2>2. CASE hits # {}
      <3>1. hits \subseteq Nat /\ hits \subseteq 1 .. Len(old)
        BY <1>2
      <3> HIDE DEF hits
      <3>2. Min(hits) \in hits
        BY <2>2, <3>1, MinNat, Zenon
      <3>3. Min(hits) \in 1 .. Len(old)
        BY <3>1, <3>2, Zenon
      <3> DEFINE k == Min(hits)
      <3> HIDE DEF k
      <3>4. k \in 1 .. Len(old)
        BY <3>3 DEF k
      <3>5. \A i \in 1 .. k - 1 : old[i] \in Frame
        BY <1>2, <3>4
      <3>6. SubSeq(old, 1, k - 1) \in Seq(Frame)
        BY <1>2, <3>4, <3>5, SubSeqProperties
      <3> QED  BY <2>2, <3>6 DEF k
    <2> QED  BY <2>1, <2>2
  <1>4. frames \in Seq(Frame)
    <2>1. a.start_index \in Nat /\ a.entries \in Seq(Entry) /\ Len(a.entries) \in Nat
      BY DEF AddendumOK
    <2>2. \A k \in 1 .. Len(a.entries) :
              [index |-> a.start_index + k - 1, entry |-> a.entries[k]] \in Frame
      BY <2>1 DEF Frame
    <2> QED  BY <2>1, <2>2
  <1>5. kept \o frames \in Seq(Frame)
    <2> HIDE DEF kept, frames
    <2> QED  BY <1>3, <1>4, ConcatProperties
  <1> HIDE DEF kept, frames, e
  <1>6. e.metadata = d.metadata /\ e.log = kept \o frames /\ e.snapshot = d.snapshot
    BY <1>1
  <1>7. DiskOK(e)
    BY <1>5, <1>6 DEF DiskOK, Option
  <1> QED  BY <1>6, <1>7 DEF e

\* The files after the writes of one input, and after any crash among them.
LEMMA PersistedOK ==
    ASSUME TypeOK, NEW n \in Node, NEW r, ResultOK(r), r.acts.meta \in Seq(Metadata)
    PROVE  LET d == store_metadata(disk[n], r.acts.meta) IN
           DiskOK(Persisted(n, r)) /\ Persisted(n, r).metadata = d.metadata
  <1>1. DiskOK(disk[n])
    BY DEF TypeOK
  <1> DEFINE d == store_metadata(disk[n], r.acts.meta)
  <1>2. DiskOK(d)
    BY <1>1, StoreMetadataOK
  <1>3. r.acts.log # None => AddendumOK(r.acts.log)
    BY DEF ResultOK
  <1>4. Persisted(n, r) = IF r.acts.log = None THEN d ELSE store_log_entries(d, r.acts.log)
    BY Zenon DEF Persisted
  <1> HIDE DEF d
  <1>5. DiskOK(Persisted(n, r)) /\ Persisted(n, r).metadata = d.metadata
    BY <1>2, <1>3, <1>4, StoreLogEntriesOK
  <1> QED  BY <1>5 DEF d

SnapshotOK(s) == s.last_included_index \in Nat /\ s.last_included_term \in Nat

\* The snapshot a node takes has an index and a term that exist.
LEMMA OwnSnapshotOK ==
    ASSUME TypeOK, NEW n \in Node, NEW r, ResultOK(r), Compacts(n, r.acts), NEW k
    PROVE  SnapshotOK(OwnSnapshot(n, r, k))
  <1> DEFINE s == prepare_snapshot(r.core)
             data == app[n] \o SubSeq(Delivered(r.acts), 1, k)
  <1>1. OwnSnapshot(n, r, k) =
            [ last_included_index |-> s.last_applied,
              last_included_term |-> s.last_applied_term, data |-> data ]
    BY DEF OwnSnapshot
  <1>2. s.last_applied \in Nat /\ s.last_applied_term \in Nat
    BY PrepareSnapshotOK
  <1> HIDE DEF s, data
  <1> QED  BY <1>1, <1>2 DEF SnapshotOK

\* So has the snapshot that is stored, the node's own or the leader's.
LEMMA SnapshotToStoreOK ==
    ASSUME TypeOK, NEW n \in Node, NEW r, ResultOK(r), SnapshotToStore(n, r) # None
    PROVE  SnapshotOK(SnapshotToStore(n, r))
  <1>1. CASE r.acts.install # None
    <2>1. SnapshotToStore(n, r) = r.acts.install
      BY <1>1 DEF SnapshotToStore
    <2> QED  BY <1>1, <2>1 DEF ResultOK, SnapshotOK
  <1>2. CASE r.acts.install = None /\ Compacts(n, r.acts)
    <2>1. SnapshotToStore(n, r) = OwnSnapshot(n, r, Max(Thresholds(n, r.acts)))
      BY <1>2 DEF SnapshotToStore
    <2> QED  BY <1>2, <2>1, OwnSnapshotOK
  <1>3. CASE r.acts.install = None /\ ~Compacts(n, r.acts)
    BY <1>3 DEF SnapshotToStore
  <1> QED  BY <1>1, <1>2, <1>3

\* Replacing the snapshot file or emptying the log file keeps the metadata.
LEMMA StoreSnapshotOK ==
    ASSUME NEW d, DiskOK(d), NEW s, SnapshotOK(s)
    PROVE  LET e == store_snapshot(d, s) IN DiskOK(e) /\ e.metadata = d.metadata
  <1> DEFINE e == store_snapshot(d, s)
  <1>1. e.metadata = d.metadata /\ e.log = d.log /\ e.snapshot = s
    BY DEF store_snapshot
  <1> HIDE DEF e
  <1>2. DiskOK(e)
    BY <1>1 DEF DiskOK, SnapshotOK
  <1> QED  BY <1>1, <1>2 DEF e

\* truncate_log leaves the metadata alone.
LEMMA TruncateLogOK ==
    ASSUME NEW d, DiskOK(d)
    PROVE  LET e == truncate_log(d) IN DiskOK(e) /\ e.metadata = d.metadata
  <1> DEFINE e == truncate_log(d)
  <1>1. e.metadata = d.metadata /\ e.log = << >> /\ e.snapshot = d.snapshot
    BY DEF truncate_log
  <1>2. << >> \in Option(Seq(Frame))
    BY DEF Option
  <1> HIDE DEF e
  <1>3. DiskOK(e)
    BY <1>1, <1>2 DEF DiskOK
  <1> QED  BY <1>1, <1>3 DEF e

\* Storing a snapshot and truncating the log leave the metadata alone.
LEMMA WithSnapshotOK ==
    ASSUME TypeOK, NEW n \in Node, NEW r, ResultOK(r), r.acts.meta \in Seq(Metadata)
    PROVE  LET m == store_metadata(disk[n], r.acts.meta).metadata IN
           /\ DiskOK(WithSnapshot(n, r)) /\ WithSnapshot(n, r).metadata = m
           /\ DiskOK(DiskAfter(n, r)) /\ DiskAfter(n, r).metadata = m
  <1> DEFINE p == Persisted(n, r)
             m == store_metadata(disk[n], r.acts.meta).metadata
             s == SnapshotToStore(n, r)
             w == WithSnapshot(n, r)
             d == DiskAfter(n, r)
  <1>1. DiskOK(p) /\ p.metadata = m
    BY PersistedOK
  <1>2. s # None => SnapshotOK(s)
    BY SnapshotToStoreOK
  <1>3. w = IF s = None THEN p ELSE store_snapshot(p, s)
    BY Zenon DEF WithSnapshot
  <1>4. d = w \/ d = truncate_log(w)
    BY Zenon DEF DiskAfter
  <1> HIDE DEF p, s, w, d, m
  <1>5. DiskOK(w) /\ w.metadata = m
    BY <1>1, <1>2, <1>3, StoreSnapshotOK
  <1>6. DiskOK(d) /\ d.metadata = m
    BY <1>4, <1>5, TruncateLogOK
  <1> QED  BY <1>5, <1>6 DEF w, d, m

\* Whatever a crash leaves has the metadata of a prefix of the writes.
LEMMA CrashDisksOK ==
    ASSUME TypeOK, NEW n \in Node, NEW r, ResultOK(r), r.acts.meta \in Seq(Metadata),
           NEW e \in CrashDisks(n, r)
    PROVE  /\ DiskOK(e)
           /\ \/ e.metadata = disk[n].metadata
              \/ \E k \in 1 .. Len(r.acts.meta) : e.metadata = r.acts.meta[k]
  <1> DEFINE metas == r.acts.meta
             d == store_metadata(disk[n], metas)
             log == r.acts.log
             torn(k) == [log EXCEPT !.entries = SubSeq(log.entries, 1, k)]
             own(k) == store_snapshot(Persisted(n, r), OwnSnapshot(n, r, k))
  <1>0. DiskOK(disk[n]) /\ Len(metas) \in Nat
    BY DEF TypeOK
  <1>1. DiskOK(d)
        /\ (d.metadata = disk[n].metadata \/ \E k \in 1 .. Len(metas) : d.metadata = metas[k])
    <2>1. metas # << >> => Len(metas) \in 1 .. Len(metas)
      OBVIOUS
    <2> QED  BY <1>0, <2>1, StoreMetadataOK
  <1>2. CASE \E k \in 0 .. Len(metas) : e = store_metadata(disk[n], SubSeq(metas, 1, k))
    <2>1. PICK k \in 0 .. Len(metas) : e = store_metadata(disk[n], SubSeq(metas, 1, k))
      BY <1>2
    <2> DEFINE p == SubSeq(metas, 1, k)
    <2>2. \A i \in 1 .. k : metas[i] \in Metadata
      BY <1>0
    <2>3. p \in Seq(Metadata) /\ Len(p) = k /\ (\A i \in 1 .. k : p[i] = metas[i])
      BY <1>0, <2>2, SubSeqProperties
    <2> HIDE DEF p
    <2>4. DiskOK(e) /\ (p = << >> => e.metadata = disk[n].metadata)
          /\ (p # << >> => e.metadata = p[Len(p)])
      BY <1>0, <2>1, <2>3, StoreMetadataOK DEF p
    <2>5. p # << >> => k \in 1 .. k /\ k \in 1 .. Len(metas) /\ p[Len(p)] = metas[k]
      BY <1>0, <2>3
    <2> QED  BY <2>4, <2>5
  <1>3. CASE e = Persisted(n, r) \/ e = WithSnapshot(n, r)
    <2>1. DiskOK(e) /\ e.metadata = d.metadata
      BY <1>3, PersistedOK, WithSnapshotOK
    <2> HIDE DEF d
    <2> QED  BY <1>1, <2>1
  <1>4. CASE log # None /\ \E k \in 0 .. Len(log.entries) : e = store_log_entries(d, torn(k))
    <2>1. PICK k \in 0 .. Len(log.entries) : e = store_log_entries(d, torn(k))
      BY <1>4
    <2>2. log \in [start_index : Nat, entries : Seq(Entry)]
          /\ log.entries \in Seq(Entry) /\ Len(log.entries) \in Nat
      BY <1>4 DEF ResultOK, AddendumOK
    <2>3. SubSeq(log.entries, 1, k) \in Seq(Entry)
      <3>1. \A i \in 1 .. k : log.entries[i] \in Entry
        BY <2>2
      <3> QED  BY <2>2, <3>1, SubSeqProperties
    <2>4. AddendumOK(torn(k))
      BY <2>2, <2>3 DEF AddendumOK
    <2> HIDE DEF torn, d
    <2>5. DiskOK(e) /\ e.metadata = d.metadata
      BY <1>1, <2>1, <2>4, StoreLogEntriesOK
    <2> QED  BY <1>1, <2>5
  <1>5. CASE \E k \in Nat : /\ Compacts(n, r.acts)
                            /\ e = own(k) \/ e = truncate_log(own(k))
    <2>1. PICK k \in Nat : Compacts(n, r.acts) /\ (e = own(k) \/ e = truncate_log(own(k)))
      BY <1>5
    <2>2. DiskOK(Persisted(n, r)) /\ Persisted(n, r).metadata = d.metadata
      BY PersistedOK
    <2>3. SnapshotOK(OwnSnapshot(n, r, k))
      BY <2>1, OwnSnapshotOK
    <2>4. DiskOK(own(k)) /\ own(k).metadata = d.metadata
      BY <2>2, <2>3, StoreSnapshotOK
    <2> HIDE DEF own, d
    <2>5. DiskOK(e) /\ e.metadata = d.metadata
      BY <2>1, <2>4, TruncateLogOK
    <2> QED  BY <1>1, <2>5
  <1>6. \/ \E k \in 0 .. Len(metas) : e = store_metadata(disk[n], SubSeq(metas, 1, k))
        \/ e = Persisted(n, r) \/ e = WithSnapshot(n, r)
        \/ log # None /\ \E k \in 0 .. Len(log.entries) : e = store_log_entries(d, torn(k))
        \/ Thresholds(n, r.acts) # {} /\ e = own(Min(Thresholds(n, r.acts)))
        \/ \E k \in Thresholds(n, r.acts) : e = truncate_log(own(k))
    <2> HIDE DEF own
    <2> QED  BY DEF CrashDisks, own
  <1>7. Thresholds(n, r.acts) \subseteq Nat
    BY DEF Thresholds
  <1>8. Thresholds(n, r.acts) # {} =>
            Compacts(n, r.acts) /\ Min(Thresholds(n, r.acts)) \in Nat
    <2>1. Thresholds(n, r.acts) # {} => Min(Thresholds(n, r.acts)) \in Thresholds(n, r.acts)
      BY <1>7, MinNat, Zenon
    <2> QED  BY <1>7, <2>1, Zenon DEF Compacts
  <1> HIDE DEF own, torn, d
  <1> QED  BY <1>2, <1>3, <1>4, <1>5, <1>6, <1>7, <1>8

\* A new core is a follower of term 0 without a vote.
LEMMA NewOK ==
    /\ new \in Core /\ new.last_applied = new.commit_index /\ new.state = Follower
    /\ new.current_term = 0 /\ new.voted_for = None
  <1>1. [p \in Node |-> None] \in [Node -> Option(Nat)] /\ None \in Option(Node)
    BY DEF Option
  <1>2. << >> \in Seq(Entry) /\ {} \in SUBSET Node /\ {} \in SUBSET [id : Nat, count : Nat]
    OBVIOUS
  <1>3. new \in Core
    BY <1>1, <1>2 DEF new, Core
  <1> QED  BY <1>3 DEF new

\* A node starts with the term and the vote on disk.
LEMMA RestoredOK ==
    ASSUME NEW d, DiskOK(d), ~StartupPanics(d)
    PROVE  LET c == Restored(d) IN
           /\ c \in Core /\ c.last_applied = c.commit_index /\ OnDisk(c, d)
           /\ c.state = Follower
  <1> DEFINE entries == IF d.log = None THEN << >> ELSE restore_log_entries(d)
             c == Restored(d)
  <1>0. new \in Core /\ new.last_applied = new.commit_index /\ new.state = Follower
        /\ new.current_term = 0 /\ new.voted_for = None
    BY NewOK
  <1>1. entries \in Seq(Entry)
    <2>1. CASE d.log = None
      BY <2>1
    <2>2. CASE d.log # None
      <3>1. d.log \in Seq(Frame) /\ Len(d.log) \in Nat
        BY <2>2 DEF DiskOK, Option
      <3>2. \A k \in 1 .. Len(d.log) : d.log[k].entry \in Entry
        <4>1. \A k \in 1 .. Len(d.log) : d.log[k] \in Frame
          BY <3>1
        <4>2. \A f \in Frame : f.entry \in Entry
          BY DEF Frame
        <4> QED  BY <4>1, <4>2
      <3>3. restore_log_entries(d) \in Seq(Entry)
        BY <3>1, <3>2 DEF restore_log_entries
      <3> QED  BY <2>2, <3>3
    <2> QED  BY <2>1, <2>2
  <1>2. d.metadata # None => d.metadata.term \in Nat /\ d.metadata.voted_for \in Option(Node)
    BY DEF DiskOK, Metadata, Option
  <1>3. ASSUME NEW t \in Nat, NEW v \in Option(Node)
        PROVE  LET e == restore(t, v, entries) IN
               /\ e \in Core /\ e.last_applied = e.commit_index /\ e.state = Follower
               /\ e.current_term = t /\ e.voted_for = v
    <2> DEFINE e == restore(t, v, entries)
    <2> HIDE DEF entries
    <2>1. e = [new EXCEPT !.current_term = t, !.voted_for = v, !.log = entries]
      BY DEF restore
    <2> HIDE DEF e
    <2>2. e \in Core
      BY <1>0, <1>1, <2>1 DEF Core
    <2>3. e.last_applied = e.commit_index /\ e.state = Follower
          /\ e.current_term = t /\ e.voted_for = v
      BY <1>0, <2>1 DEF Core
    <2> QED  BY <2>2, <2>3 DEF e
  <1>4. c = IF d.snapshot # None
            THEN restore_with_snapshot(d.metadata.term, d.metadata.voted_for, entries,
                     d.snapshot.last_included_index, d.snapshot.last_included_term)
            ELSE IF d.metadata # None
            THEN restore(d.metadata.term, d.metadata.voted_for, entries)
            ELSE new
    BY Zenon DEF Restored
  <1> HIDE DEF entries, c
  <1>5. CASE d.snapshot # None
    <2> DEFINE e == restore(d.metadata.term, d.metadata.voted_for, entries)
               i == d.snapshot.last_included_index
    <2>1. d.metadata # None
      BY <1>5 DEF StartupPanics
    <2>2. e \in Core /\ e.state = Follower
          /\ e.current_term = d.metadata.term /\ e.voted_for = d.metadata.voted_for
      BY <1>2, <1>3, <2>1
    <2>3. i \in Nat /\ d.snapshot.last_included_term \in Nat
      BY <1>5 DEF DiskOK
    <2>4. c = [e EXCEPT !.last_included_index = i,
                        !.last_included_term = d.snapshot.last_included_term,
                        !.commit_index = i, !.last_applied = i]
      BY <1>4, <1>5 DEF restore_with_snapshot
    <2> HIDE DEF e, i
    <2>5. c \in Core
      BY <2>2, <2>3, <2>4 DEF Core
    <2>6. c.last_applied = c.commit_index /\ c.state = Follower
          /\ c.current_term = d.metadata.term /\ c.voted_for = d.metadata.voted_for
      BY <2>2, <2>4 DEF Core
    <2> QED  BY <2>1, <2>5, <2>6 DEF OnDisk, DiskTerm, DiskVote, c
  <1>6. CASE d.snapshot = None /\ d.metadata # None
    BY <1>2, <1>3, <1>4, <1>6 DEF OnDisk, DiskTerm, DiskVote, c
  <1>7. CASE d.snapshot = None /\ d.metadata = None
    BY <1>0, <1>4, <1>7 DEF OnDisk, DiskTerm, DiskVote, c
  <1> QED  BY <1>5, <1>6, <1>7

\* Reading the snapshot file completes an InstallSnapshot message.
LEMMA OutgoingOK ==
    ASSUME NEW n \in Node, NEW r, \A m \in r.acts.send : MessageOK(m), NEW x \in Outgoing(n, r)
    PROVE  /\ MessageOK(x)
           /\ x.type = "RequestVoteResponse" => x \in r.acts.send
  <1>1. PICK m \in r.acts.send :
            x = IF m.type = "InstallSnapshot"
                THEN with_data(m, DiskAfter(n, r).snapshot.data) ELSE m
    BY DEF Outgoing
  <1>2. CASE m.type = "InstallSnapshot"
    <2> DEFINE data == DiskAfter(n, r).snapshot.data
    <2>1. x = with_data(m, data)
      BY <1>1, <1>2
    <2> HIDE DEF data
    <2>2. x.type = "InstallSnapshot" /\ x.from = m.from /\ x.to = m.to /\ x.term = m.term
          /\ x.last_included_index = m.last_included_index
          /\ x.last_included_term = m.last_included_term
      BY <2>1 DEF with_data
    <2> QED  BY <1>2, <2>2 DEF MessageOK
  <1>3. CASE m.type # "InstallSnapshot"
    BY <1>1, <1>3
  <1> QED  BY <1>2, <1>3

-----------------------------------------------------------------------------
(***************************************************************************)
(* The steps.                                                              *)
(***************************************************************************)
Proposals == SUBSET [index : Nat, command : Command]

\* The metadata an input writes may follow what is on disk.
LEMMA MetaFollows ==
    ASSUME TypeOK, NEW n \in Node, OnDisk(core[n], disk[n]), NEW r, MetaOK(core[n], r),
           NEW e
    PROVE  /\ e.metadata = disk[n].metadata => DiskFollows(disk[n], e)
           /\ \A k \in 1 .. Len(r.acts.meta) :
                 e.metadata = r.acts.meta[k] => DiskFollows(disk[n], e)
  <1>1. DiskOK(disk[n])
    BY DEF TypeOK
  <1>2. DiskTerm(disk[n]) \in Nat
    BY <1>1, DiskTermOK
  <1>3. ASSUME e.metadata = disk[n].metadata PROVE DiskFollows(disk[n], e)
    <2>1. DiskTerm(e) = DiskTerm(disk[n]) /\ DiskVote(e) = DiskVote(disk[n])
      BY <1>3 DEF DiskTerm, DiskVote
    <2> QED  BY <1>2, <2>1 DEF DiskFollows
  <1>4. ASSUME NEW k \in 1 .. Len(r.acts.meta), e.metadata = r.acts.meta[k]
        PROVE  DiskFollows(disk[n], e)
    <2>1. r.acts.meta[k] \in Metadata
      BY DEF MetaOK
    <2>2. Follows(core[n], e.metadata.term, e.metadata.voted_for)
      BY <1>4 DEF MetaOK
    <2>3. e.metadata \in Metadata
      BY <1>4, <2>1
    <2>4. e.metadata # None
      BY <2>3, ClusterAssumption
    <2>5. DiskTerm(e) = e.metadata.term /\ DiskVote(e) = e.metadata.voted_for
      BY <2>4 DEF DiskTerm, DiskVote
    <2> QED  BY <2>2, <2>5 DEF Follows, OnDisk, DiskFollows
  <1> QED  BY <1>3, <1>4

\* The term and the vote on disk after an input are those of the core.
LEMMA DiskAfterOnDisk ==
    ASSUME TypeOK, NEW n \in Node, OnDisk(core[n], disk[n]), NEW r, MetaOK(core[n], r),
           ResultOK(r)
    PROVE  /\ DiskOK(DiskAfter(n, r)) /\ DiskFollows(disk[n], DiskAfter(n, r))
           /\ OnDisk(CoreAfter(n, r), DiskAfter(n, r))
  <1> DEFINE metas == r.acts.meta
             d == DiskAfter(n, r)
             last == metas[Len(metas)]
  <1>0. DiskOK(disk[n]) /\ metas \in Seq(Metadata)
    BY DEF TypeOK, MetaOK
  <1>1. DiskOK(d) /\ d.metadata = store_metadata(disk[n], metas).metadata
    BY <1>0, WithSnapshotOK
  <1>2. OnDisk(r.core, d) => OnDisk(CoreAfter(n, r), d)
    BY CoreAfterOK DEF SameButLog, OnDisk
  <1> HIDE DEF d
  <1>3. CASE metas = << >>
    <2>1. d.metadata = disk[n].metadata
      BY <1>0, <1>1, <1>3, StoreMetadataOK
    <2>2. DiskFollows(disk[n], d)
      BY <2>1, MetaFollows
    <2>3. r.core.current_term = core[n].current_term /\ r.core.voted_for = core[n].voted_for
      BY <1>3 DEF MetaOK
    <2>4. OnDisk(r.core, d)
      BY <2>1, <2>3 DEF OnDisk, DiskTerm, DiskVote
    <2> QED  BY <1>1, <1>2, <2>2, <2>4 DEF d
  <1>4. CASE metas # << >>
    <2>1. d.metadata = last /\ Len(metas) \in 1 .. Len(metas) /\ last \in Metadata
      BY <1>0, <1>1, <1>4, StoreMetadataOK
    <2>2. DiskFollows(disk[n], d)
      BY <2>1, MetaFollows
    <2>3. last = [term |-> r.core.current_term, voted_for |-> r.core.voted_for]
      BY <1>4 DEF MetaOK
    <2>4. d.metadata # None
      BY <2>1, ClusterAssumption
    <2>5. OnDisk(r.core, d)
      BY <2>1, <2>3, <2>4 DEF OnDisk, DiskTerm, DiskVote
    <2> QED  BY <1>1, <1>2, <2>2, <2>5 DEF d
  <1> QED  BY <1>3, <1>4

\* An input handled to the end preserves IInv.
LEMMA PerformInv ==
    ASSUME IInv, NEW n \in Node \ panicked, NEW r, MetaOK(core[n], r), ResultOK(r),
           NEW pending \in Proposals, NEW rest \in SUBSET net, Perform(n, r, pending, rest)
    PROVE  IInv'
  <1> DEFINE c == CoreAfter(n, r)
             d == DiskAfter(n, r)
  <1>0. TypeOK /\ AppliedIsCommitted /\ CoreOnDisk /\ VotesOnDisk /\ VoteOncePerTerm
    BY DEF IInv, VoteInv
  <1>1. OnDisk(core[n], disk[n])
    BY <1>0 DEF CoreOnDisk
  <1>2. c \in Core /\ SameButLog(r.core, c)
    BY <1>0, CoreAfterOK
  <1>3. DiskOK(d) /\ DiskFollows(disk[n], d) /\ OnDisk(c, d)
    BY <1>0, <1>1, DiskAfterOnDisk
  <1>4. core' = [core EXCEPT ![n] = c] /\ disk' = [disk EXCEPT ![n] = d]
        /\ votes' = votes \cup VoteOf(n, c)
    BY Zenon DEF Perform, Recorded
  <1>5. panicked' = panicked \/ panicked' = panicked \cup {n}
    BY DEF Perform
  <1>6. core \in [Node -> Core] /\ DOMAIN disk = Node /\ panicked \subseteq Node
        /\ crashes \in Nat /\ num_entries \in [Node -> 0 .. SnapshotThreshold - 1]
        /\ pending_proposals \in [Node -> Proposals]
        /\ (\A k \in Node : DiskOK(disk[k])) /\ (\A m \in net : MessageOK(m))
    BY <1>0 DEF TypeOK, Proposals
  <1> HIDE DEF c, d
  <1>7. core'[n] = c /\ disk'[n] = d
        /\ (\A k \in Node : k # n => core'[k] = core[k] /\ disk'[k] = disk[k])
    BY <1>4, <1>6
  <1>8. TypeOK'
    <2>1. core' \in [Node -> Core] /\ DOMAIN disk' = Node
      BY <1>2, <1>4, <1>6
    <2>2. \A k \in Node : DiskOK(disk'[k])
      BY <1>3, <1>6, <1>7
    <2>3. pending_proposals' \in [Node -> Proposals]
      <3>1. pending_proposals' = [pending_proposals EXCEPT ![n] = pending]
        BY DEF Perform
      <3> QED  BY <1>6, <3>1
    <2>4. num_entries' \in [Node -> 0 .. SnapshotThreshold - 1]
      <3>1. num_entries' = [num_entries EXCEPT ![n] = NumEntriesAfter(n, r.acts)]
        BY DEF Perform
      <3>2. NumEntriesAfter(n, r.acts) \in 0 .. SnapshotThreshold - 1
        BY <1>0, CountedOK DEF ResultOK
      <3> QED  BY <1>6, <3>1, <3>2
    <2>5. \A m \in net' : MessageOK(m)
      <3>1. PICK sent \in SUBSET Outgoing(n, r) : net' = rest \cup sent
        BY DEF Perform
      <3>2. \A m \in Outgoing(n, r) : MessageOK(m)
        BY OutgoingOK DEF ResultOK
      <3> QED  BY <1>6, <3>1, <3>2
    <2>6. panicked' \subseteq Node
      BY <1>5, <1>6
    <2>7. crashes' \in Nat
      BY <1>6 DEF Perform
    <2> QED  BY <2>1, <2>2, <2>3, <2>4, <2>5, <2>6, <2>7 DEF TypeOK, Proposals
  <1>9. AppliedIsCommitted'
    <2>1. c.last_applied = c.commit_index
      BY <1>2 DEF ResultOK, SameButLog
    <2> QED  BY <1>0, <1>7, <2>1 DEF AppliedIsCommitted
  <1>10. CoreOnDisk'
    BY <1>0, <1>3, <1>5, <1>7 DEF CoreOnDisk
  <1>11. VotesOnDisk' /\ VoteOncePerTerm'
    BY <1>0, <1>3, <1>4, VoteStep
  <1> QED  BY <1>8, <1>9, <1>10, <1>11 DEF IInv, VoteInv

\* A panic of the core preserves IInv.
LEMMA CorePanicInv ==
    ASSUME IInv, NEW n \in Node, NEW r, NEW rest \in SUBSET net, CorePanic(n, r, rest)
    PROVE  IInv'
  <1>1. core' = core /\ disk' = disk /\ pending_proposals' = pending_proposals
        /\ num_entries' = num_entries /\ crashes' = crashes /\ votes' = votes
        /\ net' = rest /\ panicked' = panicked \cup {n}
    BY DEF CorePanic, driver
  <1>2. TypeOK'
    BY <1>1 DEF IInv, TypeOK
  <1>3. AppliedIsCommitted'
    BY <1>1 DEF IInv, AppliedIsCommitted
  <1>4. CoreOnDisk'
    BY <1>1 DEF IInv, VoteInv, CoreOnDisk
  <1>5. VotesOnDisk' /\ VoteOncePerTerm'
    BY <1>1 DEF IInv, VoteInv, VotesOnDisk, VoteOncePerTerm
  <1> QED  BY <1>2, <1>3, <1>4, <1>5 DEF IInv, VoteInv

\* So does a restart on files that are not behind the ones before.
LEMMA StartOnInv ==
    ASSUME IInv, NEW n \in Node, NEW d, DiskOK(d), DiskFollows(disk[n], d), StartOn(n, d),
           net' \subseteq net
    PROVE  IInv'
  <1> DEFINE c == IF StartupPanics(d) THEN new ELSE Restored(d)
  <1>0. TypeOK /\ AppliedIsCommitted /\ CoreOnDisk /\ VotesOnDisk /\ VoteOncePerTerm
    BY DEF IInv, VoteInv
  <1>1. core \in [Node -> Core] /\ DOMAIN disk = Node /\ panicked \subseteq Node
        /\ crashes \in Nat /\ num_entries \in [Node -> 0 .. SnapshotThreshold - 1]
        /\ pending_proposals \in [Node -> Proposals]
        /\ (\A k \in Node : DiskOK(disk[k])) /\ (\A m \in net : MessageOK(m))
    BY <1>0 DEF TypeOK, Proposals
  <1>2. core' = [core EXCEPT ![n] = c] /\ disk' = [disk EXCEPT ![n] = d]
        /\ panicked' = (IF StartupPanics(d) THEN panicked \cup {n} ELSE panicked \ {n})
        /\ crashes' = crashes + 1
        /\ votes' = votes \cup VoteOf(n, core'[n])
        /\ pending_proposals' = [pending_proposals EXCEPT ![n] = {}]
        /\ num_entries' = [num_entries EXCEPT ![n] = 0]
    BY Zenon DEF StartOn, Recorded
  <1>3. c \in Core /\ c.last_applied = c.commit_index
        /\ (c.voted_for = None \/ OnDisk(c, d)) /\ (~StartupPanics(d) => OnDisk(c, d))
    <2>1. CASE StartupPanics(d)
      BY <2>1, NewOK
    <2>2. CASE ~StartupPanics(d)
      BY <2>2, RestoredOK
    <2> QED  BY <2>1, <2>2
  <1> HIDE DEF c
  <1>4. core'[n] = c /\ disk'[n] = d
        /\ (\A k \in Node : k # n => core'[k] = core[k] /\ disk'[k] = disk[k])
    BY <1>1, <1>2
  <1>5. TypeOK'
    <2>1. core' \in [Node -> Core] /\ DOMAIN disk' = Node
      BY <1>1, <1>2, <1>3
    <2>2. \A k \in Node : DiskOK(disk'[k])
      BY <1>1, <1>4
    <2>3. pending_proposals' \in [Node -> Proposals]
      <3>1. {} \in Proposals
        BY DEF Proposals
      <3> QED  BY <1>1, <1>2, <3>1
    <2>4. num_entries' \in [Node -> 0 .. SnapshotThreshold - 1]
      <3>1. 0 \in 0 .. SnapshotThreshold - 1
        BY ClusterAssumption
      <3> QED  BY <1>1, <1>2, <3>1
    <2>5. panicked' \subseteq Node /\ crashes' \in Nat /\ (\A m \in net' : MessageOK(m))
      BY <1>1, <1>2
    <2> QED  BY <2>1, <2>2, <2>3, <2>4, <2>5 DEF TypeOK, Proposals
  <1>6. AppliedIsCommitted'
    BY <1>0, <1>3, <1>4 DEF AppliedIsCommitted
  <1>7. CoreOnDisk'
    BY <1>0, <1>2, <1>3, <1>4 DEF CoreOnDisk
  <1>8. VotesOnDisk' /\ VoteOncePerTerm'
    <2>1. votes' = votes \cup VoteOf(n, c) /\ disk' = [disk EXCEPT ![n] = d]
      BY <1>2, <1>4
    <2> QED  BY <1>0, <1>3, <2>1, VoteStep
  <1> QED  BY <1>5, <1>6, <1>7, <1>8 DEF IInv, VoteInv

\* An input preserves IInv, however it ends.
LEMMA HandleInv ==
    ASSUME IInv, NEW n \in Node \ panicked, NEW r, ~r.panic => StepOK(n, core[n], r),
           NEW pending \in Proposals, NEW rest \in SUBSET net, Handle(n, r, pending, rest)
    PROVE  IInv'
  <1>1. CASE Perform(n, r, pending, rest)
    <2>1. MetaOK(core[n], r) /\ ResultOK(r)
      BY <1>1 DEF Perform, StepOK
    <2> QED  BY <1>1, <2>1, PerformInv
  <1>2. CASE CorePanic(n, r, rest)
    BY <1>2, CorePanicInv
  <1>3. CASE Interrupted(n, r, rest)
    <2>1. MetaOK(core[n], r) /\ ResultOK(r)
      BY <1>3 DEF Interrupted, StepOK
    <2>2. PICK d \in CrashDisks(n, r) : StartOn(n, d)
      BY <1>3 DEF Interrupted
    <2>3. TypeOK /\ OnDisk(core[n], disk[n]) /\ r.acts.meta \in Seq(Metadata)
      BY <2>1 DEF IInv, VoteInv, CoreOnDisk, MetaOK
    <2>4. DiskOK(d) /\ (\/ d.metadata = disk[n].metadata
                        \/ \E k \in 1 .. Len(r.acts.meta) : d.metadata = r.acts.meta[k])
      BY <2>1, <2>3, CrashDisksOK
    <2>5. DiskFollows(disk[n], d)
      BY <2>1, <2>3, <2>4, MetaFollows
    <2>6. net' \subseteq net
      BY <1>3 DEF Interrupted
    <2> QED  BY <2>2, <2>4, <2>5, <2>6, StartOnInv
  <1> QED  BY <1>1, <1>2, <1>3 DEF Handle

\* The proposals that go on waiting are some of those that waited.
LEMMA ProposalsAfterOK ==
    ASSUME TypeOK, NEW n \in Node, NEW r
    PROVE  ProposalsAfter(n, r) \in Proposals
  <1>1. pending_proposals[n] \in Proposals
    BY DEF TypeOK, Proposals
  <1> QED  BY <1>1 DEF ProposalsAfter, Proposals

\* What IInv says about one core.
LEMMA StateOK ==
    ASSUME IInv, NEW n \in Node
    PROVE  core[n] \in Core /\ core[n].last_applied = core[n].commit_index
  BY DEF IInv, TypeOK, AppliedIsCommitted

\* Heartbeat preserves IInv.
LEMMA HeartbeatInv == ASSUME IInv, NEW n \in Node, Heartbeat(n) PROVE IInv'
  <1> DEFINE r == heartbeat(n, core[n])
  <1>1. n \in Node \ panicked /\ Handle(n, r, ProposalsAfter(n, r), net)
    BY DEF Heartbeat, Running
  <1>2. StepOK(n, core[n], r) /\ TypeOK
    BY StateOK, HeartbeatOK DEF IInv
  <1>3. ProposalsAfter(n, r) \in Proposals /\ net \in SUBSET net
    BY <1>2, ProposalsAfterOK
  <1> HIDE DEF r
  <1> QED  BY <1>1, <1>2, <1>3, HandleInv

\* Timeout preserves IInv.
LEMMA TimeoutInv == ASSUME IInv, NEW n \in Node, Timeout(n) PROVE IInv'
  <1> DEFINE r == election_timeout(n, core[n])
  <1>1. n \in Node \ panicked /\ Handle(n, r, ProposalsAfter(n, r), net)
    BY DEF Timeout, Running
  <1>2. StepOK(n, core[n], r) /\ TypeOK
    BY StateOK, ElectionTimeoutOK DEF IInv
  <1>3. ProposalsAfter(n, r) \in Proposals /\ net \in SUBSET net
    BY <1>2, ProposalsAfterOK
  <1> HIDE DEF r
  <1> QED  BY <1>1, <1>2, <1>3, HandleInv

\* Propose preserves IInv.
LEMMA ProposeInv ==
    ASSUME IInv, NEW n \in Node, NEW command \in Command, Propose(n, command)
    PROVE  IInv'
  <1> DEFINE r == propose(n, core[n], command)
             index == r.acts.log.start_index
             pending == {p \in pending_proposals[n] : p.index # index}
                        \cup {[index |-> index, command |-> command]}
  <1>1. n \in Node \ panicked /\ Handle(n, r, pending, net)
    BY DEF Propose, Running
  <1>2. StepOK(n, core[n], r) /\ index \in Nat /\ TypeOK
    BY StateOK, ProposeOK DEF IInv
  <1>3. pending \in Proposals /\ net \in SUBSET net
    <2>1. pending_proposals[n] \in Proposals
      BY <1>2 DEF TypeOK, Proposals
    <2> HIDE DEF r
    <2> QED  BY <1>2, <2>1 DEF Proposals
  <1> HIDE DEF r, pending
  <1> QED  BY <1>1, <1>2, <1>3, HandleInv

\* ReadRequest preserves IInv.
LEMMA ReadRequestInv == ASSUME IInv, NEW n \in Node, ReadRequest(n) PROVE IInv'
  <1> DEFINE c == request_read_barrier(core[n])
  <1>1. core' = [core EXCEPT ![n] = c] /\ disk' = disk /\ net' = net
        /\ pending_proposals' = pending_proposals /\ num_entries' = num_entries
        /\ panicked' = panicked /\ crashes' = crashes /\ votes' = votes
    BY DEF ReadRequest
  <1>2. core[n] \in Core /\ core \in [Node -> Core]
    BY DEF IInv, TypeOK
  <1>3. c \in Core /\ SameButLog(core[n], c)
    <2> DEFINE b == core[n]
               id == b.next_read_barrier_id + 1
               barriers == b.read_barriers \cup {[id |-> id, count |-> 0]}
    <2>1. c = [b EXCEPT !.next_read_barrier_id = id, !.read_barriers = barriers]
      BY DEF request_read_barrier
    <2>2. id \in Nat /\ barriers \in SUBSET [id : Nat, count : Nat]
      BY <1>2 DEF Core
    <2>3. b \in Core
      BY <1>2
    <2> HIDE DEF id, barriers, c, b
    <2>4. c \in Core
      BY <2>1, <2>2, <2>3 DEF Core
    <2>5. SameButLog(b, c)
      BY <2>1, <2>3 DEF Core, SameButLog
    <2> QED  BY <2>4, <2>5 DEF b
  <1> HIDE DEF c
  <1>4. core'[n] = c /\ (\A k \in Node : k # n => core'[k] = core[k])
        /\ core' \in [Node -> Core]
    BY <1>1, <1>2, <1>3
  <1>5. TypeOK'
    BY <1>1, <1>4 DEF IInv, TypeOK
  <1>6. AppliedIsCommitted'
    BY <1>3, <1>4 DEF IInv, AppliedIsCommitted, SameButLog
  <1>7. CoreOnDisk'
    BY <1>1, <1>3, <1>4 DEF IInv, VoteInv, CoreOnDisk, OnDisk, SameButLog
  <1>8. VotesOnDisk' /\ VoteOncePerTerm'
    BY <1>1 DEF IInv, VoteInv, VotesOnDisk, VoteOncePerTerm
  <1> QED  BY <1>5, <1>6, <1>7, <1>8 DEF IInv, VoteInv

\* Restart preserves IInv.
LEMMA RestartInv == ASSUME IInv, NEW n \in Node, Restart(n) PROVE IInv'
  <1>1. DiskOK(disk[n]) /\ StartOn(n, disk[n]) /\ net' \subseteq net
    BY DEF IInv, TypeOK, Restart
  <1>2. DiskFollows(disk[n], disk[n])
    BY <1>1, DiskTermOK DEF DiskFollows
  <1> QED  BY <1>1, <1>2, StartOnInv

\* A message, whatever its handler.
LEMMA MessageInv ==
    ASSUME IInv, NEW m \in net, NEW r, ~r.panic => StepOK(m.to, core[m.to], r),
           Running(m.to),
           \E rest \in {net \ {m}} \cup (IF Duplicates THEN {net} ELSE {}) :
               Handle(m.to, r, ProposalsAfter(m.to, r), rest)
    PROVE  IInv'
  <1>1. TypeOK /\ m.to \in Node \ panicked
    BY DEF IInv, TypeOK, MessageOK, Running
  <1>2. PICK rest \in SUBSET net : Handle(m.to, r, ProposalsAfter(m.to, r), rest)
    <2>1. \A rest \in {net \ {m}} \cup (IF Duplicates THEN {net} ELSE {}) :
              rest \in SUBSET net
      OBVIOUS
    <2> QED  BY <2>1
  <1>3. ProposalsAfter(m.to, r) \in Proposals
    BY <1>1, ProposalsAfterOK
  <1> QED  BY <1>1, <1>2, <1>3, HandleInv

\* Each of the six messages preserves IInv.
LEMMA ReceiveInv ==
    ASSUME IInv, NEW m \in net,
           \/ RequestVote(m) \/ RequestVoteResponse(m)
           \/ AppendEntries(m) \/ AppendEntriesResponse(m)
           \/ InstallSnapshot(m) \/ InstallSnapshotResponse(m)
    PROVE  IInv'
  <1>1. MessageOK(m) /\ m.to \in Node
    BY DEF IInv, TypeOK, MessageOK
  <1>2. core[m.to] \in Core /\ core[m.to].last_applied = core[m.to].commit_index
    BY <1>1, StateOK
  <1>3. CASE RequestVote(m)
    BY <1>1, <1>2, <1>3, RequestVoteOK, MessageInv DEF RequestVote, Receive
  <1>4. CASE RequestVoteResponse(m)
    BY <1>1, <1>2, <1>4, RequestVoteResponseOK, MessageInv DEF RequestVoteResponse, Receive
  <1>5. CASE AppendEntries(m)
    BY <1>1, <1>2, <1>5, AppendEntriesOK, MessageInv DEF AppendEntries, Receive
  <1>6. CASE AppendEntriesResponse(m)
    BY <1>1, <1>2, <1>6, AppendEntriesResponseOK, MessageInv DEF AppendEntriesResponse, Receive
  <1>7. CASE InstallSnapshot(m)
    BY <1>1, <1>2, <1>7, InstallSnapshotOK, MessageInv DEF InstallSnapshot, Receive
  <1>8. CASE InstallSnapshotResponse(m)
    BY <1>1, <1>2, <1>8, InstallSnapshotResponseOK, MessageInv
       DEF InstallSnapshotResponse, Receive
  <1> QED  BY <1>3, <1>4, <1>5, <1>6, <1>7, <1>8

-----------------------------------------------------------------------------
\* IInv holds before the first input.
LEMMA InitInv == Init => IInv
  <1> SUFFICES ASSUME Init PROVE IInv
    OBVIOUS
  <1>1. \A n \in Node : core[n] = new /\ disk[n] = EmptyDisk
    BY DEF Init
  <1>2. EmptyDisk.metadata = None /\ EmptyDisk.log = None /\ EmptyDisk.snapshot = None
    BY DEF EmptyDisk
  <1>3. DiskOK(EmptyDisk) /\ OnDisk(new, EmptyDisk)
    BY <1>2, NewOK DEF DiskOK, Option, OnDisk, DiskTerm, DiskVote
  <1>4. TypeOK
    <2>1. core \in [Node -> Core]
      BY NewOK DEF Init
    <2>2. DOMAIN disk = Node /\ \A n \in Node : DiskOK(disk[n])
      BY <1>1, <1>3 DEF Init
    <2>3. pending_proposals \in [Node -> SUBSET [index : Nat, command : Command]]
      BY DEF Init
    <2>4. num_entries \in [Node -> 0 .. SnapshotThreshold - 1]
      BY ClusterAssumption DEF Init
    <2> QED  BY <2>1, <2>2, <2>3, <2>4 DEF Init, TypeOK
  <1>5. AppliedIsCommitted
    BY <1>1, NewOK DEF AppliedIsCommitted
  <1>6. CoreOnDisk
    BY <1>1, <1>3 DEF CoreOnDisk
  <1>7. VotesOnDisk /\ VoteOncePerTerm
    BY DEF Init, VotesOnDisk, VoteOncePerTerm
  <1> QED  BY <1>4, <1>5, <1>6, <1>7 DEF IInv, VoteInv

\* Every step preserves IInv.
LEMMA NextInv == IInv /\ [Next]_vars => IInv'
  <1> SUFFICES ASSUME IInv, [Next]_vars PROVE IInv'
    OBVIOUS
  <1>1. CASE \E n \in Node : Timeout(n) \/ Heartbeat(n) \/ ReadRequest(n) \/ Restart(n)
    BY <1>1, TimeoutInv, HeartbeatInv, ReadRequestInv, RestartInv
  <1>2. CASE \E n \in Node, command \in Command : Propose(n, command)
    BY <1>2, ProposeInv
  <1>3. CASE \E m \in net : \/ RequestVote(m) \/ RequestVoteResponse(m)
                            \/ AppendEntries(m) \/ AppendEntriesResponse(m)
                            \/ InstallSnapshot(m) \/ InstallSnapshotResponse(m)
    BY <1>3, ReceiveInv
  <1>4. CASE UNCHANGED vars
    <2>1. core' = core /\ disk' = disk /\ pending_proposals' = pending_proposals
          /\ num_entries' = num_entries /\ net' = net /\ panicked' = panicked
          /\ crashes' = crashes /\ votes' = votes
      BY <1>4 DEF vars
    <2> QED  BY <2>1 DEF IInv, TypeOK, AppliedIsCommitted, VoteInv, CoreOnDisk,
                         VotesOnDisk, VoteOncePerTerm
  <1> QED  BY <1>1, <1>2, <1>3, <1>4 DEF Next

\* Whatever the network delivers and whenever nodes crash, every core, file
\* and message keeps its type.
THEOREM TypeCorrectness == Spec => []TypeOK
  <1>1. IInv => TypeOK
    BY DEF IInv
  <1> QED  BY InitInv, NextInv, <1>1, PTL DEF Spec

\* Whatever the network delivers and whenever nodes crash, no node ever holds
\* two different votes in one term: the PersistMetadata of handle_request_vote,
\* election_timeout and check_msg_term come before the message.
THEOREM OneVotePerTerm == Spec => []VoteOncePerTerm
  <1>1. IInv => VoteOncePerTerm
    BY DEF IInv, VoteInv
  <1> QED  BY InitInv, NextInv, <1>1, PTL DEF Spec

-----------------------------------------------------------------------------
(***************************************************************************)
(* ElectionSafety, on a network that keeps late responses away.  What is   *)
(* counted are votes: every granted response in flight, every vote a       *)
(* candidate has counted and the majority behind every leader are among    *)
(* the votes of exactly that term.  Two majorities share a voter, and it   *)
(* has one vote per term.                                                  *)
(***************************************************************************)
Vote(term, voter, candidate) == [term |-> term, voter |-> voter, candidate |-> candidate]

\* More than half of the nodes have voted for the node in the term.
ByMajority(term, node) ==
    \E Q \in SUBSET Node :
        /\ 2 * Cardinality(Q) > Cardinality(Node)
        /\ \A q \in Q : Vote(term, q, node) \in votes

GrantsAreVotes ==
    \A x \in net : x.type = "RequestVoteResponse" /\ x.vote_granted =>
        Vote(x.term, x.from, x.to) \in votes

CountedAreVotes ==
    \A n \in Node : core[n].state = Candidate =>
        \A q \in core[n].votes_received : Vote(core[n].current_term, q, n) \in votes

LeadersAreElected == \A l \in leaders : ByMajority(l.term, l.node)

LeadersAreRecorded ==
    \A n \in Node : core[n].state = Leader =>
        [term |-> core[n].current_term, node |-> n] \in leaders

ElectionInv ==
    GrantsAreVotes /\ CountedAreVotes /\ LeadersAreElected /\ LeadersAreRecorded

\* The role a method gives node n is earned by votes.
Earned(n, r) ==
    /\ r.core.state = Candidate =>
          \A q \in r.core.votes_received :
              Vote(r.core.current_term, q, n) \in votes \cup VoteOf(n, r.core)
    /\ r.core.state = Leader =>
          \/ [term |-> r.core.current_term, node |-> n] \in leaders
          \/ ByMajority(r.core.current_term, n)

\* A method that makes no candidate and no leader.
LEMMA RoleEarned ==
    ASSUME ElectionInv, NEW n \in Node, NEW r, RoleOK(core[n], r)
    PROVE  Earned(n, r)
  <1>1. Candidate # Follower /\ Leader # Follower
    BY DEF Candidate, Leader, Follower
  <1> QED  BY <1>1 DEF ElectionInv, CountedAreVotes, LeadersAreRecorded, RoleOK, Earned

\* An election timeout: the candidate's own vote.
LEMMA TimeoutEarned ==
    ASSUME IInv, NEW n \in Node
    PROVE  Earned(n, election_timeout(n, core[n]))
  <1> DEFINE r == election_timeout(n, core[n])
  <1>1. r.core.state = Candidate /\ r.core.votes_received = {n} /\ r.core.voted_for = n
    BY StateOK, ElectionTimeoutOK
  <1> HIDE DEF r
  <1>2. n # None /\ Candidate # Leader
    BY CoreAssumption DEF Candidate, Leader
  <1>3. Vote(r.core.current_term, n, n) \in VoteOf(n, r.core)
    BY <1>1, <1>2 DEF VoteOf, Vote
  <1>4. Earned(n, r)
    BY <1>1, <1>2, <1>3 DEF Earned
  <1> QED  BY <1>4 DEF r

\* A response of the candidate's own term.
LEMMA ResponseEarned ==
    ASSUME IInv, ElectionInv, NEW m \in net, m.type = "RequestVoteResponse",
           m.term >= core[m.to].current_term
    PROVE  Earned(m.to, handle_request_vote_response(m.to, core[m.to], m))
  <1> DEFINE n == m.to
             c == core[m.to]
             r == handle_request_vote_response(m.to, core[m.to], m)
  <1>1. MessageOK(m) /\ n \in Node /\ m.from \in Node /\ m.term \in Nat
    BY DEF IInv, TypeOK, MessageOK
  <1>2. c \in Core /\ c.last_applied = c.commit_index /\ c.current_term \in Nat
        /\ c.votes_received \in SUBSET Node
    BY <1>1, StateOK DEF Core
  <1>3. ElectOK(c, m, r)
    BY <1>1, <1>2, RequestVoteResponseOK
  <1>4. Candidate # Follower /\ Leader # Follower
    BY DEF Candidate, Leader, Follower
  <1>5. m.vote_granted => Vote(m.term, m.from, n) \in votes
    BY DEF ElectionInv, GrantsAreVotes
  <1>6. c.state = Candidate => \A q \in c.votes_received : Vote(c.current_term, q, n) \in votes
    BY <1>1 DEF ElectionInv, CountedAreVotes
  <1>7. c.state = Leader => [term |-> c.current_term, node |-> n] \in leaders
    BY <1>1 DEF ElectionInv, LeadersAreRecorded
  <1> HIDE DEF n, c, r
  <1>8. r.core.state # Follower => r.core.current_term = c.current_term /\ m.term = c.current_term
    BY <1>1, <1>2, <1>3 DEF ElectOK, c
  <1>9. CASE r.core.state = Candidate
    <2>1. \A q \in r.core.votes_received : Vote(r.core.current_term, q, n) \in votes
      BY <1>3, <1>4, <1>5, <1>6, <1>8, <1>9 DEF ElectOK
    <2>2. Candidate # Leader
      BY DEF Candidate, Leader
    <2> QED  BY <1>9, <2>1, <2>2 DEF Earned, n, c, r
  <1>10. CASE r.core.state = Leader
    <2>1. r.core.current_term = c.current_term /\ m.term = c.current_term
      BY <1>4, <1>8, <1>10
    <2>2. CASE c.state = Leader
      BY <1>7, <1>10, <2>1, <2>2 DEF Earned, n, c, r, Leader, Candidate
    <2>3. CASE c.state # Leader
      <3> DEFINE Q == c.votes_received \cup {m.from}
      <3>1. c.state = Candidate /\ m.vote_granted
            /\ 2 * Cardinality(Q) > Cardinality(Node)
        BY <1>3, <1>10, <2>3 DEF ElectOK
      <3>2. Q \in SUBSET Node /\ \A q \in Q : Vote(c.current_term, q, n) \in votes
        BY <1>1, <1>2, <1>5, <1>6, <2>1, <3>1
      <3> HIDE DEF Q
      <3>3. ByMajority(r.core.current_term, n)
        BY <2>1, <3>1, <3>2 DEF ByMajority
      <3> QED  BY <1>10, <3>3 DEF Earned, n, c, r, Leader, Candidate
    <2> QED  BY <2>2, <2>3
  <1>11. CASE r.core.state # Candidate /\ r.core.state # Leader
    BY <1>11 DEF Earned, n, c, r
  <1> QED  BY <1>9, <1>10, <1>11

\* Votes are never taken back.
LEMMA MajorityStays ==
    ASSUME NEW t, NEW n, ByMajority(t, n), votes \subseteq votes'
    PROVE  ByMajority(t, n)'
  BY DEF ByMajority

\* A step of node n to core c that keeps the history and adds its own.
LEMMA ElectionStep ==
    ASSUME TypeOK, ElectionInv, NEW n \in Node, NEW c,
           core' = [core EXCEPT ![n] = c],
           votes' = votes \cup VoteOf(n, c), leaders' = leaders \cup LeaderOf(n, c),
           c.state = Candidate =>
               \A q \in c.votes_received : Vote(c.current_term, q, n) \in votes',
           c.state = Leader => \/ [term |-> c.current_term, node |-> n] \in leaders
                               \/ ByMajority(c.current_term, n),
           \A x \in net' \ net : x.type = "RequestVoteResponse" /\ x.vote_granted =>
               Vote(x.term, x.from, x.to) \in votes'
    PROVE  ElectionInv'
  <1>1. core'[n] = c /\ \A k \in Node : k # n => core'[k] = core[k]
    BY DEF TypeOK
  <1>2. votes \subseteq votes' /\ leaders \subseteq leaders'
    OBVIOUS
  <1>3. GrantsAreVotes'
    BY <1>2 DEF ElectionInv, GrantsAreVotes
  <1>4. CountedAreVotes'
    <2> SUFFICES ASSUME NEW k \in Node, core'[k].state = Candidate,
                        NEW q \in core'[k].votes_received
                 PROVE  Vote(core'[k].current_term, q, k) \in votes'
      BY DEF CountedAreVotes
    <2>1. CASE k = n
      BY <1>1, <2>1
    <2>2. CASE k # n
      BY <1>1, <1>2, <2>2 DEF ElectionInv, CountedAreVotes
    <2> QED  BY <2>1, <2>2
  <1>5. LeadersAreElected'
    <2> SUFFICES ASSUME NEW l \in leaders' PROVE ByMajority(l.term, l.node)'
      BY DEF LeadersAreElected
    <2>1. ByMajority(l.term, l.node)
      <3>1. CASE l \in leaders
        BY <3>1 DEF ElectionInv, LeadersAreElected
      <3>2. CASE l \in LeaderOf(n, c) /\ l \notin leaders
        <4>1. c.state = Leader /\ l = [term |-> c.current_term, node |-> n]
          BY <3>2 DEF LeaderOf, is_leader
        <4>2. l.term = c.current_term /\ l.node = n /\ ByMajority(c.current_term, n)
          BY <3>2, <4>1
        <4> QED  BY <4>2
      <3> QED  BY <3>1, <3>2
    <2> QED  BY <1>2, <2>1, MajorityStays
  <1>6. LeadersAreRecorded'
    <2> SUFFICES ASSUME NEW k \in Node, core'[k].state = Leader
                 PROVE  [term |-> core'[k].current_term, node |-> k] \in leaders'
      BY DEF LeadersAreRecorded
    <2>1. CASE k = n
      BY <1>1, <2>1 DEF LeaderOf, is_leader
    <2>2. CASE k # n
      BY <1>1, <1>2, <2>2 DEF ElectionInv, LeadersAreRecorded
    <2> QED  BY <2>1, <2>2
  <1> QED  BY <1>3, <1>4, <1>5, <1>6 DEF ElectionInv

\* A node starts as a follower.
LEMMA StartOnElection ==
    ASSUME TypeOK, ElectionInv, NEW n \in Node, NEW d, DiskOK(d), StartOn(n, d),
           net' \subseteq net
    PROVE  ElectionInv'
  <1> DEFINE c == IF StartupPanics(d) THEN new ELSE Restored(d)
  <1>1. c.state = Follower
    BY NewOK, RestoredOK
  <1>2. core' = [core EXCEPT ![n] = c] /\ Recorded(n, core'[n])
    BY Zenon DEF StartOn
  <1> HIDE DEF c
  <1>3. core'[n] = c
    BY <1>2 DEF TypeOK
  <1>4. votes' = votes \cup VoteOf(n, c) /\ leaders' = leaders \cup LeaderOf(n, c)
    BY <1>2, <1>3 DEF Recorded
  <1>5. c.state # Candidate /\ c.state # Leader
    BY <1>1 DEF Follower, Candidate, Leader
  <1> QED  BY <1>2, <1>4, <1>5, ElectionStep

\* An input preserves ElectionInv, however it ends.
LEMMA HandleElection ==
    ASSUME IInv, ElectionInv, NEW n \in Node \ panicked, NEW r,
           ~r.panic => StepOK(n, core[n], r) /\ Earned(n, r),
           NEW pending, NEW rest \in SUBSET net, Handle(n, r, pending, rest)
    PROVE  ElectionInv'
  <1>0. TypeOK
    BY DEF IInv
  <1>1. CASE Perform(n, r, pending, rest)
    <2> DEFINE c == CoreAfter(n, r)
    <2>1. GrantOK(n, r) /\ ResultOK(r) /\ Earned(n, r)
      BY <1>1 DEF Perform, StepOK
    <2>2. SameButLog(r.core, c)
      BY <1>0, <2>1, CoreAfterOK
    <2>3. core' = [core EXCEPT ![n] = c] /\ votes' = votes \cup VoteOf(n, c)
          /\ leaders' = leaders \cup LeaderOf(n, c)
      BY <1>1, Zenon DEF Perform, Recorded
    <2> HIDE DEF c
    <2>4. VoteOf(n, r.core) = VoteOf(n, c)
      BY <2>2 DEF VoteOf, SameButLog
    <2>5. c.state = Candidate =>
              \A q \in c.votes_received : Vote(c.current_term, q, n) \in votes'
      BY <2>1, <2>2, <2>3, <2>4 DEF Earned, SameButLog
    <2>6. c.state = Leader => \/ [term |-> c.current_term, node |-> n] \in leaders
                              \/ ByMajority(c.current_term, n)
      BY <2>1, <2>2 DEF Earned, SameButLog
    <2>7. ASSUME NEW x \in net' \ net, x.type = "RequestVoteResponse", x.vote_granted
          PROVE  Vote(x.term, x.from, x.to) \in votes'
      <3>1. PICK sent \in SUBSET Outgoing(n, r) : net' = rest \cup sent
        BY <1>1 DEF Perform
      <3>2. x \in Outgoing(n, r)
        BY <3>1
      <3>3. x \in r.acts.send /\ MessageOK(x)
        BY <2>1, <2>7, <3>2, OutgoingOK DEF ResultOK
      <3>4. x.from = n /\ x.term = r.core.current_term /\ x.to = r.core.voted_for
        BY <2>1, <2>7, <3>3 DEF GrantOK
      <3>5. x.to # None
        BY <3>3, CoreAssumption DEF MessageOK
      <3>6. Vote(x.term, x.from, x.to) \in VoteOf(n, r.core)
        BY <3>4, <3>5 DEF VoteOf, Vote
      <3> QED  BY <2>3, <2>4, <3>6
    <2> QED  BY <1>0, <2>3, <2>5, <2>6, <2>7, ElectionStep
  <1>2. CASE CorePanic(n, r, rest)
    <2>1. core' = core /\ votes' = votes /\ leaders' = leaders /\ net' \subseteq net
      BY <1>2 DEF CorePanic
    <2> QED  BY <2>1 DEF ElectionInv, GrantsAreVotes, CountedAreVotes, LeadersAreElected,
                         LeadersAreRecorded, ByMajority
  <1>3. CASE Interrupted(n, r, rest)
    <2>1. PICK d \in CrashDisks(n, r) : StartOn(n, d)
      BY <1>3 DEF Interrupted
    <2>2. MetaOK(core[n], r) /\ ResultOK(r) /\ r.acts.meta \in Seq(Metadata)
      BY <1>3 DEF Interrupted, StepOK, MetaOK
    <2>3. DiskOK(d)
      BY <1>0, <2>2, CrashDisksOK
    <2>4. net' \subseteq net
      BY <1>3 DEF Interrupted
    <2> QED  BY <1>0, <2>1, <2>3, <2>4, StartOnElection
  <1> QED  BY <1>1, <1>2, <1>3 DEF Handle

\* A message, whatever its handler.
LEMMA MessageElection ==
    ASSUME IInv, ElectionInv, NEW m \in net, NEW r,
           ~r.panic => StepOK(m.to, core[m.to], r) /\ Earned(m.to, r), Running(m.to),
           \E rest \in {net \ {m}} \cup (IF Duplicates THEN {net} ELSE {}) :
               Handle(m.to, r, ProposalsAfter(m.to, r), rest)
    PROVE  ElectionInv'
  <1>1. m.to \in Node \ panicked
    BY DEF IInv, TypeOK, MessageOK, Running
  <1>2. PICK rest \in SUBSET net : Handle(m.to, r, ProposalsAfter(m.to, r), rest)
    <2>1. \A rest \in {net \ {m}} \cup (IF Duplicates THEN {net} ELSE {}) :
              rest \in SUBSET net
      OBVIOUS
    <2> QED  BY <2>1
  <1> QED  BY <1>1, <1>2, HandleElection

\* Each of the six messages preserves ElectionInv when no late vote is
\* delivered.
LEMMA ReceiveElection ==
    ASSUME InSessionOnly, IInv, ElectionInv, NEW m \in net,
           \/ RequestVote(m) \/ RequestVoteResponse(m)
           \/ AppendEntries(m) \/ AppendEntriesResponse(m)
           \/ InstallSnapshot(m) \/ InstallSnapshotResponse(m)
    PROVE  ElectionInv'
  <1>1. MessageOK(m) /\ m.to \in Node
    BY DEF IInv, TypeOK, MessageOK
  <1>2. core[m.to] \in Core /\ core[m.to].last_applied = core[m.to].commit_index
    BY <1>1, StateOK
  <1>3. CASE RequestVote(m)
    BY <1>1, <1>2, <1>3, RequestVoteOK, RoleEarned, MessageElection DEF RequestVote, Receive
  <1>4. CASE RequestVoteResponse(m)
    <2>1. m.type = "RequestVoteResponse" /\ InSession(m)
      BY <1>4 DEF RequestVoteResponse, Receive
    <2>2. m.term >= core[m.to].current_term
      BY <2>1 DEF InSession
    <2>3. Earned(m.to, handle_request_vote_response(m.to, core[m.to], m))
      BY <2>1, <2>2, ResponseEarned
    <2> QED  BY <1>1, <1>2, <1>4, <2>3, RequestVoteResponseOK, MessageElection
             DEF RequestVoteResponse, Receive
  <1>5. CASE AppendEntries(m)
    BY <1>1, <1>2, <1>5, AppendEntriesOK, RoleEarned, MessageElection
       DEF AppendEntries, Receive
  <1>6. CASE AppendEntriesResponse(m)
    BY <1>1, <1>2, <1>6, AppendEntriesResponseOK, RoleEarned, MessageElection
       DEF AppendEntriesResponse, Receive
  <1>7. CASE InstallSnapshot(m)
    BY <1>1, <1>2, <1>7, InstallSnapshotOK, RoleEarned, MessageElection
       DEF InstallSnapshot, Receive
  <1>8. CASE InstallSnapshotResponse(m)
    BY <1>1, <1>2, <1>8, InstallSnapshotResponseOK, RoleEarned, MessageElection
       DEF InstallSnapshotResponse, Receive
  <1> QED  BY <1>3, <1>4, <1>5, <1>6, <1>7, <1>8

\* The other inputs preserve ElectionInv on any network.
LEMMA InputElection ==
    ASSUME IInv, ElectionInv, NEW n \in Node,
           \/ Timeout(n) \/ Heartbeat(n) \/ ReadRequest(n) \/ Restart(n)
           \/ \E command \in Command : Propose(n, command)
    PROVE  ElectionInv'
  <1>1. core[n] \in Core /\ core[n].last_applied = core[n].commit_index /\ TypeOK
        /\ net \in SUBSET net
    BY StateOK DEF IInv
  <1>2. CASE Timeout(n)
    <2> DEFINE r == election_timeout(n, core[n])
    <2>1. n \in Node \ panicked /\ Handle(n, r, ProposalsAfter(n, r), net)
      BY <1>2 DEF Timeout, Running
    <2>2. StepOK(n, core[n], r) /\ Earned(n, r)
      BY <1>1, ElectionTimeoutOK, TimeoutEarned
    <2> HIDE DEF r
    <2> QED  BY <1>1, <2>1, <2>2, HandleElection
  <1>3. CASE Heartbeat(n)
    <2> DEFINE r == heartbeat(n, core[n])
    <2>1. n \in Node \ panicked /\ Handle(n, r, ProposalsAfter(n, r), net)
      BY <1>3 DEF Heartbeat, Running
    <2>2. StepOK(n, core[n], r) /\ Earned(n, r)
      BY <1>1, HeartbeatOK, RoleEarned
    <2> HIDE DEF r
    <2> QED  BY <1>1, <2>1, <2>2, HandleElection
  <1>4. CASE \E command \in Command : Propose(n, command)
    <2>1. PICK command \in Command : Propose(n, command)
      BY <1>4
    <2> DEFINE r == propose(n, core[n], command)
    <2>2. PICK pending : n \in Node \ panicked /\ Handle(n, r, pending, net)
      BY <2>1 DEF Propose, Running
    <2>3. StepOK(n, core[n], r) /\ Earned(n, r)
      BY <1>1, ProposeOK, RoleEarned
    <2> HIDE DEF r
    <2> QED  BY <1>1, <2>2, <2>3, HandleElection
  <1>5. CASE ReadRequest(n)
    <2> DEFINE c == request_read_barrier(core[n])
    <2>1. core' = [core EXCEPT ![n] = c] /\ net' = net /\ votes' = votes
          /\ leaders' = leaders /\ core \in [Node -> Core]
      BY <1>1, <1>5 DEF ReadRequest, TypeOK
    <2>2. c.state = core[n].state /\ c.current_term = core[n].current_term
          /\ c.votes_received = core[n].votes_received
      BY <1>1 DEF request_read_barrier, Core
    <2> HIDE DEF c
    <2>3. core'[n] = c /\ \A k \in Node : k # n => core'[k] = core[k]
      BY <2>1
    <2>4. \A k \in Node : /\ core'[k].state = core[k].state
                          /\ core'[k].current_term = core[k].current_term
                          /\ core'[k].votes_received = core[k].votes_received
      BY <2>2, <2>3
    <2> QED  BY <2>1, <2>4 DEF ElectionInv, GrantsAreVotes, CountedAreVotes,
                               LeadersAreElected, LeadersAreRecorded, ByMajority
  <1>6. CASE Restart(n)
    <2>1. StartOn(n, disk[n]) /\ DiskOK(disk[n]) /\ net' \subseteq net
      BY <1>1, <1>6 DEF Restart, TypeOK
    <2> QED  BY <1>1, <2>1, StartOnElection
  <1> QED  BY <1>2, <1>3, <1>4, <1>5, <1>6

\* Two majorities have a node in common.
LEMMA Majorities ==
    ASSUME NEW Q \in SUBSET Node, 2 * Cardinality(Q) > Cardinality(Node),
           NEW R \in SUBSET Node, 2 * Cardinality(R) > Cardinality(Node)
    PROVE  \E q : q \in Q /\ q \in R
  <1>1. IsFiniteSet(Node) /\ IsFiniteSet(Q) /\ IsFiniteSet(R)
    BY CoreAssumption, FS_Subset
  <1>2. Cardinality(Node) \in Nat /\ Cardinality(Q) \in Nat /\ Cardinality(R) \in Nat
    BY <1>1, FS_CardinalityType
  <1>3. Cardinality(Q) + Cardinality(R) > Cardinality(Node)
    BY <1>2
  <1>4. Q \cap R # {}
    BY <1>1, <1>3, FS_MajoritiesIntersect
  <1> QED  BY <1>4

\* Two majorities of one term share a voter, who has one vote.
LEMMA MajoritiesAgree ==
    ASSUME VoteOncePerTerm, LeadersAreElected
    PROVE  ElectionSafety
  <1> SUFFICES ASSUME NEW l \in leaders, NEW k \in leaders, l.term = k.term
               PROVE  l.node = k.node
    BY DEF ElectionSafety
  <1>1. PICK Q \in SUBSET Node :
            /\ 2 * Cardinality(Q) > Cardinality(Node)
            /\ \A q \in Q : Vote(l.term, q, l.node) \in votes
    BY DEF LeadersAreElected, ByMajority
  <1>2. PICK R \in SUBSET Node :
            /\ 2 * Cardinality(R) > Cardinality(Node)
            /\ \A q \in R : Vote(k.term, q, k.node) \in votes
    BY DEF LeadersAreElected, ByMajority
  <1>4. PICK q : q \in Q /\ q \in R
    BY <1>1, <1>2, Majorities
  <1> DEFINE v == Vote(l.term, q, l.node)
             w == Vote(k.term, q, k.node)
  <1>5. v \in votes /\ w \in votes
    BY <1>1, <1>2, <1>4
  <1>6. v.term = l.term /\ v.voter = q /\ v.candidate = l.node
        /\ w.term = k.term /\ w.voter = q /\ w.candidate = k.node
    BY DEF Vote
  <1> HIDE DEF v, w
  <1> QED  BY <1>5, <1>6 DEF VoteOncePerTerm

\* ElectionInv holds before the first input.
LEMMA InitElection == Init => ElectionInv
  <1> SUFFICES ASSUME Init PROVE ElectionInv
    OBVIOUS
  <1>1. \A n \in Node : core[n].state = Follower
    BY NewOK DEF Init
  <1> QED  BY <1>1 DEF Init, ElectionInv, GrantsAreVotes, CountedAreVotes,
              LeadersAreElected, LeadersAreRecorded, Follower, Candidate, Leader

\* Every step preserves ElectionInv when no late response is delivered.
LEMMA NextElection ==
    ASSUME InSessionOnly
    PROVE  IInv /\ ElectionInv /\ [Next]_vars => ElectionInv'
  <1> SUFFICES ASSUME IInv, ElectionInv, [Next]_vars PROVE ElectionInv'
    OBVIOUS
  <1>1. CASE \E n \in Node : Timeout(n) \/ Heartbeat(n) \/ ReadRequest(n) \/ Restart(n)
    BY <1>1, InputElection
  <1>2. CASE \E n \in Node, command \in Command : Propose(n, command)
    BY <1>2, InputElection
  <1>3. CASE \E m \in net : \/ RequestVote(m) \/ RequestVoteResponse(m)
                            \/ AppendEntries(m) \/ AppendEntriesResponse(m)
                            \/ InstallSnapshot(m) \/ InstallSnapshotResponse(m)
    BY <1>3, ReceiveElection
  <1>4. CASE UNCHANGED vars
    <2>1. core' = core /\ net' = net /\ votes' = votes /\ leaders' = leaders
      BY <1>4 DEF vars
    <2> QED  BY <2>1 DEF ElectionInv, GrantsAreVotes, CountedAreVotes,
                         LeadersAreElected, LeadersAreRecorded, ByMajority
  <1> QED  BY <1>1, <1>2, <1>3, <1>4 DEF Next

\* ElectionInv is strong enough.
LEMMA ElectionIsSafe == IInv /\ ElectionInv => ElectionSafety
  BY MajoritiesAgree DEF IInv, VoteInv, ElectionInv

\* As long as no late response is delivered, at most one node is ever leader
\* in a term: is_leader after handle_request_vote_response implies that a
\* majority has persisted its vote for this node in this very term.
THEOREM AtMostOneLeader == ASSUME InSessionOnly PROVE Spec => []ElectionSafety
  BY InitInv, NextInv, InitElection, NextElection, ElectionIsSafe, PTL DEF Spec

-----------------------------------------------------------------------------
(***************************************************************************)
(* The steps, by input.                                                    *)
(***************************************************************************)
\* Message m reaches node n, and r is what its handler returns.
Message(n, m, r) ==
    /\ m.to = n /\ (InSessionOnly => InSession(m))
    /\ \/ m.type = "RequestVote" /\ r = handle_request_vote(n, core[n], m)
       \/ m.type = "RequestVoteResponse" /\ r = handle_request_vote_response(n, core[n], m)
       \/ m.type = "AppendEntries" /\ r = handle_append_entries(n, core[n], m)
       \/ m.type = "AppendEntriesResponse"
          /\ r = handle_append_entries_response(n, core[n], m)
       \/ m.type = "InstallSnapshot" /\ r = handle_install_snapshot(n, core[n], m)
       \/ m.type = "InstallSnapshotResponse"
          /\ r = handle_install_snapshot_response(n, core[n], m)

\* The proposals that wait after command has been put at the end of the log.
Waiting(n, r, command) ==
    {p \in pending_proposals[n] : p.index # r.acts.log.start_index}
    \cup {[index |-> r.acts.log.start_index, command |-> command]}

\* Node n has an input for which the core returns r; pending are the
\* proposals that wait afterwards.
Input(n, r, pending) ==
    \/ /\ is_leader(core[n]) /\ r = heartbeat(n, core[n])
       /\ pending = ProposalsAfter(n, r)
    \/ /\ ~is_leader(core[n]) /\ r = election_timeout(n, core[n])
       /\ pending = ProposalsAfter(n, r)
    \/ \E command \in Command :
          /\ is_leader(core[n]) /\ r = propose(n, core[n], command)
          /\ pending = Waiting(n, r, command)
    \/ \E m \in net : Message(n, m, r) /\ pending = ProposalsAfter(n, r)

\* A message received is an input.
LEMMA ReceiveInput ==
    ASSUME IInv, NEW m \in net,
           \/ RequestVote(m) \/ RequestVoteResponse(m)
           \/ AppendEntries(m) \/ AppendEntriesResponse(m)
           \/ InstallSnapshot(m) \/ InstallSnapshotResponse(m)
    PROVE  \E n \in Node \ panicked, rest \in SUBSET net : \E r, pending :
               Input(n, r, pending) /\ Handle(n, r, pending, rest)
  <1>1. m.to \in Node
    BY DEF IInv, TypeOK, MessageOK
  <1>2. \A rest \in {net \ {m}} \cup (IF Duplicates THEN {net} ELSE {}) :
            rest \in SUBSET net
    OBVIOUS
  <1>3. ASSUME NEW r, Message(m.to, m, r), Running(m.to),
               \E rest \in {net \ {m}} \cup (IF Duplicates THEN {net} ELSE {}) :
                   Handle(m.to, r, ProposalsAfter(m.to, r), rest)
        PROVE  \E n \in Node \ panicked, rest \in SUBSET net : \E s, pending :
                   Input(n, s, pending) /\ Handle(n, s, pending, rest)
    <2>1. m.to \in Node \ panicked
      BY <1>1, <1>3 DEF Running
    <2>2. PICK rest \in SUBSET net : Handle(m.to, r, ProposalsAfter(m.to, r), rest)
      BY <1>2, <1>3
    <2>3. Input(m.to, r, ProposalsAfter(m.to, r))
      BY <1>3 DEF Input
    <2> QED  BY <2>1, <2>2, <2>3
  <1>4. CASE RequestVote(m)
    BY <1>3, <1>4 DEF RequestVote, Receive, Message
  <1>5. CASE RequestVoteResponse(m)
    BY <1>3, <1>5 DEF RequestVoteResponse, Receive, Message
  <1>6. CASE AppendEntries(m)
    BY <1>3, <1>6 DEF AppendEntries, Receive, Message
  <1>7. CASE AppendEntriesResponse(m)
    BY <1>3, <1>7 DEF AppendEntriesResponse, Receive, Message
  <1>8. CASE InstallSnapshot(m)
    BY <1>3, <1>8 DEF InstallSnapshot, Receive, Message
  <1>9. CASE InstallSnapshotResponse(m)
    BY <1>3, <1>9 DEF InstallSnapshotResponse, Receive, Message
  <1> QED  BY <1>4, <1>5, <1>6, <1>7, <1>8, <1>9

\* Every step is an input handled, a read request, a restart or a stutter.
LEMMA Steps ==
    ASSUME IInv, [Next]_vars
    PROVE  \/ UNCHANGED vars
           \/ \E n \in Node \ panicked : ReadRequest(n)
           \/ \E n \in Node : Restart(n)
           \/ \E n \in Node \ panicked, rest \in SUBSET net : \E r, pending :
                  Input(n, r, pending) /\ Handle(n, r, pending, rest)
  <1>0. net \in SUBSET net
    OBVIOUS
  <1>1. ASSUME NEW n \in Node, Timeout(n)
        PROVE  \E rest \in SUBSET net : \E r, pending :
                  n \notin panicked /\ Input(n, r, pending) /\ Handle(n, r, pending, rest)
    BY <1>0, <1>1 DEF Timeout, Running, Input
  <1>2. ASSUME NEW n \in Node, Heartbeat(n)
        PROVE  \E rest \in SUBSET net : \E r, pending :
                  n \notin panicked /\ Input(n, r, pending) /\ Handle(n, r, pending, rest)
    BY <1>0, <1>2 DEF Heartbeat, Running, Input
  <1>3. ASSUME NEW n \in Node, NEW command \in Command, Propose(n, command)
        PROVE  \E rest \in SUBSET net : \E r, pending :
                  n \notin panicked /\ Input(n, r, pending) /\ Handle(n, r, pending, rest)
    <2> DEFINE r == propose(n, core[n], command)
    <2>1. n \notin panicked /\ is_leader(core[n])
          /\ Handle(n, r, Waiting(n, r, command), net)
      BY <1>3 DEF Propose, Running, Waiting
    <2>2. Input(n, r, Waiting(n, r, command))
      BY <2>1 DEF Input
    <2> HIDE DEF r
    <2> QED  BY <1>0, <2>1, <2>2
  <1>4. ASSUME NEW n \in Node, ReadRequest(n) PROVE n \in Node \ panicked
    BY <1>4 DEF ReadRequest, Running
  <1>5. CASE Next
    BY <1>1, <1>2, <1>3, <1>4, <1>5, ReceiveInput DEF Next
  <1> QED  BY <1>5

\* What the core returns is well-formed, whatever the input.
LEMMA InputOK ==
    ASSUME IInv, NEW n \in Node, NEW r, NEW pending, Input(n, r, pending)
    PROVE  pending \in Proposals /\ StepOK(n, core[n], r)
  <1>1. core[n] \in Core /\ core[n].last_applied = core[n].commit_index /\ TypeOK
    BY StateOK DEF IInv
  <1>2. CASE is_leader(core[n]) /\ r = heartbeat(n, core[n])
             /\ pending = ProposalsAfter(n, r)
    BY <1>1, <1>2, HeartbeatOK, ProposalsAfterOK
  <1>3. CASE ~is_leader(core[n]) /\ r = election_timeout(n, core[n])
             /\ pending = ProposalsAfter(n, r)
    BY <1>1, <1>3, ElectionTimeoutOK, ProposalsAfterOK
  <1>4. CASE \E command \in Command :
                is_leader(core[n]) /\ r = propose(n, core[n], command)
                /\ pending = Waiting(n, r, command)
    <2>1. PICK command \in Command : r = propose(n, core[n], command)
                                     /\ pending = Waiting(n, r, command)
      BY <1>4
    <2>2. StepOK(n, core[n], r) /\ r.acts.log.start_index \in Nat
      BY <1>1, <2>1, ProposeOK
    <2>3. pending_proposals[n] \in Proposals
      BY <1>1 DEF TypeOK, Proposals
    <2>4. pending \in Proposals
      BY <2>1, <2>2, <2>3 DEF Waiting, Proposals
    <2> QED  BY <2>2, <2>4
  <1>5. CASE \E m \in net : Message(n, m, r) /\ pending = ProposalsAfter(n, r)
    <2>1. PICK m \in net : Message(n, m, r) /\ pending = ProposalsAfter(n, r)
      BY <1>5
    <2>2. MessageOK(m)
      BY <1>1 DEF TypeOK
    <2>3. StepOK(n, core[n], r)
      BY <1>1, <2>1, <2>2, RequestVoteOK, RequestVoteResponseOK, AppendEntriesOK,
         AppendEntriesResponseOK, InstallSnapshotOK, InstallSnapshotResponseOK
         DEF Message
    <2> QED  BY <1>1, <2>1, <2>3, ProposalsAfterOK
  <1> QED  BY <1>2, <1>3, <1>4, <1>5 DEF Input

-----------------------------------------------------------------------------
(***************************************************************************)
(* NoOrphanedReads.  The barrier ids of a core are distinct and were all   *)
(* given out, so that the ids reported ready are exactly those removed.    *)
(***************************************************************************)
ReadIds(n) == {q.id : q \in pending_reads[n]}

ReadInv ==
    /\ DOMAIN pending_reads = Node
    /\ \A n \in Node \ panicked : BarriersOK(core[n]) /\ ReadIds(n) = Ids(core[n])

\* Compaction leaves the reads alone.
LEMMA CoreAfterReads ==
    ASSUME NEW n, NEW r, r.core \in Core
    PROVE  LET d == CoreAfter(n, r) IN
           /\ d.read_barriers = r.core.read_barriers /\ d.state = r.core.state
           /\ d.next_read_barrier_id = r.core.next_read_barrier_id
  BY DEF CoreAfter, complete_snapshot, Core

\* A node starts without reads.
LEMMA RestoredReads ==
    ASSUME NEW d
    PROVE  LET c == IF StartupPanics(d) THEN new ELSE Restored(d) IN c.read_barriers = {}
  <1>1. new.read_barriers = {} /\ "read_barriers" \in DOMAIN new
    BY DEF new
  <1>2. \A t, v, e : restore(t, v, e).read_barriers = {}
    BY <1>1 DEF restore, new
  <1>3. \A t, v, e, i, s : restore_with_snapshot(t, v, e, i, s).read_barriers = {}
    BY DEF restore_with_snapshot, restore, new
  <1> QED  BY <1>1, <1>2, <1>3 DEF Restored

\* No input answers a read that has no barrier, or removes a barrier without
\* answering its read.
LEMMA InputReads ==
    ASSUME IInv, NEW n \in Node, NEW r, NEW pending, Input(n, r, pending)
    PROVE  ReadsOK(core[n], r)
  <1> DEFINE c == core[n]
  <1>1. c \in Core /\ c.last_applied = c.commit_index /\ TypeOK
    BY StateOK DEF IInv
  <1>2. ASSUME Idle(c, r) PROVE ReadsOK(c, r)
    BY <1>2, SameReadsOK DEF Idle
  <1>3. ASSUME NEW command, Pushes(n, c, r, command)
        PROVE  ReadsOK(c, r)
    BY <1>3 DEF Pushes, ReadsOK, BarriersOK, Ids
  <1>4. CASE is_leader(c) /\ r = heartbeat(n, c)
    BY <1>1, <1>2, <1>4, HeartbeatIdle
  <1>5. CASE ~is_leader(c) /\ r = election_timeout(n, c)
    BY <1>1, <1>2, <1>5, ElectionTimeoutIdle DEF is_leader
  <1>6. CASE \E command \in Command : is_leader(c) /\ r = propose(n, c, command)
    BY <1>1, <1>3, <1>6, ProposePushes DEF is_leader
  <1>7. CASE \E m \in net : Message(n, m, r)
    <2>1. PICK m \in net : Message(n, m, r)
      BY <1>7
    <2>2. MessageOK(m)
      BY <1>1 DEF TypeOK
    <2>3. CASE r = handle_request_vote(n, c, m)
      BY <1>1, <1>2, <2>2, <2>3, RequestVoteIdle
    <2>4. CASE r = handle_request_vote_response(n, c, m)
      BY <1>1, <1>2, <1>3, <2>2, <2>4, RequestVoteResponseKeeps
    <2>5. CASE m.type = "AppendEntries" /\ r = handle_append_entries(n, c, m)
      <3>1. Refuses(n, c, m, r) \/ Accepts(n, c, m, r)
        BY <1>1, <2>2, <2>5, AppendEntriesKeeps
      <3>2. SameReads(c, r.core) /\ r.acts.ready = {}
        BY <3>1 DEF Refuses, Accepts, Idle
      <3> QED  BY <3>2, SameReadsOK
    <2>6. CASE m.type = "AppendEntriesResponse"
               /\ r = handle_append_entries_response(n, c, m)
      BY <1>1, <2>2, <2>6, AppendEntriesResponseKeeps
    <2>7. CASE m.type = "InstallSnapshot" /\ r = handle_install_snapshot(n, c, m)
      <3>1. Idle(c, r) \/ Installs(c, m, r)
        BY <1>1, <2>2, <2>7, InstallSnapshotKeeps
      <3>2. SameReads(c, r.core) /\ r.acts.ready = {}
        BY <3>1 DEF Idle, Installs
      <3> QED  BY <3>2, SameReadsOK
    <2>8. CASE m.type = "InstallSnapshotResponse"
               /\ r = handle_install_snapshot_response(n, c, m)
      BY <1>1, <1>2, <2>2, <2>8, InstallSnapshotResponseIdle
    <2> QED  BY <2>1, <2>3, <2>4, <2>5, <2>6, <2>7, <2>8 DEF Message
  <1> QED  BY <1>4, <1>5, <1>6, <1>7 DEF Input

\* A node's reads change together with its barriers.
LEMMA ReadStep ==
    ASSUME TypeOK, ReadInv, NEW n \in Node, NEW c, NEW q, BarriersOK(c),
           {x.id : x \in q} = Ids(c), core' = [core EXCEPT ![n] = c],
           pending_reads' = [pending_reads EXCEPT ![n] = q],
           panicked \ {n} \subseteq panicked'
    PROVE  ReadInv'
  <1>1. core'[n] = c /\ pending_reads'[n] = q /\ DOMAIN pending_reads' = Node
        /\ \A k \in Node : k # n => core'[k] = core[k]
                                    /\ pending_reads'[k] = pending_reads[k]
    BY DEF TypeOK, ReadInv
  <1>2. ASSUME NEW k \in Node \ panicked'
        PROVE  BarriersOK(core'[k]) /\ {x.id : x \in pending_reads'[k]} = Ids(core'[k])
    <2>1. CASE k = n
      BY <1>1, <2>1
    <2>2. CASE k # n
      <3>1. k \in Node \ panicked
        BY <1>2, <2>2
      <3> QED  BY <1>1, <2>2, <3>1 DEF ReadInv, ReadIds
    <2> QED  BY <2>1, <2>2
  <1> QED  BY <1>1, <1>2 DEF ReadInv, ReadIds

\* A restart drops both tables.
LEMMA StartOnReads ==
    ASSUME TypeOK, ReadInv, NEW n \in Node, NEW d, StartOn(n, d)
    PROVE  ReadInv'
  <1> DEFINE c == IF StartupPanics(d) THEN new ELSE Restored(d)
  <1>1. core' = [core EXCEPT ![n] = c]
        /\ pending_reads' = [pending_reads EXCEPT ![n] = {}]
        /\ panicked \ {n} \subseteq panicked'
    BY DEF StartOn
  <1>2. c.read_barriers = {}
    BY RestoredReads
  <1> HIDE DEF c
  <1>3. BarriersOK(c) /\ {x.id : x \in {}} = Ids(c)
    BY <1>2 DEF BarriersOK, Ids
  <1> QED  BY <1>1, <1>3, ReadStep

\* An input preserves ReadInv, however it ends.
LEMMA HandleReads ==
    ASSUME IInv, ReadInv, NEW n \in Node \ panicked, NEW r, NEW pending, NEW rest,
           Input(n, r, pending), Handle(n, r, pending, rest)
    PROVE  ReadInv'
  <1>0. TypeOK /\ ReadsOK(core[n], r) /\ (~r.panic => r.core \in Core)
    BY InputReads, InputOK DEF IInv, StepOK, ResultOK
  <1>1. BarriersOK(core[n]) /\ ReadIds(n) = Ids(core[n])
    BY DEF ReadInv
  <1>2. CASE Perform(n, r, pending, rest)
    <2> DEFINE c == CoreAfter(n, r)
               q == ReadsAfter(n, r)
    <2>1. core' = [core EXCEPT ![n] = c]
          /\ pending_reads' = [pending_reads EXCEPT ![n] = q]
          /\ panicked \ {n} \subseteq panicked' /\ ~r.panic
      BY <1>2 DEF Perform
    <2>2. c.read_barriers = r.core.read_barriers /\ c.state = r.core.state
          /\ c.next_read_barrier_id = r.core.next_read_barrier_id
      BY <1>0, <2>1, CoreAfterReads
    <2>3. BarriersOK(r.core)
          /\ (r.core.state = Leader => Ids(r.core) = Ids(core[n]) \ r.acts.ready)
      BY <1>0, <1>1 DEF ReadsOK
    <2>4. BarriersOK(c) /\ Ids(c) = Ids(r.core)
      BY <2>2, <2>3 DEF BarriersOK, Ids
    <2>5. {x.id : x \in q} = Ids(r.core)
      <3>1. CASE LosesLeadership(n, r)
        <4>1. q = {} /\ r.core.state # Leader
          BY <3>1 DEF ReadsAfter, LosesLeadership, is_leader
        <4> QED  BY <2>3, <4>1 DEF BarriersOK, Ids
      <3>2. CASE ~LosesLeadership(n, r)
        <4>1. q = pending_reads[n] \ Ready(n, r.acts)
          BY <3>2 DEF ReadsAfter
        <4>2. {x.id : x \in q} = ReadIds(n) \ r.acts.ready
          BY <4>1 DEF Ready, ReadIds
        <4>3. CASE r.core.state = Leader
          BY <1>1, <2>3, <4>2, <4>3
        <4>4. CASE r.core.state # Leader
          <5>1. core[n].state # Leader
            BY <3>2, <4>4 DEF LosesLeadership, is_leader
          <5>2. Ids(core[n]) = {} /\ Ids(r.core) = {}
            BY <1>1, <2>3, <4>4, <5>1 DEF BarriersOK, Ids
          <5> QED  BY <1>1, <4>2, <5>2
        <4> QED  BY <4>3, <4>4
      <3> QED  BY <3>1, <3>2
    <2> HIDE DEF c, q
    <2> QED  BY <1>0, <2>1, <2>4, <2>5, ReadStep
  <1>3. CASE CorePanic(n, r, rest)
    BY <1>3 DEF CorePanic, driver, ReadInv, ReadIds
  <1>4. CASE Interrupted(n, r, rest)
    BY <1>0, <1>4, StartOnReads DEF Interrupted
  <1> QED  BY <1>2, <1>3, <1>4 DEF Handle

\* A read request adds one read and its barrier, with an id nobody has.
LEMMA ReadRequestReads ==
    ASSUME IInv, ReadInv, NEW n \in Node \ panicked, ReadRequest(n)
    PROVE  ReadInv'
  <1> DEFINE b == core[n]
             id == b.next_read_barrier_id + 1
             new_barrier == [id |-> id, count |-> 0]
             c == request_read_barrier(b)
             x == [id |-> c.next_read_barrier_id, floor |-> acked]
             q == pending_reads[n] \cup {x}
  <1>0. b \in Core /\ b.state = Leader /\ b.next_read_barrier_id \in Nat
        /\ (\A a \in b.read_barriers : a.id \in Nat) /\ TypeOK
    <2>1. TypeOK
      BY DEF IInv
    <2>2. b \in Core
      BY <2>1 DEF TypeOK
    <2>3. b.state = Leader
      BY DEF ReadRequest, is_leader
    <2> HIDE DEF b
    <2>4. b.next_read_barrier_id \in Nat /\ \A a \in b.read_barriers : a.id \in Nat
      BY <2>2 DEF Core
    <2> QED  BY <2>1, <2>2, <2>3, <2>4
  <1>1. core' = [core EXCEPT ![n] = c]
        /\ pending_reads' = [pending_reads EXCEPT ![n] = q] /\ panicked' = panicked
    BY DEF ReadRequest, ReadInv
  <1>2. c = [b EXCEPT !.next_read_barrier_id = id,
                      !.read_barriers = b.read_barriers \cup {new_barrier}]
    BY DEF request_read_barrier
  <1>3. BarriersOK(b) /\ ReadIds(n) = Ids(b)
    BY DEF ReadInv
  <1>4. new_barrier.id = id
    OBVIOUS
  <1> HIDE DEF b, new_barrier
  <1>5. c.read_barriers = b.read_barriers \cup {new_barrier}
        /\ c.next_read_barrier_id = id /\ c.state = b.state
    BY <1>0, <1>2 DEF Core
  <1> HIDE DEF c
  <1>6. \A a \in b.read_barriers : a.id # id /\ a.id <= id
    BY <1>0, <1>3 DEF BarriersOK
  <1>7. BarriersOK(c)
    BY <1>0, <1>3, <1>4, <1>5, <1>6 DEF BarriersOK
  <1>8. {y.id : y \in q} = Ids(c)
    <2>1. x.id = id
      BY <1>5
    <2> HIDE DEF x, id
    <2>2. {y.id : y \in q} = ReadIds(n) \cup {id}
      BY <2>1 DEF ReadIds
    <2>3. Ids(c) = Ids(b) \cup {id}
      BY <1>4, <1>5 DEF Ids
    <2> QED  BY <1>3, <2>2, <2>3
  <1> HIDE DEF q
  <1> QED  BY <1>0, <1>1, <1>7, <1>8, ReadStep DEF b

\* Every step preserves ReadInv.
LEMMA NextReads == IInv /\ ReadInv /\ [Next]_vars => ReadInv'
  <1> SUFFICES ASSUME IInv, ReadInv, [Next]_vars PROVE ReadInv'
    OBVIOUS
  <1>1. CASE UNCHANGED vars
    BY <1>1 DEF vars, ReadInv, ReadIds
  <1>2. CASE \E n \in Node \ panicked : ReadRequest(n)
    BY <1>2, ReadRequestReads
  <1>3. CASE \E n \in Node : Restart(n)
    BY <1>3, StartOnReads DEF Restart, IInv
  <1>4. CASE \E n \in Node \ panicked, rest \in SUBSET net : \E r, pending :
                 Input(n, r, pending) /\ Handle(n, r, pending, rest)
    BY <1>4, HandleReads
  <1> QED  BY <1>1, <1>2, <1>3, <1>4, Steps

\* Whatever the network delivers and whenever nodes crash, a waiting read and
\* its barrier come and go together: request_read_barrier adds both, step-down
\* drops both, and handle_append_entries_response reports exactly the barriers
\* it removes.
THEOREM ReadsAreNotOrphaned == Spec => []NoOrphanedReads
  <1>1. Init => ReadInv
    <2> SUFFICES ASSUME Init PROVE ReadInv
      OBVIOUS
    <2>1. new.read_barriers = {}
      BY DEF new
    <2>2. \A n \in Node : core[n].read_barriers = {} /\ pending_reads[n] = {}
      BY <2>1 DEF Init
    <2>3. DOMAIN pending_reads = Node
      BY DEF Init
    <2> QED  BY <2>2, <2>3 DEF ReadInv, ReadIds, Ids, BarriersOK
  <1>2. ReadInv => NoOrphanedReads
    BY DEF ReadInv, NoOrphanedReads, BarriersOK, ReadIds, Ids, is_leader
  <1> QED  BY InitInv, NextInv, NextReads, <1>1, <1>2, PTL DEF Spec

=============================================================================
