------------------------------ MODULE Cluster -------------------------------
(***************************************************************************)
(* A cluster of nodes, each running one RaftDriver (the event loop of      *)
(* crates/raft-event-loop/src/lib.rs) around a RaftCore, with its storage  *)
(* and a network between them.                                             *)
(*                                                                         *)
(* The event loop handles one input at a time and performs every action    *)
(* the core returns before it takes the next input.  A step of this module *)
(* is one input handled to the end (Perform), a panic on the way, or a     *)
(* crash after some of the disk writes (Interrupted).                      *)
(*                                                                         *)
(* The network may lose, delay and reorder messages: between two nodes it  *)
(* is module Network, which TcpTransport implements.  With Duplicates it   *)
(* may deliver a message twice, which that transport never does.           *)
(* InSessionOnly restricts it to a network that keeps late responses away  *)
(* (InSession), and LeadersOnly to one that loses the request a leader     *)
(* sends after it has stepped down (FromLeader).                           *)
(***************************************************************************)
EXTENDS RaftCore, SequencesExt

CONSTANTS
    SnapshotThreshold,  \* RaftConfig::snapshot_threshold
    InSessionOnly,      \* late responses are not delivered
    LeadersOnly,        \* AppendEntries of a node that is not leader is lost
    Duplicates,         \* a delivered message may be delivered again
    TornWrites,         \* a crash may cut a write to the log file short
    MaxTerm,            \* bound on terms: no election beyond it
    MaxCrashes,         \* bound on restarts
    MaxReads,           \* bound on read requests per life of a node
    MaxNet              \* bound on messages in flight

ASSUME ClusterAssumption ==
    /\ SnapshotThreshold \in Nat \ {0}
    /\ InSessionOnly \in BOOLEAN
    /\ LeadersOnly \in BOOLEAN
    /\ Duplicates \in BOOLEAN
    /\ TornWrites \in BOOLEAN
    /\ {MaxTerm, MaxCrashes, MaxReads, MaxNet} \subseteq Nat
    /\ None \notin Metadata
    /\ None \notin [start_index : Nat, entries : Seq(Entry)]
    /\ None \notin Seq([index : Nat, entry : Entry])

VARIABLES
    core,       \* [Node -> the RaftCore record]
    disk,       \* [Node -> the files metadata, log and snapshot]
    pending_proposals,  \* [Node -> the proposals that wait: index and command]
    pending_reads,      \* [Node -> the reads that wait: barrier id and floor]
    num_entries,        \* [Node -> commands applied since the last snapshot]
    app,        \* [Node -> the commands the application has been given]
    net,        \* messages in flight
    panicked,   \* nodes whose event loop task has panicked
    crashes,    \* restarts so far
    \* What happened, for the properties only:
    votes,      \* [term, voter, candidate]: votes any core has held
    leaders,    \* [term, node]: nodes that were leader
    committed,  \* [index, term, command]: entries applied by any node
    acked,      \* commands whose propose returned Ok
    proposed,   \* commands proposed so far
    reads       \* [floor, seen]: commands acknowledged before a read, and read

driver == <<pending_proposals, pending_reads, num_entries, app>>

vars == <<core, disk, pending_proposals, pending_reads, num_entries, app, net,
          panicked, crashes, votes, leaders, committed, acked, proposed, reads>>

-----------------------------------------------------------------------------
(***************************************************************************)
(* Storage: FileStorage's three files, None while a file does not exist.   *)
(* The log file is a sequence of frames that carry their index.            *)
(***************************************************************************)
EmptyDisk == [metadata |-> None, log |-> None, snapshot |-> None]

store_metadata(d, metas) ==
    IF metas = << >> THEN d
    ELSE [metadata |-> metas[Len(metas)], log |-> d.log, snapshot |-> d.snapshot]

\* Appends without cutting off a conflicting tail.
Mutant_store_log_entries(d, addendum) ==
    [d EXCEPT !.log = (IF @ = None THEN << >> ELSE @)
                      \o [k \in 1 .. Len(addendum.entries) |->
                            [index |-> addendum.start_index + k - 1,
                             entry |-> addendum.entries[k]]]]

\* The frames before the first one with start_index stay, the rest of the
\* file is cut off, and the entries are written behind them.
store_log_entries(d, addendum) ==
    LET old == IF d.log = None THEN << >> ELSE d.log
        hits == {k \in 1 .. Len(old) : old[k].index = addendum.start_index}
        kept == IF hits = {} THEN old ELSE SubSeq(old, 1, Min(hits) - 1)
        frames == [k \in 1 .. Len(addendum.entries) |->
                      [index |-> addendum.start_index + k - 1,
                       entry |-> addendum.entries[k]]]
    IN  [metadata |-> d.metadata, log |-> kept \o frames, snapshot |-> d.snapshot]

\* The frames' indices are read and ignored.
restore_log_entries(d) == [k \in 1 .. Len(d.log) |-> d.log[k].entry]

store_snapshot(d, snapshot) ==
    [metadata |-> d.metadata, log |-> d.log, snapshot |-> snapshot]

truncate_log(d) == [metadata |-> d.metadata, log |-> << >>, snapshot |-> d.snapshot]

(***************************************************************************)
(* RaftDriver::new: the core a node starts with.  A snapshot without the   *)
(* other two files stops the start.                                        *)
(***************************************************************************)
StartupPanics(d) == d.snapshot # None /\ (d.metadata = None \/ d.log = None)

Restored(d) ==
    LET entries == IF d.log = None THEN << >> ELSE restore_log_entries(d)
    IN  IF d.snapshot # None
        THEN restore_with_snapshot(d.metadata.term, d.metadata.voted_for, entries,
                 d.snapshot.last_included_index, d.snapshot.last_included_term)
        ELSE IF d.metadata # None
        THEN restore(d.metadata.term, d.metadata.voted_for, entries)
        ELSE new

-----------------------------------------------------------------------------
(***************************************************************************)
(* handle_action, for all the actions of one input.  r is what the core    *)
(* returned.  Applying an entry answers its proposal, hands the command to *)
(* the application and counts it; every SnapshotThreshold commands the     *)
(* application's state becomes the snapshot.  The core has taken in the    *)
(* whole input by then, so the snapshot's index is that of the last entry  *)
(* of the batch.                                                           *)
(***************************************************************************)
IsCommand(command) == command # Noop

Delivered(acts) ==
    SelectSeq([k \in 1 .. Len(acts.apply) |-> acts.apply[k].command], IsCommand)

NumDelivered(acts) ==
    Cardinality({k \in 1 .. Len(acts.apply) : IsCommand(acts.apply[k].command)})

\* num_entries if it were never reset during the batch.
Counted(n, acts) == num_entries[n] + NumDelivered(acts)

\* The numbers of delivered commands at which a snapshot is due.
Thresholds(n, acts) ==
    {k \in 1 .. NumDelivered(acts) : (num_entries[n] + k) % SnapshotThreshold = 0}

Compacts(n, acts) == Thresholds(n, acts) # {}

\* The snapshot taken when k commands of the batch have been delivered.
OwnSnapshot(n, r, k) ==
    LET metadata == prepare_snapshot(r.core)
    IN  [ last_included_index |-> metadata.last_applied,
          last_included_term |-> metadata.last_applied_term,
          data |-> app[n] \o SubSeq(Delivered(r.acts), 1, k) ]

\* The snapshot that is on disk in the end: the leader's, or the node's own.
SnapshotToStore(n, r) ==
    IF r.acts.install # None THEN r.acts.install
    ELSE IF Compacts(n, r.acts)
    THEN OwnSnapshot(n, r, Max(Thresholds(n, r.acts)))
    ELSE None

CoreAfter(n, r) ==
    IF Compacts(n, r.acts) THEN complete_snapshot(r.core, prepare_snapshot(r.core))
    ELSE r.core

(***************************************************************************)
(* The disk after PersistMetadata and PersistLogEntries, after the         *)
(* snapshot has been stored, and after the log has been truncated.         *)
(***************************************************************************)
Persisted(n, r) ==
    LET d == store_metadata(disk[n], r.acts.meta)
    IN  IF r.acts.log = None THEN d ELSE store_log_entries(d, r.acts.log)

WithSnapshot(n, r) ==
    LET snapshot == SnapshotToStore(n, r)
    IN  IF snapshot = None THEN Persisted(n, r)
        ELSE store_snapshot(Persisted(n, r), snapshot)

\* truncate_log does not create the file, and its error is fatal.
TruncatePanics(n, r) == SnapshotToStore(n, r) # None /\ Persisted(n, r).log = None

DiskAfter(n, r) ==
    IF SnapshotToStore(n, r) = None \/ TruncatePanics(n, r)
    THEN WithSnapshot(n, r)
    ELSE truncate_log(WithSnapshot(n, r))

\* What a crash on the way may leave on disk.  Metadata and snapshot files
\* are replaced in one step; the log file is cut, then written.  A snapshot
\* is stored before the log is truncated; a batch may reach the threshold
\* more than once.
CrashDisks(n, r) ==
    LET d == store_metadata(disk[n], r.acts.meta)
        log == r.acts.log
        own(k) == store_snapshot(Persisted(n, r), OwnSnapshot(n, r, k))
        reached == Thresholds(n, r.acts)
    IN  {store_metadata(disk[n], SubSeq(r.acts.meta, 1, k)) : k \in 0 .. Len(r.acts.meta)}
        \cup {Persisted(n, r)}
        \cup (IF TornWrites /\ log # None
              THEN {store_log_entries(d, [log EXCEPT !.entries = SubSeq(@, 1, k)]) :
                        k \in 0 .. Len(log.entries)}
              ELSE {})
        \cup (IF r.acts.install # None THEN {WithSnapshot(n, r)} ELSE {})
        \cup (IF reached # {} THEN {own(Min(reached))} ELSE {})
        \cup {truncate_log(own(k)) : k \in reached}

\* The message of a SendInstallSnapshot action.
with_data(m, data) ==
    [ type |-> "InstallSnapshot", from |-> m.from, to |-> m.to, term |-> m.term,
      last_included_index |-> m.last_included_index,
      last_included_term |-> m.last_included_term, data |-> data ]

\* SendInstallSnapshot reads the snapshot file; no such file is fatal.
Unsendable(n, r) ==
    {m \in r.acts.send : m.type = "InstallSnapshot" /\ DiskAfter(n, r).snapshot = None}

Outgoing(n, r) ==
    {IF m.type = "InstallSnapshot"
        THEN with_data(m, DiskAfter(n, r).snapshot.data)
        ELSE m : m \in r.acts.send \ Unsendable(n, r)}

DriverPanics(n, r) == TruncatePanics(n, r) \/ Unsendable(n, r) # {}

\* Also answers the proposal behind the last applied entry.
Mutant_Answered(n, acts) ==
    {p \in pending_proposals[n] :
        \E k \in 1 .. Len(acts.apply) : p.index <= acts.apply[k].index + 1}

Answered(n, acts) ==
    {p \in pending_proposals[n] :
        \E k \in 1 .. Len(acts.apply) : acts.apply[k].index = p.index}

Ready(n, acts) == {q \in pending_reads[n] : q.id \in acts.ready}

AppAfter(n, acts) ==
    IF acts.install # None THEN acts.install.data ELSE app[n] \o Delivered(acts)

\* A snapshot does not reset num_entries.
Mutant_NumEntriesAfter(n, acts) == Counted(n, acts)

\* Every snapshot resets num_entries.
NumEntriesAfter(n, acts) == Counted(n, acts) % SnapshotThreshold

\* Notices a lost leadership only when a new leader is known.
Mutant_LosesLeadership(n, r) ==
    is_leader(core[n]) /\ ~is_leader(r.core) /\ r.core.current_leader # None

\* A leader that steps down fails everything that is still pending.
LosesLeadership(n, r) == is_leader(core[n]) /\ ~is_leader(r.core)

ProposalsAfter(n, r) ==
    IF LosesLeadership(n, r) THEN {} ELSE pending_proposals[n] \ Answered(n, r.acts)

ReadsAfter(n, r) ==
    IF LosesLeadership(n, r) THEN {} ELSE pending_reads[n] \ Ready(n, r.acts)

-----------------------------------------------------------------------------
(***************************************************************************)
(* The ways an input can end.  n is the node, r the core's result, pending *)
(* the proposals that wait afterwards and rest the network without the     *)
(* input.                                                                  *)
(***************************************************************************)
\* The history a node with core c leaves behind.
VoteOf(n, c) ==
    IF c.voted_for = None THEN {}
    ELSE {[term |-> c.current_term, voter |-> n, candidate |-> c.voted_for]}

LeaderOf(n, c) ==
    IF is_leader(c) THEN {[term |-> c.current_term, node |-> n]} ELSE {}

Recorded(n, c) ==
    /\ votes' = votes \cup VoteOf(n, c)
    /\ leaders' = leaders \cup LeaderOf(n, c)

Committed(r) ==
    {[ index |-> a.index, command |-> a.command,
       term |-> log_term_at(r.core, a.index) ] :
        a \in Range(r.acts.apply)}

\* Not the AppendEntries with which handle_append_entries_response answers a
\* refusal although it has just stepped down.  The code does not look at
\* this: it is an assumption on the network, made only when LeadersOnly.
FromLeader(c, m) == m.type = "AppendEntries" => is_leader(c)

\* Every action performed, or all up to one whose error is fatal.
Perform(n, r, pending, rest) ==
    /\ ~r.panic
    /\ core' = [core EXCEPT ![n] = CoreAfter(n, r)]
    /\ disk' = [disk EXCEPT ![n] = DiskAfter(n, r)]
    /\ pending_proposals' = [pending_proposals EXCEPT ![n] = pending]
    /\ pending_reads' = [pending_reads EXCEPT ![n] = ReadsAfter(n, r)]
    /\ num_entries' = [num_entries EXCEPT ![n] = NumEntriesAfter(n, r.acts)]
    /\ app' = [app EXCEPT ![n] = AppAfter(n, r.acts)]
    /\ panicked' = IF DriverPanics(n, r) THEN panicked \cup {n} ELSE panicked
    /\ \E sent \in SUBSET Outgoing(n, r) :
          /\ TruncatePanics(n, r) => sent = {}
          /\ LeadersOnly => \A m \in sent : FromLeader(r.core, m)
          /\ Cardinality(rest \cup sent) <= MaxNet
          /\ net' = rest \cup sent
    /\ Recorded(n, CoreAfter(n, r))
    /\ committed' = committed \cup Committed(r)
    /\ acked' = acked \cup {p.command : p \in Answered(n, r.acts)}
    /\ reads' = reads \cup {[floor |-> q.floor, seen |-> Range(AppAfter(n, r.acts))] :
                               q \in Ready(n, r.acts)}
    /\ UNCHANGED crashes

\* The core panics: the input is gone, nothing is performed.
CorePanic(n, r, rest) ==
    /\ r.panic
    /\ panicked' = panicked \cup {n}
    /\ net' = rest
    /\ UNCHANGED <<core, disk, driver, crashes, votes, leaders, committed, acked, reads>>

\* The node is started on the files in d.  The application starts empty: only
\* commands committed from now on, and snapshots a leader sends, reach it.
StartOn(n, d) ==
    /\ crashes < MaxCrashes
    /\ crashes' = crashes + 1
    /\ disk' = [disk EXCEPT ![n] = d]
    /\ core' = [core EXCEPT ![n] = IF StartupPanics(d) THEN new ELSE Restored(d)]
    /\ panicked' = IF StartupPanics(d) THEN panicked \cup {n} ELSE panicked \ {n}
    /\ pending_proposals' = [pending_proposals EXCEPT ![n] = {}]
    /\ pending_reads' = [pending_reads EXCEPT ![n] = {}]
    /\ num_entries' = [num_entries EXCEPT ![n] = 0]
    /\ app' = [app EXCEPT ![n] = << >>]
    /\ Recorded(n, core'[n])
    /\ UNCHANGED <<committed, acked, reads>>

\* A crash among the disk writes, before any message is sent.
Interrupted(n, r, rest) ==
    /\ ~r.panic
    /\ \E d \in CrashDisks(n, r) : StartOn(n, d)
    /\ net' = rest

Handle(n, r, pending, rest) ==
    \/ Perform(n, r, pending, rest)
    \/ CorePanic(n, r, rest)
    \/ Interrupted(n, r, rest)

-----------------------------------------------------------------------------
(***************************************************************************)
(* The inputs of the event loop's select!: the tick, a proposal, a read    *)
(* request and a message.                                                  *)
(***************************************************************************)
Running(n) == n \notin panicked

Heartbeat(n) ==
    /\ Running(n) /\ is_leader(core[n])
    /\ LET r == heartbeat(n, core[n]) IN Handle(n, r, ProposalsAfter(n, r), net)
    /\ UNCHANGED proposed

Timeout(n) ==
    /\ Running(n) /\ ~is_leader(core[n]) /\ core[n].current_term < MaxTerm
    /\ LET r == election_timeout(n, core[n]) IN Handle(n, r, ProposalsAfter(n, r), net)
    /\ UNCHANGED proposed

\* pending_proposals is a map: a proposal replaces one with the same index.
Propose(n, command) ==
    LET r == propose(n, core[n], command)
        index == r.acts.log.start_index
        pending == {p \in pending_proposals[n] : p.index # index}
                   \cup {[index |-> index, command |-> command]}
    IN  /\ Running(n) /\ is_leader(core[n])
        /\ command \notin proposed
        /\ proposed' = proposed \cup {command}
        /\ Handle(n, r, pending, net)

\* Performs no action, so it cannot fail half-way.
ReadRequest(n) ==
    LET c == request_read_barrier(core[n])
    IN  /\ Running(n) /\ is_leader(core[n])
        /\ c.next_read_barrier_id <= MaxReads
        /\ core' = [core EXCEPT ![n] = c]
        /\ pending_reads' = [pending_reads EXCEPT ![n] =
                                @ \cup {[id |-> c.next_read_barrier_id, floor |-> acked]}]
        /\ UNCHANGED <<disk, pending_proposals, num_entries, app, net, panicked, crashes,
                       votes, leaders, committed, acked, proposed, reads>>

(***************************************************************************)
(* The responses that are not late: they do not answer a request of an     *)
(* earlier term, or of a life before the last restart.  The code does not  *)
(* look at this: it is an assumption on the network, made only when        *)
(* InSessionOnly.  A success, or a refusal that names a conflict, is of    *)
(* the request's term: it is late at a node that led this term and leads   *)
(* it no more.  Without snapshots any other refusal is of a later term     *)
(* than the request.  It is prompt at the leader that was replaced, which  *)
(* learns of its successor from it, and late at one that leads the         *)
(* refusal's term.                                                         *)
(***************************************************************************)
InSession(m) ==
    LET c == core[m.to]
        of_its_term == m.success \/ m.first_conflicting_index # None
        led == [term |-> m.term, node |-> m.to] \in leaders
    IN  CASE m.type = "AppendEntriesResponse" ->
                /\ m.term >= c.current_term
                /\ of_its_term => is_leader(c) \/ ~led
                /\ ~of_its_term => ~is_leader(c) \/ m.term > c.current_term
          [] m.type \in {"RequestVoteResponse", "InstallSnapshotResponse"} ->
                m.term >= c.current_term
          [] OTHER -> TRUE

\* handle_message with the handler of the message's type.
Receive(m, type, handler(_, _, _)) ==
    LET n == m.to
        r == handler(n, core[n], m)
    IN  /\ Running(n) /\ m.type = type
        /\ InSessionOnly => InSession(m)
        /\ \E rest \in {net \ {m}} \cup (IF Duplicates THEN {net} ELSE {}) :
              Handle(n, r, ProposalsAfter(n, r), rest)
        /\ UNCHANGED proposed

RequestVote(m) == Receive(m, "RequestVote", handle_request_vote)
RequestVoteResponse(m) == Receive(m, "RequestVoteResponse", handle_request_vote_response)
AppendEntries(m) == Receive(m, "AppendEntries", handle_append_entries)
AppendEntriesResponse(m) == Receive(m, "AppendEntriesResponse", handle_append_entries_response)
InstallSnapshot(m) == Receive(m, "InstallSnapshot", handle_install_snapshot)
InstallSnapshotResponse(m) ==
    Receive(m, "InstallSnapshotResponse", handle_install_snapshot_response)

\* A crash between two inputs, or the restart of a node that has panicked.
Restart(n) == StartOn(n, disk[n]) /\ UNCHANGED <<net, proposed>>

Init ==
    /\ core = [n \in Node |-> new]
    /\ disk = [n \in Node |-> EmptyDisk]
    /\ pending_proposals = [n \in Node |-> {}] /\ pending_reads = [n \in Node |-> {}]
    /\ num_entries = [n \in Node |-> 0] /\ app = [n \in Node |-> << >>]
    /\ net = {} /\ panicked = {} /\ crashes = 0
    /\ votes = {} /\ leaders = {} /\ committed = {}
    /\ acked = {} /\ proposed = {} /\ reads = {}

Next ==
    \/ \E n \in Node : Timeout(n) \/ Heartbeat(n) \/ ReadRequest(n) \/ Restart(n)
    \/ \E n \in Node, command \in Command : Propose(n, command)
    \/ \E m \in net : \/ RequestVote(m) \/ RequestVoteResponse(m)
                      \/ AppendEntries(m) \/ AppendEntriesResponse(m)
                      \/ InstallSnapshot(m) \/ InstallSnapshotResponse(m)

Spec == Init /\ [][Next]_vars

-----------------------------------------------------------------------------
(***************************************************************************)
(* Types.  The application's state and a snapshot's data are opaque.       *)
(***************************************************************************)
Frame == [index : Nat, entry : Entry]

DiskOK(d) ==
    /\ d.metadata \in Option(Metadata)
    /\ d.log \in Option(Seq(Frame))
    /\ d.snapshot # None => /\ d.snapshot.last_included_index \in Nat
                           /\ d.snapshot.last_included_term \in Nat

\* Type invariant: cores, files, messages and the tables of the event loop
\* stay well-formed whatever the network and the crashes do.  In particular
\* no index or term is ever the result of an unwrap that had nothing to find.
TypeOK ==
    /\ core \in [Node -> Core]
    /\ DOMAIN disk = Node /\ \A n \in Node : DiskOK(disk[n])
    /\ pending_proposals \in [Node -> SUBSET [index : Nat, command : Command]]
    /\ num_entries \in [Node -> 0 .. SnapshotThreshold - 1]
    /\ \A m \in net : MessageOK(m)
    /\ panicked \subseteq Node /\ crashes \in Nat

-----------------------------------------------------------------------------
(***************************************************************************)
(* What holds on any network.                                              *)
(***************************************************************************)

\* No node ever holds two different votes in one term, not even across a
\* crash between PersistMetadata and the vote's message: a vote reaches the
\* disk before anyone can count it, and check_msg_term forgets a vote only
\* together with its term.
VoteOncePerTerm ==
    \A v, w \in votes :
        v.term = w.term /\ v.voter = w.voter => v.candidate = w.candidate

\* Every read that waits in the event loop has its barrier in the core, and
\* the other way round, and only a leader has any: stepping down drains both
\* tables, so no read waits for ever and no barrier answers a stranger.
NoOrphanedReads ==
    \A n \in Node \ panicked :
        /\ {q.id : q \in pending_reads[n]} = {b.id : b \in core[n].read_barriers}
        /\ core[n].read_barriers # {} => is_leader(core[n])

\* Restarting a node gives it back the term, the vote and the log it has:
\* every change of them is persisted in the same input, conflict truncation
\* of the log file included.  Holds until the first snapshot is taken.
RestartKeepsState ==
    \A n \in Node \ panicked :
        LET r == Restored(disk[n])
        IN  /\ r.current_term = core[n].current_term
            /\ r.voted_for = core[n].voted_for
            /\ r.log = core[n].log

-----------------------------------------------------------------------------
(***************************************************************************)
(* What holds without snapshots as long as no late response is delivered   *)
(* (InSessionOnly), nor, ElectionSafety and LeaderAppendOnly apart, the    *)
(* request of a leader that has stepped down (LeadersOnly).                *)
(***************************************************************************)

\* At most one node is ever leader in a term.
ElectionSafety ==
    \A l, k \in leaders : l.term = k.term => l.node = k.node

\* A proposal that waits for its Ok is in its leader's log at the index it
\* waits for, and that index is not applied yet.
PendingIsInLog ==
    \A n \in Node \ panicked : \A p \in pending_proposals[n] :
        /\ is_leader(core[n])
        /\ p.index > core[n].last_applied
        /\ p.index <= last_log_index(core[n])
        /\ log_entry_at(core[n], p.index).command = p.command

\* Two logs with the same term at an index agree up to that index.
LogMatching ==
    \A a, b \in Node : \A i \in 1 .. min(Len(core[a].log), Len(core[b].log)) :
        core[a].log[i].term = core[b].log[i].term =>
            SubSeq(core[a].log, 1, i) = SubSeq(core[b].log, 1, i)

\* No two nodes, nor one node before and after a restart, apply different
\* entries at an index.
StateMachineSafety ==
    \A d, e \in committed :
        d.index = e.index => d.term = e.term /\ d.command = e.command

\* The leader of the latest term so far has every committed entry in its log.
LeaderCompleteness ==
    \A n \in Node, e \in committed :
        is_leader(core[n]) /\ (\A l \in leaders : l.term <= core[n].current_term) =>
            /\ e.index <= last_log_index(core[n])
            /\ log_entry_at(core[n], e.index) = [term |-> e.term, command |-> e.command]

\* A committed entry is in the log files of more than half of the nodes: no
\* crash of a minority can lose it.
CommittedOnQuorumDisks ==
    \A e \in committed :
        2 * Cardinality({n \in Node :
                /\ disk[n].log # None
                /\ \E f \in Range(disk[n].log) :
                      f = [index |-> e.index,
                           entry |-> [term |-> e.term, command |-> e.command]]})
            > Cardinality(Node)

\* The commands chosen so far.  An index has a set of them, which is a
\* singleton as long as StateMachineSafety holds.
ChosenAt(i) == {e.command : e \in {d \in committed : d.index = i}}

Chosen ==
    LET IsChosen(commands) == commands # {Noop}
    IN  SelectSeq([i \in 1 .. Max({0} \cup {e.index : e \in committed}) |-> ChosenAt(i)],
                  IsChosen)

Log == INSTANCE ReplicatedLog WITH
    Replica <- Node,
    chosen <- Chosen,
    delivered <- [n \in Node |-> [k \in 1 .. Len(app[n]) |-> {app[n][k]}]],
    acked <- {{command} : command \in acked}

\* The cluster is one replicated log, whatever node crashes in whatever input:
\* what was chosen stays chosen, every application is given a prefix of it
\* (all of it again after a restart), and Ok is said only of a command in it,
\* although the event loop answers whatever proposal waits at an applied
\* index.
ReplicatedLogSpec == Log!Spec

\* None of the unwraps, slices and expects of the core and the driver fails.
NoPanic == panicked = {}

\* A leader only ever appends to its log, and a node that is not restarted
\* never takes back a commit.
LeaderAppendOnly ==
    [][\A n \in Node :
          crashes' = crashes =>
            /\ core'[n].commit_index >= core[n].commit_index
            /\ is_leader(core[n]) /\ is_leader(core'[n]) =>
                  IsPrefix(core[n].log, core'[n].log)]_vars

-----------------------------------------------------------------------------
(***************************************************************************)
(* What the documentation says and the code does not do.                   *)
(***************************************************************************)

\* "this unwrap is ok": no AppendEntries under way makes its receiver panic.
AppendEntriesIsSafe ==
    \A m \in net : m.type = "AppendEntries" /\ Running(m.to) =>
        ~handle_append_entries(m.to, core[m.to], m).panic

\* "gives linearizable reads": a read sees every command that had been
\* acknowledged before the read was requested.
ReadsAreLinearizable == \A q \in reads : q.floor \subseteq q.seen

\* "guaranteeing index/data alignment": a snapshot holds the commands
\* committed up to its index, all of them and no others.
SnapshotIsAligned ==
    \A n \in Node : disk[n].snapshot # None =>
        Range(disk[n].snapshot.data) =
            {e.command : e \in {d \in committed :
                d.index <= disk[n].snapshot.last_included_index}} \ {Noop}

\* "The snapshot is applied first": a running node's application has been
\* given the state its snapshot holds.
SnapshotReachesApplication ==
    \A n \in Node \ panicked : disk[n].snapshot # None =>
        IsPrefix(disk[n].snapshot.data, app[n])

=============================================================================
