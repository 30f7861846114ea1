# Verification of ferris-ferry

TLA+ models, TLC runs and TLAPS proofs for ferris-ferry, a Raft library in Rust
(`raftcore`, `raft-event-loop`, `raft-file-storage`, `raft-tcp-transport`) and
the key-value store built on it (`raft-kv`).

## 1. The system

| Component | State | Operations |
|---|---|---|
| `raftcore` | `RaftCore`: role, term, vote, log, commit index, snapshot index, peer indices, votes, read barriers, tick counters | `tick`, `propose`, `request_read_barrier`, six message handlers, `prepare_snapshot` / `complete_snapshot`, `new` / `restore` / `restore_with_snapshot` |
| `raft-event-loop` | `RaftDriver`: pending proposals by index, pending reads by barrier id, `num_entries` since the last snapshot | `event_loop` (one `select!`: tick, proposal, read request, message), `handle_action`, `handle_message`, start-up in `new` |
| `raft-file-storage` | files `metadata`, `log`, `snapshot` | store / restore of each, `truncate_log`, `retrieve_snapshot_bytes` |
| `raft-tcp-transport` | per peer: a connection, a backoff, one pending message | `send`, `recv`, reconnect |
| `raft-kv` | a map behind a lock; an apply task | HTTP get / set / delete; apply, snapshot and restore from the apply channel |
| `raft-test-utils` | `InMemoryStorage`: three byte buffers; `InMemoryTransport`: channels | the `Storage` and `Transport` traits, for the tests |
| Docker / k8s files | | not modelled: deployment |

**Interaction.** The core does no I/O. The event loop calls one input method,
gets a `Vec<Action>` and performs every action in order (persist, install,
apply, answer, send) before the next input. Nodes meet only through messages.
The application is behind a channel: it is given applied commands and
snapshots, and is asked for its state when `num_entries` reaches the threshold.

**What is hard here.** Messages that arrive late, twice or out of order, after
the term, the role or the log they answer has changed; a crash between two disk
writes of one input, or inside one; a batch of applied entries whose effects
(proposal answered, snapshot taken) are spread over actions while the core's
state is already that of the end of the batch; two tables of pending reads, one
in the core and one in the event loop, that must be dropped together; indices
around the snapshot boundary. Then there is what the tasks of one process do to
each other: bounded channels that fill up, a snapshot that is asked for through
one of them, a task that panics while others wait for it; a connection that
breaks under a message; and timers that race heartbeats. `PROJECT.json` lists
each hazard at its line.

**What makes each part correct.** Core: one vote per node and term, one leader
per term, logs that match, no applied entry ever replaced. Event loop: an Ok
means a commit, no request waits for ever, a snapshot holds what its index says.
Storage: a restart gives back what has been acknowledged, and after a crash a
state the callers know. Transport: nothing but loss, delay and reordering, and
the newest message to a peer that stays up arrives. Key-value store: the map
follows the log, an answer is true, every request gets one. Timers: a leader
emerges, and is not disturbed.

## 2. Modules

| Module | Models |
|---|---|
| `RaftCore` | `raftcore` as operators on a record: an operator with the name of a method takes the core and an input and returns the new core, the actions and whether it panics |
| `Cluster` (extends `RaftCore`) | the nodes' event loops, their files and the network: variables, one action per branch of the `select!` and per message type, `Restart`; the properties |
| `ReplicatedLog` | abstract: one growing sequence of commands, of which every application gets a prefix; acknowledged means in it. Property `ReplicatedLogSpec` of `Cluster` |
| `KvNode` | one process of `raft-kv`: handlers, event loop and apply task as processes, connected by the channels of `RaftNode`; Raft is what `ReplicatedLog` promises |
| `TcpTransport` | from `send` on one node to `recv` on a peer: sender task, reconnect timer, connections, the listener's pipes |
| `Network` | abstract: messages arrive at most once, late, in any order or never. Property `NetworkSpec` of `TcpTransport`; it is the network of `Cluster` without `Duplicates`, for one pair of nodes |
| `ElectionTimer` | tick counters, random timeouts and votes, with time |
| `Storage` | both implementations of trait `Storage`, word by word, with crashes |
| `MCCluster` | symmetry and the view for TLC |
| `RaftCore_proofs` | lemmas: what each core operator returns for any well-formed input |
| `Cluster_proofs` | well-formedness, votes, leaders, waiting reads |
| `ClusterLog_proofs` (extends `Cluster_proofs`) | files, matching logs, what a leader never does |
| `ClusterSafety_proofs` (extends `ClusterLog_proofs`) | what is committed stays committed |
| `TcpTransport_proofs`, `Storage_proofs`, `KvNode_proofs`, `ElectionTimer_proofs` | one each for the other components |

The modules meet in their abstractions. `Cluster` has the whole protocol with
one input per step, over the weakest network and files that are read and
written frame by frame. Each of the others opens up one thing that `Cluster`
takes as given: `TcpTransport` the network, `Storage` the files, `KvNode` the
channel to the application, `ElectionTimer` the moment of a timeout.

**Step granularity of `Cluster`.** A step of `Cluster` is one input handled to its end
(`Perform`), a panic of the core (`CorePanic`), or a crash after some of the
input's disk writes followed by a restart (`Interrupted`, whose `CrashDisks` are
the file contents possible on the way). The event loop is one task and awaits
every action before the next input, so no other input of that node can come in
between; the inputs of different nodes interleave freely. A loss is a send that
does not put its message into `net`.

**State of `Cluster`.** `core[n]` is `RaftCore` without the tick counters.
`disk[n]` is the three files, `None` while a file does not exist; the log is a
sequence of frames with their index. `pending_proposals`, `pending_reads`,
`num_entries` are the fields of `RaftDriver`. `app[n]` is the sequence of
commands given to the application. `votes`, `leaders`, `committed`, `acked`,
`proposed`, `reads` record history for the properties; no guard reads them but
`proposed`, which makes each command a distinct one, the `floor` of a read, and
`leaders`, by which `InSession` tells a late response from a prompt one.

**Abstractions of `Cluster`.**
- Timers: `Timeout` and `Heartbeat` may happen at any moment. This contains
  every behaviour of the tick counters, so safety results carry over; liveness is
  for `ElectionTimer`.
- A read barrier keeps the number of successes since its creation instead of
  the difference of two counters that only grow.
- The `Vec<Action>` is grouped by kind. Every method pushes the kinds in the
  same order, so the order of effects is the code's.
- The apply channel is drained within the input; `KvNode` does not assume it.
- Indices and terms are natural numbers (u64 in the code, out of reach of
  overflow in practice). Unsigned underflow is a panic, as in a debug build. The
  one place where a release build differs is `truncate` at `lib.rs:689`, for an
  entry at exactly the snapshot's index with another term; TLC finds no such
  message in any state of `AnyNetwork`.

**`InSessionOnly` and `LeadersOnly`.** The two settings restrict the network.
The code enforces neither; a comparison of terms in the handlers of responses,
and a check of the role before line 786, would.

- `InSessionOnly`: no *late response* is delivered, one that answers a request of an
  earlier term or of a life before the last restart. The handlers do not compare
  the response's term with the present one, so that with late responses election
  safety fails (run `LateVote`), and with it everything above it. `InSession` says
  which ones are late. A response of a later term than its receiver's is never
  late: it is how a leader learns that it was replaced, and is delivered in every
  run and in every theorem.
- `LeadersOnly`: the `AppendEntries` that a node sends while it is not leader is lost.
  There is one such request: `handle_append_entries_response` steps down on a refusal
  from a later term and still answers it, with the new term, `prev_log_index` 0, no
  entries and its own commit index (`lib.rs:767`, `784`, `786`). Its receiver
  accepts it whatever its log (`628`) and commits by it. With every message prompt
  this breaks `StateMachineSafety` (run `DeposedLeader`), and with it
  `LeaderCompleteness`, `CommittedOnQuorumDisks` and the refinement. `ElectionSafety`,
  `LeaderAppendOnly`, `RestartKeepsState` and what `AnyNetwork` checks are proved
  without `LeadersOnly`.

Requests may be as late as they like in every run and in every theorem.

**`KvNode`.** An input of the event loop is a sequence of actions, `todo`, and
`handle_action` performs the first of them one await at a time (`step`), so
that handlers and the apply task run in between. `Submit`, `Answered` and
`ReadStore` are the three parts of a handler: until `propose` or `read_request`
waits, the answer, and the read of the map after it. Raft is external: it is what
`ReplicatedLog` promises, under the assumptions of run `Crash`. `chosen`
only grows, a leader's log starts with it, `deposed` says that the node has been
replaced and does not know. Nothing is promised of the snapshots of other
leaders: their senders run the code that `SnapshotBatch` and `SnapshotRestart` refute,
so a snapshot at index k may come with any of the commands up to k missing
(`Snapshots`). `installed` remembers the last one that was handed over; the
properties of the map are about what the process does from there on. `EventLoopPanics` stands for the `expect`s on storage:
the task ends, its channels close, and the process goes on serving HTTP.
Addresses are the ordinals of the pods; a 503 with and without a known leader
are one.

**`TcpTransport`.** Messages are numbered in the order of `send`. `stream` is
"broken" from the moment the connection is unusable until the sender notices,
through a failing write or through `s.next()`. A write to a broken connection
fails, or is accepted and lost. Every connection has its own reader at the peer,
so readers of two connections may overtake each other. Time is in units of the
smallest backoff.

**`ElectionTimer`.** Time passes in rounds of `tick_length`: every node ticks once
per round, and messages arrive within the round, all in any order. Terms are
counted from 0 again in every round; `TypeOK` has the reason why that is sound.
`log_check` is a set of nodes whose log is behind. The timeouts must exceed the
heartbeat by more than one tick (`TimerAssumption`; the deployed values are 15 to
30 ticks, and the heartbeat the core's default).

**`Storage`.** A frame is three words (index, length, entry), metadata and
snapshot are two. A crash comes after any word and may leave a torn one. The
double gets every call at the same time as the files.

## 3. Runs

The runs of `Cluster` instantiate `MCCluster`; the others check their module
directly. In the former, node and command sets are model values, with symmetry:
no operator tells one node or command from another, the refinement mapping and
`ReplicatedLog` included, and no liveness is checked there. Where the view
`InSessionView` is used it leaves out `votes` (no property of those runs reads
it), `current_leader` (nothing reads it), and the vote and index tables of
nodes whose role makes them unreadable as long as late responses are not
delivered and a node that is not leader gets no request through: they are reset
before they are read again. Only runs with both settings use it.
Deadlock checking is off in the runs of `Cluster` (at `MaxTerm`, with every
message lost, a bounded cluster may have nothing to do), in `Transport` (the
transport is dropped, or everything has arrived) and in `Kv` and `EarlyRead` (every
client has its answer and the event loop has panicked). It is on in `Election` and `Storage`.

Passing:

| Run | Instance | Shows |
|---|---|---|
| `AnyNetwork` | 2 nodes, 1 command, threshold 1, 1 read, 2 terms, 1 crash, torn writes, 2 messages in flight, late responses | `TypeOK`, `VoteOncePerTerm`, `NoOrphanedReads` on any network and across snapshots |
| `Crash` | 3 nodes, 1 command, 2 terms, 1 crash, 1 message in flight | `StateMachineSafety`, `LeaderCompleteness`, `CommittedOnQuorumDisks`, `RestartKeepsState`, `NoPanic`, `PendingIsInLog`, and the refinement `ReplicatedLogSpec` |
| `Terms` | 3 nodes, 1 command, 3 terms, 1 message in flight, duplicates | `ElectionSafety`, `LogMatching`, `StateMachineSafety`, `LeaderAppendOnly` over logs that diverge twice, with messages that come again |
| `Transport` | 3 messages, 2 faults, backoff from 1 to 3 | `NewestIsKept`, `NeverOvertaken`, the refinement `NetworkSpec`, liveness `Reconnects`, `LastMessageArrives` |
| `Kv` | 2 clients with any request each, 1 key, channels of 2, threshold 2, 1 foreign entry, 1 election won | `NothingSkipped`, `SnapshotHoldsHanded`, `MapFollowsLog`, `ReadsAfterHandover`, `AnswersAreTrue`, `RedirectsToLeader`, liveness `EveryRequestAnswered` |
| `Election` | 3 nodes, one stale, heartbeat 1, timeouts 3 and 5, 1 crash | `LeaderIsUndisturbed`, liveness `LeaderEmerges` |
| `Storage` | 2 entries, start indices 1 and 2, up to 3 frames, 2 crashes | `StoredLog`, `WholeFiles`, `DoubleAgrees` |

`Crash` and `Terms` set `InSessionOnly` and `LeadersOnly` and take no snapshots; section
4 says which theorem needs which of them. Their one message at a time is late,
lost or repeated, but two do not overtake each other; the theorems have no such
bound, and `Reorder.cfg` (module `MCCluster`: 3 nodes, 2 commands, 1 term, 2 messages
in flight, duplicates) checks `CommittedOnQuorumDisks` and `NoPanic` when longer and
shorter requests, and their answers, overtake each other (2 minutes).

The bounds: three nodes are the deployed size and the smallest in which two
quorums share one node only; two terms give a leader, a rival and a deposed
leader, three an entry of an old term on a majority; one crash reaches every
point between two disk writes, and the node's whole second life; a threshold of
1 makes every applied command compact. `MaxNet` bounds what is in flight at the
same time, not how late a message is: one message may stay in `net` while
everything else happens by timeouts, heartbeats and restarts. In `Kv` two clients
are enough for a get that races a set and for two requests in one table;
the channel is full as soon as a command and a snapshot request are in it.
Timeouts 3 and 5 give split votes (equal draws) as well as decisive ones. Two crashes in `Storage` cut a store short that
repairs the tail another crash has left. Every property
has a mutant in `PROJECT.json`, a plausible slip in one mapped definition that
TLC refutes under the same configuration.

Violations. Each shows that the code does not do what the named line says; the
findings in `PROJECT.json` quote it.

| Run | What happens |
|---|---|
| `LateVote` | a vote of an earlier election is counted in the present one: two leaders in a term |
| `DeposedLeader` | a leader that has just been replaced sends `AppendEntries` of the new term, and a follower applies its own uncommitted entry |
| `StaleRead` | a read barrier is lifted by an answer to a request sent before the read, at a replaced leader |
| `SnapshotBatch` | the threshold is reached inside a batch: index of the end, data of the middle |
| `SnapshotRestart` | a restarted node's application never gets the snapshot |

`DeposedLeader` in detail: n3 leads term 1 and appends its no-op, which goes
nowhere; n1 leads term 2 and commits index 1 with n2; n2 becomes candidate of term
3 and n3 votes for it; n3 refuses n1's heartbeat; n1 steps down and answers with
`AppendEntries` of term 3, commit index 1; n3 applies its own entry of term 1.

More follow from the same models. For these there is a configuration, outside the
runs of `PROJECT.json`, that refutes the property named (`EarlyRead.cfg` with module
`KvNode`, the others with `MCCluster`), none with late responses:

| Configuration | Property | What happens |
|---|---|---|
| `EvenCluster.cfg` | `CommittedOnQuorumDisks` | with two nodes the leader commits alone: the quorum position at `lib.rs:801` is enough for n / 2 of n |
| `TornLog.cfg` | `CommittedOnQuorumDisks` | `store_log_entries` cuts the file and writes the same entries again; a crash in between loses committed ones |
| `SnapshotTail.cfg` | `RestartKeepsState` | `truncate_log` empties the log file although `complete_snapshot` keeps what lies behind the snapshot |
| `SnapshotCrash.cfg` | `StateMachineSafety` | a crash between `store_snapshot` and `truncate_log`: the frames left are taken for those behind the snapshot, and applied again |
| `FirstSnapshot.cfg` | `NoPanic` | a follower without a log file is sent a snapshot: `truncate_log` fails, and `StartupPanics` at every later start. The double of the tests does not fail there |
| `EntriesInSnapshot.cfg` | `AppendEntriesIsSafe` | an `AppendEntries` with `prev_log_index` 0 for which a follower that has compacted index 1 panics (`lib.rs:684`) |
| `EarlyRead.cfg` | `ReadsSeeWrites` | a get reads the map while a set that was acknowledged before is still in the apply channel |

Four more have no configuration either, because their shortest behaviour is too deep
for a breadth-first run or needs the late responses that `LateVote` has already
shown to be fatal:

- A success from before a restart can carry a `match_index` beyond the present
  log, and the unwrap at `lib.rs:809` panics (`NoPanic` with 2 nodes, 3 terms,
  1 crash, `InSessionOnly = FALSE`).
- With five nodes the successes to the request of a deposed leader raise its match
  indices over its own log, and it panics there as well, without late messages
  (`LeadersOnly = FALSE`).
- *Late refusal.* A refusal that names no conflict sets `next_index` to 0 also at a
  node that has become leader of the refusal's term since; every follower accepts
  the next, empty request and reports its whole log as matched, and the leader
  commits entries that only it has: `CommittedOnQuorumDisks` with 3 nodes,
  1 command, 3 terms, 2 messages and `InSessionOnly = FALSE`. The behaviour has 17
  steps; TLC finds the violation when it follows the schedule: n2 leads term 1 and
  its `AppendEntries` to n1 is delayed; n1 leads term 2 and appends a no-op and a
  command; n2 leads term 3 with n3's vote; n1 hears of term 3, refuses the delayed
  request, and n2 takes the refusal as one of term 3.
- A waiting proposal may be for another command than the one at its index, on a
  network with late responses (two leaders in a term), and after a crash of a
  node with a snapshot: `PendingIsInLog` is stated without both.

**Fairness.** Stated only where liveness is checked, per task:
- `TcpTransport`: weak fairness of the sender task, of every reader and of `recv`
  (tokio runs a task that can run; TCP delivers on a connection that does not
  break), and of `PeerStarts` (`restart: unless-stopped`, the StatefulSet). Nothing
  is assumed of `send`. Faults are bounded, so the claims are about what happens
  after the last one.
- `KvNode`: weak fairness of every handler, of the actions of one input and of the
  apply task; strong fairness of the branches that take a proposal or a read,
  because `select!` picks at random among the branches that are ready. Of Raft:
  a leader gets its log chosen and its barriers answered, or hears that it was
  replaced. That is what a majority in touch gives; without it a request waits
  as long as there is no majority, since the code has no timeout there.
- `ElectionTimer`: weak fairness of ticks and messages. `random_range` draws
  independently, so of infinitely many rounds in which some timer is about to
  expire infinitely many have draws that decide the election: one up-to-date
  node is two ticks ahead of all others. That is a strong fairness condition on
  draws, not on outcomes.

## 4. Proofs

Every safety invariant, every action property and the refinement `NetworkSpec` of
the runs in section 3 are theorems, for every value of the constants: any finite
set of nodes or clients, any number of commands, messages, terms, crashes and
faults, any threshold and channel size. The runs' bounds are parameters there,
so a theorem holds without them.

**Assumptions on constants.** Each module's `ASSUME`, evaluated by TLC in every
run. Besides sizes they say that `None` is not a value: TLA+ has no types, and
`Option::None` must differ from what `Some` holds (`ClusterAssumption`,
`StorageAssumption`, `KvAssumption`). `TimerAssumption` wants timeouts of more than a
heartbeat and a tick.

**Hypotheses of theorems.** What the runs fix in their configuration is a
hypothesis here; section 3 has, for each, a property that fails without it:
- `InSessionOnly`: no late response (`LateVote`);
- `LeadersOnly`: the request of a leader that has stepped down is lost
  (`DeposedLeader`);
- `NoSnapshot`, as `[](NoSnapshot => ...)`: until the first snapshot (`SnapshotTail`,
  `SnapshotCrash`, `FirstSnapshot`, `EntriesInSnapshot`). `NoneIsNoSnapshot` goes with
  it: `None` differs from every snapshot record, whatever data it holds;
- `OddCluster`: the quorum position (`EvenCluster`);
- `~TornWrites` (`TornLog`).

### `Cluster`

| Theorem | States | Needs |
|---|---|---|
| `TypeCorrectness` | `TypeOK` | |
| `OneVotePerTerm` | `VoteOncePerTerm` | |
| `ReadsAreNotOrphaned` | `NoOrphanedReads` | |
| `AtMostOneLeader` | `ElectionSafety` | `InSessionOnly` |
| `RestartIsSafe` | `RestartKeepsState` | no snapshot |
| `LeadersOnlyAppend` | `LeaderAppendOnly` | no snapshot |
| `LogsMatch` | `LogMatching` | no snapshot, `InSessionOnly`, `LeadersOnly` |
| `AppliedEntriesAgree`, `LeadersAreComplete`, `CommittedIsOnDisks`, `NothingPanics`, `ProposalsAreInLog` | `StateMachineSafety`, `LeaderCompleteness`, `CommittedOnQuorumDisks`, `NoPanic`, `PendingIsInLog` | no snapshot, `InSessionOnly`, `LeadersOnly`, `OddCluster`, `~TornWrites` |

`RaftCore_proofs` has one lemma per core operator (`StepOK`: result well-formed,
metadata written in step with term and vote; `RoleOK`: no leadership gained;
`ElectOK`: gained only with a majority), so the other modules reason about the
ways an input can end and not about the handlers. The inductive invariants build
on each other:

- `IInv`. `TypeOK` is not inductive: a snapshot takes `log_term_at(last_applied)`,
  which is a number only if `last_applied` lies in the log. The core always moves
  `last_applied` together with `commit_index` (`AppliedIsCommitted`), and a batch is
  applied only up to the end of the log; that makes the unwrap in
  `prepare_snapshot` safe. For votes: term and vote of a running core are those in
  its metadata file (`CoreOnDisk`); a recorded vote is of a term the file has
  passed, or is the vote in it (`VotesOnDisk`). Every file content a crash can
  leave keeps or raises the term, and within a term only turns no vote into one
  (`DiskFollows`).
- `ElectionInv`: a granted `RequestVoteResponse` in flight is a recorded vote; a
  candidate's `votes_received` are recorded votes for it in its term; whoever was
  leader had recorded votes of a majority. Two majorities share a voter (by
  cardinality), and `VoteOncePerTerm` makes its two votes one.
- `ReadInv`: the barrier ids of a core are distinct and below the next one, and the
  event loop's table has exactly these ids.
- `FilesInv`: the frames in the log file are the core's log, at their indices.
- `LogsInv`: there is a function `L` from terms to logs, the log that the leader of
  each term has built so far. Every log agrees with `L` up to the last entry of each
  term in it, and `AppendEntries` in flight carry a piece of `L` of their term.
- `SafeInv`: there is also a set `A` of acknowledgements (node, term, index). An
  entry of term t that a majority has acknowledged in term t is *settled*; every
  commit index and every applied entry rests on a settled one. No later leader
  lacks a settled entry (`SettledStays`): the least term whose leader does was
  elected by a majority, one of whose nodes had acknowledged the entry and gave its
  vote only to a log at least as up to date, unless a leader in between lacked it
  already. Commit indices, unwraps and pending proposals follow from the same
  conjuncts: a `match_index` is an acknowledgement, a `next_index` lies in the log.
  This is where `LeadersOnly` enters: every `AppendEntries` in flight comes from a node
  that led its term (`LedBy`) and ends at index 1 or later, so that what it makes a
  follower commit is in the leader's log, and a prompt success reaches a leader.
  `L` and `A` exist in every state and are not variables of the model.

### The other components

- `TcpTransport`: `TypeCorrectness`, `OrderIsKept` (`NeverOvertaken`), `NewestSurvives`
  (`NewestIsKept`) and `ImplementsNetwork` (`NetworkSpec`). `OrderInv` orders the whole
  path: wires by connection, the wires before the pending slot, the slot before
  the channel, nothing beyond `sent`; and what waits at the receiver is on no
  wire any more. From the last part, nothing is received twice.
- `Storage`: `TypeCorrectness`, `LogIsStored` (`StoredLog`), `FilesAreWhole` (`WholeFiles`),
  `DoubleIsFaithful` (`DoubleAgrees`). The log file is at any time the words of some
  sequence of frames, cut anywhere, with at most one torn word (`LogWords`);
  `truncate_at` cuts between two frames (`TruncateAt`), and the double's byte offset
  is the same one (`MemTruncateAt`).
- `KvNode`: `TypeCorrectness`, `NothingIsSkipped`, `SnapshotsAreExact`, `MapIsInOrder`,
  `ReadsComeLate`, `AnswersHold`, `RedirectsAreRight`, for `TypeOK` and the properties of
  run `Kv` in the order of section 3. `FlowInv`: what is left of an input is either one
  installation or the entries from `handed` (one less while a snapshot is being
  taken) to `last_applied` in order, then reads. `ChannelInv`: the map with the
  channel folded into it is `installed` with the entries from there to `handed`;
  indices in the channel rise; a snapshot request is last in it and a reply comes
  with an empty channel, or the reply would be older than its index says.
  `InOrder`: every command in the channel is the chosen one at its index, and
  between it and the item before there are only no-ops, unless a snapshot takes
  its place; `MapIsInOrder` follows from it. `ClientInv`: a client is in at most
  one of the four places where it can wait, and what it was told is so.
- `ElectionTimer`: `TypeCorrectness` and `LeadersStay` (`LeaderIsUndisturbed`). In a
  round a term rises at most once, for a node that hears of the new term starts
  its clock again and has one tick left (`Clocks`); a request of the new term is
  under way to everybody who is behind (`Spreads`), even if its sender has crashed.
  As long as a leader of an earlier round is up, every other clock is at most its
  own plus one and the ticks of this round, or a heartbeat is under way (`InTime`),
  so no election starts (`Reigns`). The proof showed that a leader is safe whether
  or not it has the latest term, and the property now says so.

Folds over sequences (`NothingIsSkipped`, `SnapshotsAreExact`) are proved by the
least counterexample (`LeastNat`, from the library's `WFMin`), since induction with
an operator parameter is out of reach of the installed provers: `PlayRuns` and
`FoldRuns` turn a fold into the sequence of its intermediate results.

### Only model-checked

- Liveness under fairness (`Reconnects`, `LastMessageArrives`, `EveryRequestAnswered`,
  `LeaderEmerges`): out of the prover's reach.
- `ReplicatedLogSpec`. Its parts are theorems (`AppliedEntriesAgree` for one
  command per index, `ProposalsAreInLog` for acknowledgements), but the mapping
  drops the no-ops of the log with `SelectSeq`, of which the provers and the library
  know nothing.
- The behaviours of the violation runs, which refute a property.

## 5. Not modelled

- A power failure: writes that were made and not synced, and the rename at
  `file-storage` line 43, whose directory is not synced. The runs crash the
  process, not the machine.
- I/O errors other than a missing file and the panic they lead to.
- `InMemoryTransport`: bounded channels between the nodes of a test, without logic
  of its own. Its `send` waits when the receiver's channel of 1024 is full.
- A cluster of one, which never elects itself (a TODO at `lib.rs:543`).
- `first_conflicting_term`, which no code reads; logging, HTTP, argument parsing,
  serialisation; the graceful shutdown, which ends the process; `/healthz`, which
  answers OK whatever happens; deployment files.

## 6. Plan

Done: the modules of section 2, their runs, and theorems for every safety and
action property of the passing runs but `ReplicatedLogSpec`.

Next, in this order:
1. `ReplicatedLogSpec`: the two filters of `Cluster` (`Delivered`, `Chosen`) as folds,
   whose lemmas `KvNode_proofs` has the pattern for; then each step of `Cluster` is
   a step of `ReplicatedLog`, from `SafeInv` and the fact that `app[n]` is the commands
   of the log up to `last_applied`.
2. `LogMatching` and `StateMachineSafety` beyond the first snapshot, as far as the
   code has them: up to a crash of a node with a snapshot.
