------------------------------- MODULE KvNode -------------------------------
(***************************************************************************)
(* One process of the key-value store, crates/raft-kv/src/main.rs, and the *)
(* channels of crates/raft-event-loop that connect its tasks:              *)
(*   - a handler per HTTP request (set, get, delete), which waits in       *)
(*     RaftNode::propose or read_request;                                  *)
(*   - the event loop, which takes proposals and reads, performs the       *)
(*     actions of one input one after the other, and waits whenever the    *)
(*     apply channel is full or a snapshot is asked for;                   *)
(*   - the apply task, the only one that writes the map.                   *)
(*                                                                         *)
(* Raft itself is external here, as module ReplicatedLog promises it: a    *)
(* sequence `chosen' that only grows, and that every leader's log starts   *)
(* with.  A leader that has been replaced does not know it yet: `deposed'. *)
(***************************************************************************)
EXTENDS Integers, Sequences, FiniteSets, SequencesExt

CONSTANTS
    Client,     \* HTTP requests: each client makes one
    Key, Value,
    N,          \* number of addresses in --nodes
    Pod,        \* this process: the ordinal in its hostname
    MaxNodeId,  \* u64::MAX
    CHANNEL_BUFFER,
    SnapshotThreshold,  \* RaftConfig::snapshot_threshold
    MaxLog,     \* bound on the log, what the clients here propose not counted
    MaxTerms,   \* bound on elections won by this node
    None        \* Option::None

ASSUME KvAssumption ==
    /\ IsFiniteSet(Client) /\ None \notin Client \cup Value \cup Int
    /\ None # [ok |-> TRUE]
    /\ {N, Pod, MaxNodeId, MaxLog, MaxTerms} \subseteq Nat
    /\ Pod < N /\ N <= MaxNodeId
    /\ {CHANNEL_BUFFER, SnapshotThreshold} \subseteq Nat \ {0}

VARIABLES
    \* The handlers:
    request,    \* [Client -> its request, None before it is made]
    stage,      \* [Client -> "new", "waiting", "reading" or "done"]
    answer,     \* [Client -> what its oneshot has been sent, None before]
    response,   \* [Client -> the HTTP response]
    \* The channels of RaftNode:
    proposals, reads, applied,
    reply,      \* the oneshot of a SnapshotRequest
    \* The event loop:
    todo,       \* actions of the present input still to perform
    step,       \* how far handle_action is with the first of them
    drain,      \* leadership was lost in the present input
    pending_proposals,  \* [index, client]
    pending_reads,      \* clients
    num_entries,
    snapshot,   \* the last snapshot stored
    alive,      \* the event loop's task has not panicked
    \* Raft:
    role, current_leader, log, last_applied,
    chosen, deposed, terms,
    \* The apply task:
    store,
    \* For the properties:
    handed,     \* index of the last entry handed to the apply channel
    stored,     \* index of the last entry in `store'
    installed,  \* the last snapshot of another leader that was handed over
    acked,      \* highest index of a command that was answered Ok
    floor       \* [Client -> acked when the request was made]

handlers == <<request, stage, answer, response, floor>>
channels == <<proposals, reads, applied, reply>>
loop == <<todo, step, drain, pending_proposals, pending_reads, num_entries, snapshot, alive>>
raft == <<role, current_leader, log, last_applied, chosen, deposed, terms>>
app == <<store, stored>>
vars == <<handlers, channels, loop, raft, app, installed, handed, acked>>

-----------------------------------------------------------------------------
(***************************************************************************)
(* Start-up: who this node is and where the others answer HTTP.  The       *)
(* addresses are identified with the ordinals of their pods.               *)
(***************************************************************************)
id_from_hostname(ordinal) ==
    IF ordinal = None \/ ordinal + 1 > MaxNodeId THEN None ELSE ordinal + 1

resolve_id(id, ordinal) == IF id # None THEN id ELSE id_from_hostname(ordinal)

\* main panics on any other id.
Valid(id) == id # None /\ id \in 1 .. N

node_id == resolve_id(None, Pod)

\* The ids of build_config: position in --nodes, from 1.
Nodes == {idx + 1 : idx \in 0 .. N - 1}

\* Ids start at 0.
Mutant_http_addrs(id) == IF id \in 0 .. N - 1 THEN id ELSE None

http_addrs(id) == IF id \in Nodes THEN id - 1 ELSE None

-----------------------------------------------------------------------------
(***************************************************************************)
(* Commands and their effect on the map.                                   *)
(***************************************************************************)
KvCommand ==
    [op : {"Set"}, key : Key, value : Value] \cup [op : {"Delete"}, key : Key]

Request == KvCommand \cup [op : {"Get"}, key : Key]

Empty == [k \in Key |-> None]

Effect(map, command) ==
    CASE command.op = "Set" -> [map EXCEPT ![command.key] = command.value]
      [] command.op = "Delete" -> [map EXCEPT ![command.key] = None]
      [] OTHER -> map

\* An entry of the log: a command, and the client it came from here.
Noop == [command |-> [op |-> "Noop"], client |-> None]
EntryOf(c) == [command |-> request[c], client |-> c]
\* Entries of other leaders: their clients undo what is set here.
Foreign == {[command |-> [op |-> "Delete", key |-> k], client |-> None] : k \in Key}

After(map, entries) == FoldLeft(LAMBDA m, e : Effect(m, e.command), map, entries)

\* What a snapshot b and the entries of the log from there to i amount to.
Since(b, i) == After(b.data, SubSeq(chosen, b.index + 1, i))

\* The data that a snapshot at index k may come with.  Its sender may have
\* stored the map of the middle of a batch under the index of the end, may
\* have been sent such a snapshot itself, or may have started again with an
\* empty map: any commands up to k may be missing.
Snapshots(k) ==
    {After(Empty, [i \in 1 .. k |-> IF i \in S THEN chosen[i] ELSE Noop]) :
        S \in SUBSET (1 .. k)}

-----------------------------------------------------------------------------
(***************************************************************************)
(* The handlers.                                                           *)
(***************************************************************************)
Aborted == [status |-> "aborted"]   \* the handler panics, the connection closes

map_proposal_error(err) ==
    CASE err.error = "LostLeadership" -> [status |-> "503"]
      [] err.leader = None -> [status |-> "503"]
      [] http_addrs(err.leader) = None -> [status |-> "503"]
      [] OTHER -> [status |-> "307", location |-> http_addrs(err.leader)]

\* propose or read_request puts the request on its channel and waits.  The
\* channels of a dead event loop are closed.
Submit(c, r) ==
    /\ stage[c] = "new"
    /\ request' = [request EXCEPT ![c] = r]
    /\ floor' = [floor EXCEPT ![c] = acked]
    /\ IF ~alive
       THEN /\ stage' = [stage EXCEPT ![c] = "done"]
            /\ response' = [response EXCEPT ![c] = Aborted]
            /\ UNCHANGED <<proposals, reads>>
       ELSE /\ stage' = [stage EXCEPT ![c] = "waiting"]
            /\ UNCHANGED response
            /\ IF r.op = "Get"
               THEN /\ Len(reads) < CHANNEL_BUFFER
                    /\ reads' = Append(reads, c) /\ UNCHANGED proposals
               ELSE /\ Len(proposals) < CHANNEL_BUFFER
                    /\ proposals' = Append(proposals, c) /\ UNCHANGED reads
    /\ UNCHANGED <<answer, applied, reply, loop, raft, app, installed, handed, acked>>

\* The oneshot has a value, or its sender is gone with the event loop.
Answered(c) ==
    LET a == answer[c]
    IN  /\ stage[c] = "waiting"
        /\ \/ /\ a # None /\ a.ok /\ request[c].op = "Get"
              /\ stage' = [stage EXCEPT ![c] = "reading"]
              /\ UNCHANGED response
           \/ /\ a # None /\ (a.ok => request[c].op # "Get")
              /\ stage' = [stage EXCEPT ![c] = "done"]
              /\ response' = [response EXCEPT ![c] =
                                IF a.ok THEN [status |-> "200"] ELSE map_proposal_error(a)]
           \/ /\ a = None /\ ~alive
              /\ stage' = [stage EXCEPT ![c] = "done"]
              /\ response' = [response EXCEPT ![c] = Aborted]
        /\ UNCHANGED <<request, answer, floor, channels, loop, raft, app, installed,
                       handed, acked>>

\* get_handler reads the map.
ReadStore(c) ==
    /\ stage[c] = "reading"
    /\ stage' = [stage EXCEPT ![c] = "done"]
    /\ response' = [response EXCEPT ![c] =
                      [status |-> "value", value |-> store[request[c].key]]]
    /\ UNCHANGED <<request, answer, floor, channels, loop, raft, app, installed, handed,
                   acked>>

-----------------------------------------------------------------------------
(***************************************************************************)
(* The event loop's select!: proposals, reads, and what Raft's messages    *)
(* lead to.  Each input starts when the one before is done.                *)
(***************************************************************************)
Idle == alive /\ todo = << >> /\ ~drain

Ok == [ok |-> TRUE]
FollowerNode == [ok |-> FALSE, error |-> "FollowerNode", leader |-> current_leader]
LostLeadership == [ok |-> FALSE, error |-> "LostLeadership"]

TakeProposal ==
    LET c == Head(proposals)
    IN  /\ Idle /\ proposals # << >>
        /\ proposals' = Tail(proposals)
        /\ \/ /\ role = "Leader"
              /\ log' = Append(log, EntryOf(c))
              /\ pending_proposals' =
                    pending_proposals \cup {[index |-> Len(log) + 1, client |-> c]}
              /\ UNCHANGED answer
           \/ /\ role # "Leader"
              /\ answer' = [answer EXCEPT ![c] = FollowerNode]
              /\ UNCHANGED <<log, pending_proposals>>
        /\ UNCHANGED <<request, stage, response, floor, reads, applied, reply, todo,
                       step, drain, pending_reads, num_entries, snapshot, alive, role,
                       current_leader, last_applied, chosen, deposed, terms, app,
                       installed, handed, acked>>

\* Reads have a task of their own, and do not wait for the event loop.
Mutant_TakeRead ==
    /\ alive /\ reads # << >> /\ role = "Leader"
    /\ reads' = Tail(reads)
    /\ answer' = [answer EXCEPT ![Head(reads)] = Ok]
    /\ UNCHANGED <<request, stage, response, floor, proposals, applied, reply, loop,
                   raft, app, installed, handed, acked>>

TakeRead ==
    LET c == Head(reads)
    IN  /\ Idle /\ reads # << >>
        /\ reads' = Tail(reads)
        /\ \/ /\ role = "Leader"
              /\ pending_reads' = pending_reads \cup {c}
              /\ UNCHANGED answer
           \/ /\ role # "Leader"
              /\ answer' = [answer EXCEPT ![c] = FollowerNode]
              /\ UNCHANGED pending_reads
        /\ UNCHANGED <<request, stage, response, floor, proposals, applied, reply, todo,
                       step, drain, pending_proposals, num_entries, snapshot, alive,
                       raft, app, installed, handed, acked>>

(***************************************************************************)
(* The inputs that come from Raft.  What a step leaves to handle_action is *)
(* its `todo'.                                                             *)
(***************************************************************************)
Applies(to) ==
    [i \in 1 .. to - last_applied |->
        [act |-> "Apply", index |-> last_applied + i, entry |-> log'[last_applied + i]]]

Readies(R) ==
    [i \in 1 .. Cardinality(R) |-> [act |-> "Ready", client |-> SetToSeq(R)[i]]]

\* Responses arrive: the log is chosen up to k, in one piece at least up to
\* the leader's own Noop, and the barriers of R have had their responses.
Advance(k, R) ==
    /\ Idle /\ role = "Leader" /\ R \subseteq pending_reads
    /\ k > last_applied \/ R # {}
    /\ k > last_applied =>
          ~deposed /\ \A i \in Len(chosen) + 1 .. Len(log) : log[i] = Noop => i <= k
    /\ chosen' = IF k > Len(chosen) THEN SubSeq(log, 1, k) ELSE chosen
    /\ log' = log
    /\ last_applied' = k
    /\ todo' = Applies(k) \o Readies(R)
    /\ UNCHANGED <<handlers, channels, step, drain, pending_proposals, pending_reads,
                   num_entries, snapshot, alive, role, current_leader, deposed, terms,
                   app, installed, handed, acked>>

\* AppendEntries of another leader brings the log up to n and the commit
\* index up to k.  What conflicts with it is cut off.
Follow(leader, n, k) ==
    LET entries == SubSeq(chosen, 1, n)
    IN  /\ Idle /\ role = "Follower" /\ leader # node_id
        /\ log' = IF IsPrefix(entries, log) THEN log ELSE entries
        /\ current_leader' = leader
        /\ last_applied' = k
        /\ todo' = Applies(k)
        /\ UNCHANGED <<handlers, channels, step, drain, pending_proposals,
                       pending_reads, num_entries, snapshot, alive, role, chosen,
                       deposed, terms, app, installed, handed, acked>>

\* A snapshot is installed whatever the log holds.
Mutant_Install(leader, k, data) ==
    /\ Idle /\ role = "Follower" /\ leader # node_id
    /\ log' = SubSeq(chosen, 1, k) /\ last_applied' = k
    /\ current_leader' = leader
    /\ todo' = <<[act |-> "Install", index |-> k, data |-> data]>>
    /\ UNCHANGED <<handlers, channels, step, drain, pending_proposals, pending_reads,
                   num_entries, snapshot, alive, role, chosen, deposed, terms, app,
                   installed, handed, acked>>

\* InstallSnapshot of another leader, at an entry that the log does not hold.
\* Its data is taken as it comes.
Install(leader, k, data) ==
    /\ Idle /\ role = "Follower" /\ leader # node_id
    /\ ~IsPrefix(SubSeq(chosen, 1, k), log)
    /\ log' = SubSeq(chosen, 1, k) /\ last_applied' = k
    /\ current_leader' = leader
    /\ todo' = <<[act |-> "Install", index |-> k, data |-> data]>>
    /\ UNCHANGED <<handlers, channels, step, drain, pending_proposals, pending_reads,
                   num_entries, snapshot, alive, role, chosen, deposed, terms, app,
                   installed, handed, acked>>

\* This node wins an election: its log has all that is chosen.
Elected ==
    /\ Idle /\ role = "Follower" /\ IsPrefix(chosen, log)
    /\ terms < MaxTerms /\ terms' = terms + 1
    /\ role' = "Leader" /\ current_leader' = node_id /\ deposed' = FALSE
    /\ log' = Append(log, Noop)
    /\ UNCHANGED <<handlers, channels, loop, last_applied, chosen, app, installed,
                   handed, acked>>

\* A message of a later term, from a candidate or from the new leader.  It
\* applies nothing: a new leader's first requests start behind its own Noop,
\* and do not pass the consistency check here.
StepDown(leader) ==
    /\ Idle /\ role = "Leader" /\ leader # node_id
    /\ role' = "Follower" /\ current_leader' = leader /\ drain' = TRUE
    /\ UNCHANGED <<handlers, channels, todo, step, pending_proposals, pending_reads,
                   num_entries, snapshot, alive, log, last_applied, chosen, deposed,
                   terms, app, installed, handed, acked>>

\* Another leader gets an entry chosen: a command of its own clients, or what
\* logs elsewhere have of this node's.  The event loop hears of it with its
\* next input only.
ChosenElsewhere(entry) ==
    /\ Idle
    /\ \/ entry \in Foreign /\ Len(chosen) < MaxLog
       \/ IsPrefix(Append(chosen, entry), log)
    /\ chosen' = Append(chosen, entry)
    /\ deposed' = (role = "Leader")
    /\ UNCHANGED <<handlers, channels, loop, role, current_leader, log, last_applied,
                   terms, app, installed, handed, acked>>

-----------------------------------------------------------------------------
(***************************************************************************)
(* handle_action, one await at a time.                                     *)
(***************************************************************************)
At(act, s) == alive /\ todo # << >> /\ Head(todo).act = act /\ step = s

NextAction == todo' = Tail(todo) /\ step' = "start"

ToApplication(item) ==
    /\ Len(applied) < CHANNEL_BUFFER
    /\ applied' = Append(applied, item)

\* The proposal that waits for this index is answered; a Noop ends here.
ApplyAnswer ==
    LET index == Head(todo).index
        mine == {p \in pending_proposals : p.index = index}
    IN  /\ At("Apply", "start")
        /\ pending_proposals' = pending_proposals \ mine
        /\ answer' = [c \in Client |-> IF \E p \in mine : p.client = c THEN Ok ELSE answer[c]]
        /\ acked' = IF mine = {} THEN acked ELSE index
        /\ IF Head(todo).entry = Noop
           THEN NextAction /\ handed' = index
           ELSE step' = "send" /\ UNCHANGED <<todo, handed>>
        /\ UNCHANGED <<request, stage, response, floor, channels, drain, pending_reads,
                       num_entries, snapshot, alive, raft, app, installed>>

\* try_send: a full channel loses the command.
Mutant_ApplySend ==
    /\ At("Apply", "send")
    /\ applied' = IF Len(applied) < CHANNEL_BUFFER
                  THEN Append(applied, [type |-> "Command",
                                        command |-> Head(todo).entry.command,
                                        index |-> Head(todo).index])
                  ELSE applied
    /\ handed' = Head(todo).index
    /\ NextAction
    /\ UNCHANGED <<handlers, proposals, reads, reply, drain, pending_proposals,
                   pending_reads, num_entries, snapshot, alive, raft, app, installed,
                   acked>>

ApplySend ==
    /\ At("Apply", "send")
    /\ ToApplication([type |-> "Command", command |-> Head(todo).entry.command,
                      index |-> Head(todo).index])
    /\ handed' = Head(todo).index
    /\ num_entries' = num_entries + 1
    /\ IF num_entries + 1 >= SnapshotThreshold
       THEN step' = "ask" /\ UNCHANGED todo
       ELSE NextAction
    /\ UNCHANGED <<handlers, proposals, reads, reply, drain, pending_proposals,
                   pending_reads, snapshot, alive, raft, app, installed, acked>>

AskSnapshot ==
    /\ At("Apply", "ask")
    /\ ToApplication([type |-> "SnapshotRequest"])
    /\ step' = "await"
    /\ UNCHANGED <<handlers, proposals, reads, reply, todo, drain, pending_proposals,
                   pending_reads, num_entries, snapshot, alive, raft, app, installed,
                   handed, acked>>

\* The map is read at once, without a round through the channel.
Mutant_TakeSnapshot ==
    /\ At("Apply", "await")
    /\ snapshot' = [data |-> store, upto |-> handed]
    /\ reply' = None /\ num_entries' = 0
    /\ NextAction
    /\ UNCHANGED <<handlers, proposals, reads, applied, drain, pending_proposals,
                   pending_reads, alive, raft, app, installed, handed, acked>>

\* The counter is not reset.
Mutant_TakeSnapshot_count ==
    /\ At("Apply", "await") /\ reply # None
    /\ snapshot' = [data |-> reply, upto |-> handed]
    /\ reply' = None
    /\ NextAction
    /\ UNCHANGED <<handlers, proposals, reads, applied, drain, pending_proposals,
                   pending_reads, num_entries, alive, raft, app, installed, handed,
                   acked>>

\* The application's answer becomes the snapshot.
TakeSnapshot ==
    /\ At("Apply", "await") /\ reply # None
    /\ snapshot' = [data |-> reply, upto |-> handed]
    /\ reply' = None /\ num_entries' = 0
    /\ NextAction
    /\ UNCHANGED <<handlers, proposals, reads, applied, drain, pending_proposals,
                   pending_reads, alive, raft, app, installed, handed, acked>>

\* A snapshot of another leader is stored, then given to the application.
InstallSnapshot ==
    LET index == Head(todo).index
        data == Head(todo).data
    IN  /\ At("Install", "start")
        /\ ToApplication([type |-> "Snapshot", data |-> data, index |-> index])
        /\ snapshot' = [data |-> data, upto |-> index]
        /\ handed' = index
        /\ installed' = [data |-> data, index |-> index]
        /\ NextAction
        /\ UNCHANGED <<handlers, proposals, reads, reply, drain, pending_proposals,
                       pending_reads, num_entries, alive, raft, app, acked>>

ReadBarrierReady ==
    LET c == Head(todo).client
    IN  /\ At("Ready", "start")
        /\ pending_reads' = pending_reads \ {c}
        /\ answer' = [answer EXCEPT ![c] = Ok]
        /\ NextAction
        /\ UNCHANGED <<request, stage, response, floor, channels, drain,
                       pending_proposals, num_entries, snapshot, alive, raft, app,
                       installed, handed, acked>>

\* What waits is told that this node is a follower.
Mutant_Drain ==
    /\ alive /\ todo = << >> /\ drain
    /\ drain' = FALSE
    /\ answer' = [c \in Client |->
                    IF c \in pending_reads \/ \E p \in pending_proposals : p.client = c
                    THEN FollowerNode ELSE answer[c]]
    /\ pending_proposals' = {} /\ pending_reads' = {}
    /\ UNCHANGED <<request, stage, response, floor, channels, todo, step, num_entries,
                   snapshot, alive, raft, app, installed, handed, acked>>

\* Only the proposals are answered.
Mutant_Drain_reads ==
    /\ alive /\ todo = << >> /\ drain
    /\ drain' = FALSE
    /\ answer' = [c \in Client |->
                    IF \E p \in pending_proposals : p.client = c
                    THEN LostLeadership ELSE answer[c]]
    /\ pending_proposals' = {}
    /\ UNCHANGED <<request, stage, response, floor, channels, todo, step, pending_reads,
                   num_entries, snapshot, alive, raft, app, installed, handed, acked>>

\* Leadership was lost: whatever waits is answered.
Drain ==
    /\ alive /\ todo = << >> /\ drain
    /\ drain' = FALSE
    /\ answer' = [c \in Client |->
                    IF c \in pending_reads \/ \E p \in pending_proposals : p.client = c
                    THEN LostLeadership ELSE answer[c]]
    /\ pending_proposals' = {} /\ pending_reads' = {}
    /\ UNCHANGED <<request, stage, response, floor, channels, todo, step, num_entries,
                   snapshot, alive, raft, app, installed, handed, acked>>

\* Storage fails and the task panics: all it owns is dropped, the core and
\* the sending halves of the oneshots included.  The process goes on.
EventLoopPanics ==
    /\ Idle \/ At("Apply", "await") \/ At("Install", "start")
    /\ alive' = FALSE
    /\ proposals' = << >> /\ reads' = << >> /\ reply' = None
    /\ todo' = << >> /\ step' = "start" /\ drain' = FALSE
    /\ pending_proposals' = {} /\ pending_reads' = {} /\ num_entries' = 0
    /\ role' = "Follower" /\ current_leader' = None /\ log' = << >> /\ deposed' = FALSE
    /\ UNCHANGED <<handlers, applied, snapshot, last_applied, chosen, terms, app,
                   installed, handed, acked>>

-----------------------------------------------------------------------------
(***************************************************************************)
(* The apply task.                                                         *)
(***************************************************************************)
Replay(map, item) ==
    CASE item.type = "Command" -> Effect(map, item.command)
      [] item.type = "Snapshot" -> item.data
      [] item.type = "SnapshotRequest" -> map

ApplyNext ==
    LET item == Head(applied)
    IN  /\ applied # << >>
        /\ applied' = Tail(applied)
        /\ store' = Replay(store, item)
        /\ stored' = IF item.type = "SnapshotRequest" THEN stored ELSE item.index
        /\ reply' = IF item.type = "SnapshotRequest" /\ alive THEN store ELSE reply
        /\ UNCHANGED <<handlers, proposals, reads, loop, raft, installed, handed,
                       acked>>

-----------------------------------------------------------------------------
Init ==
    /\ request = [c \in Client |-> None] /\ stage = [c \in Client |-> "new"]
    /\ answer = [c \in Client |-> None] /\ response = [c \in Client |-> None]
    /\ floor = [c \in Client |-> 0]
    /\ proposals = << >> /\ reads = << >> /\ applied = << >> /\ reply = None
    /\ todo = << >> /\ step = "start" /\ drain = FALSE
    /\ pending_proposals = {} /\ pending_reads = {} /\ num_entries = 0
    /\ snapshot = None /\ alive = TRUE
    /\ role = "Follower" /\ current_leader = None /\ log = << >> /\ last_applied = 0
    /\ chosen = << >> /\ deposed = FALSE /\ terms = 0
    /\ store = Empty /\ stored = 0 /\ handed = 0 /\ acked = 0
    /\ installed = [data |-> Empty, index |-> 0]
    /\ Valid(node_id)

HandleAction ==
    \/ ApplyAnswer \/ ApplySend \/ AskSnapshot \/ TakeSnapshot
    \/ InstallSnapshot \/ ReadBarrierReady \/ Drain

FromRaft ==
    \/ \E k \in last_applied .. Len(log), R \in SUBSET pending_reads : Advance(k, R)
    \/ \E leader \in Nodes, n \in 0 .. Len(chosen) :
          \E k \in last_applied .. n : Follow(leader, n, k)
    \/ \E leader \in Nodes, k \in 1 .. Len(chosen) :
          \E data \in Snapshots(k) : Install(leader, k, data)
    \/ Elected
    \/ \E leader \in Nodes \cup {None} : StepDown(leader)
    \/ \E entry \in Foreign \cup {log[i] : i \in 1 .. Len(log)} : ChosenElsewhere(entry)

Next ==
    \/ \E c \in Client : (\E r \in Request : Submit(c, r)) \/ Answered(c) \/ ReadStore(c)
    \/ TakeProposal \/ TakeRead
    \/ HandleAction \/ FromRaft
    \/ EventLoopPanics \/ ApplyNext

(***************************************************************************)
(* tokio runs every task that can run, and select! picks at random among   *)
(* the branches that are ready, so that one that is ready again and again  *)
(* is taken.  Raft's part is the assumption that a majority is up and in   *)
(* touch: a leader gets its log chosen, or hears that it was replaced.     *)
(***************************************************************************)
Fairness ==
    /\ \A c \in Client : WF_vars(Answered(c) \/ ReadStore(c))
    /\ SF_vars(TakeProposal) /\ SF_vars(TakeRead)
    /\ WF_vars(HandleAction) /\ WF_vars(ApplyNext)
    /\ SF_vars(Advance(Len(log), pending_reads))
    /\ SF_vars(deposed /\ \E leader \in Nodes \cup {None} : StepDown(leader))

Spec == Init /\ [][Next]_vars /\ Fairness

-----------------------------------------------------------------------------
Map == [Key -> Value \cup {None}]

\* Type invariant of the process; in particular the three channels never
\* hold more than CHANNEL_BUFFER items, and what is left of one input is at
\* most the log and the reads that wait.
TypeOK ==
    /\ request \in [Client -> Request \cup {None}]
    /\ stage \in [Client -> {"new", "waiting", "reading", "done"}]
    /\ \A q \in {proposals, reads} : q \in Seq(Client) /\ Len(q) <= CHANNEL_BUFFER
    /\ Len(applied) <= CHANNEL_BUFFER
    /\ reply \in Map \cup {None} /\ store \in Map
    /\ Len(todo) <= Len(log) + Cardinality(Client)
    /\ step \in {"start", "send", "ask", "await"} /\ (todo = << >> => step = "start")
    /\ num_entries \in 0 .. SnapshotThreshold
    /\ pending_proposals \subseteq [index : 1 .. Len(log), client : Client]
    /\ pending_reads \subseteq Client
    /\ role \in {"Follower", "Leader"} /\ current_leader \in Nodes \cup {None}
    /\ stored <= handed /\ handed <= last_applied /\ last_applied <= Len(chosen)

\* The map, once the apply task has worked off its channel, is what the last
\* snapshot of another leader held, and every entry of the log from its index
\* to the last that the event loop has handed over: nothing is skipped,
\* repeated or reordered between them, however full the channel is.  Whether
\* the snapshot held all up to its index is up to its sender (Snapshots).
NothingSkipped == FoldLeft(Replay, store, applied) = Since(installed, handed)

\* "once we await the receiver, no other entries could be applied": the data
\* of a snapshot is the state after exactly the entries handed over before it
\* was asked for, from the last snapshot of another leader on.
SnapshotHoldsHanded == snapshot # None => snapshot.data = Since(installed, snapshot.upto)

\* The apply task goes through the chosen log in its order: each command it
\* carries out is that of the chosen log at its index, with nothing but Noops
\* since the last, and a snapshot replaces the map only at a later index than
\* all that the map holds.  (A snapshot with less in it than its index says
\* still takes the map back.)
MapFollowsLog ==
    [][/\ stored' > stored
       /\ Head(applied).type = "Command" =>
             /\ store' = Effect(store, chosen[stored'].command)
             /\ \A i \in stored + 1 .. stored' - 1 : chosen[i] = Noop]_<<store, stored>>

\* A read is released only when every command that this process acknowledged
\* before the read was made has at least been handed to the apply task.  Of
\* what other leaders have acknowledged it says nothing (see StaleRead).
ReadsAfterHandover ==
    \A c \in Client :
        answer[c] = Ok /\ request[c].op = "Get" => floor[c] <= handed

\* 200 for a set or delete means that it is in the chosen log; the answer
\* that sends the client elsewhere means that it is not and never will be, so
\* that trying again does not apply it twice.
AnswersAreTrue ==
    \A c \in Client :
        LET InLog(l) == \E i \in 1 .. Len(l) : l[i].client = c
        IN  answer[c] # None =>
               /\ answer[c].ok /\ request[c].op # "Get" => InLog(chosen)
               /\ ~answer[c].ok /\ answer[c].error = "FollowerNode" =>
                     ~InLog(chosen) /\ ~InLog(log)

\* A client is redirected to the pod whose own id, derived from its hostname,
\* is that of the leader, and never back to this one.
RedirectsToLeader ==
    \A c \in Client :
        stage[c] = "done" /\ response[c].status = "307" =>
            /\ id_from_hostname(response[c].location) = answer[c].leader
            /\ response[c].location # Pod

\* Every request is answered: across changes of leader, full channels and
\* snapshots, and also when the event loop has panicked.
EveryRequestAnswered ==
    \A c \in Client : stage[c] = "waiting" ~> stage[c] = "done"

-----------------------------------------------------------------------------
(***************************************************************************)
(* What the documentation says and the code does not do.                   *)
(***************************************************************************)
\* A read request "gives linearizable reads": a get that was made after a
\* command had been acknowledged finds that command in the map.  The command
\* is acknowledged, and the read released, with the command still in the
\* apply channel.
ReadsSeeWrites ==
    [][\A c \in Client : stage[c] = "reading" /\ stage'[c] = "done" => floor[c] <= stored]_vars

=============================================================================
