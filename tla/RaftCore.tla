------------------------------ MODULE RaftCore ------------------------------
(***************************************************************************)
(* The sans-I/O consensus core, crates/raftcore/src/lib.rs: struct         *)
(* RaftCore and its methods, as operators on a record.  As in the code, an *)
(* input method takes the state of one node and an input and returns the   *)
(* new state and the actions the event loop has to perform; the state      *)
(* machine that owns the records is in module Cluster.                     *)
(*                                                                         *)
(* An operator with the name of a method models that method.  An input     *)
(* method returns [core, acts, panic]; `acts' groups the Vec<Action> by    *)
(* kind.  Every method pushes the kinds in one and the same order, the     *)
(* order of the fields below, so grouping them loses nothing:              *)
(*   meta    PersistMetadata, in order (at most two)                       *)
(*   log     PersistLogEntries (at most one)                               *)
(*   install InstallSnapshot (at most one)                                 *)
(*   apply   ApplyToStateMachine, in order                                 *)
(*   ready   ReadBarrierReady ids                                          *)
(*   send    SendMessage, and SendInstallSnapshot as an InstallSnapshot    *)
(*           message whose data the event loop still has to read           *)
(* The result's `panic' says that the method does not return: an unwrap of *)
(* None, a slice out of range or, in a debug build, unsigned underflow.    *)
(*                                                                         *)
(* Left out: the tick counters (any node may time out at any moment, see   *)
(* module Cluster), and the response field first_conflicting_term, which   *)
(* no code reads.                                                          *)
(***************************************************************************)
EXTENDS Integers, Sequences, FiniteSets, FiniteSetsExt

CONSTANTS
    Node,       \* the node ids of the cluster
    Command,    \* the commands clients propose
    Noop,       \* the empty command a new leader appends
    None        \* Option::None

ASSUME CoreAssumption ==
    /\ IsFiniteSet(Node)
    /\ None \notin Node
    /\ None \notin Nat
    /\ Noop \notin Command

Follower  == "Follower"
Candidate == "Candidate"
Leader    == "Leader"

Entry == [term : Nat, command : Command \cup {Noop}]

Peers(n) == Node \ {n}

\* std::cmp::min
min(a, b) == IF a < b THEN a ELSE b

(***************************************************************************)
(* RaftCore::new, restore and restore_with_snapshot.  next_index and       *)
(* match_index are HashMaps: None is an absent key.  A read barrier maps   *)
(* its id to append_entries_count at its creation; only the difference to  *)
(* the current count is ever used, so the record keeps the successes       *)
(* counted since then.                                                     *)
(***************************************************************************)
new ==
    [ state |-> Follower, current_term |-> 0, voted_for |-> None, log |-> << >>,
      commit_index |-> 0, last_applied |-> 0, current_leader |-> None,
      next_index |-> [p \in Node |-> None], match_index |-> [p \in Node |-> None],
      votes_received |-> {}, last_included_index |-> 0, last_included_term |-> 0,
      next_read_barrier_id |-> 0, read_barriers |-> {} ]

restore(term, vote, entries) ==
    [new EXCEPT !.current_term = term, !.voted_for = vote, !.log = entries]

restore_with_snapshot(term, vote, entries, index, snapshot_term) ==
    [restore(term, vote, entries) EXCEPT
        !.last_included_index = index, !.last_included_term = snapshot_term,
        !.commit_index = index, !.last_applied = index]

-----------------------------------------------------------------------------
(***************************************************************************)
(* The log, addressed by logical index: indices up to last_included_index  *)
(* are in the snapshot, the others in the vector.                          *)
(***************************************************************************)
last_log_index(c) == c.last_included_index + Len(c.log)

log_entry_at(c, i) ==
    IF i <= c.last_included_index \/ i > last_log_index(c)
    THEN None
    ELSE c.log[i - c.last_included_index]

log_term_at(c, i) ==
    IF i < c.last_included_index \/ i > last_log_index(c) THEN None
    ELSE IF i = c.last_included_index THEN c.last_included_term
    ELSE log_entry_at(c, i).term

last_log_term(c) == log_term_at(c, last_log_index(c))

\* log_term_at(i).unwrap_or(0)
term_or_zero(c, i) == IF log_term_at(c, i) = None THEN 0 ELSE log_term_at(c, i)

\* The entries from..to-1, as far as the vector has them.
log_slice(c, from, to) ==
    IF from <= c.last_included_index
    THEN << >>
    ELSE SubSeq(c.log, from - c.last_included_index,
                min(to - c.last_included_index - 1, Len(c.log)))

\* The range of log_slice starts beyond its end, and slicing the vector panics.
slice_panics(c, from, to) ==
    /\ from > c.last_included_index
    /\ from > min(to, last_log_index(c) + 1)

-----------------------------------------------------------------------------
(***************************************************************************)
(* What an input method returns: enum Action, grouped by kind.             *)
(***************************************************************************)
NoActions ==
    [ meta |-> << >>, log |-> None, install |-> None, apply |-> << >>,
      ready |-> {}, send |-> {} ]

Returns(c, acts) == [core |-> c, acts |-> acts, panic |-> FALSE]

\* The same, when the method panics under the condition `bad'.
ReturnsUnless(bad, c, acts) == [Returns(c, acts) EXCEPT !.panic = bad]

\* ApplyToStateMachine for the entries, the first of which has index `from'.
ApplyActions(from, entries) ==
    [k \in 1 .. Len(entries) |->
        [index |-> from + k - 1, command |-> entries[k].command]]

-----------------------------------------------------------------------------
(***************************************************************************)
(* What a leader sends to one peer.  A peer without an entry in next_index *)
(* counts as up to date but for the last entry.  When the term before the  *)
(* next entry is not known any more, the peer gets the snapshot.           *)
(***************************************************************************)
install_snapshot_for_peer(n, c, peer) ==
    [ type |-> "InstallSnapshot", from |-> n, to |-> peer, term |-> c.current_term,
      last_included_index |-> c.last_included_index,
      last_included_term |-> c.last_included_term, data |-> None ]

build_append_entries_for_peer(n, c, peer) ==
    LET next == IF c.next_index[peer] = None THEN last_log_index(c) ELSE c.next_index[peer]
        prev == IF next > 0 THEN next - 1 ELSE 0
    IN  IF log_term_at(c, prev) = None
        THEN install_snapshot_for_peer(n, c, peer)
        ELSE [ type |-> "AppendEntries", from |-> n, to |-> peer, term |-> c.current_term,
               prev_log_index |-> prev, prev_log_term |-> log_term_at(c, prev),
               entries |-> log_slice(c, next, last_log_index(c) + 1),
               leader_commit |-> c.commit_index ]

append_entries(n, c) == {build_append_entries_for_peer(n, c, p) : p \in Peers(n)}

\* Appends one entry of the current term; its PersistLogEntries action.
Push(c, command) ==
    [c EXCEPT !.log = Append(@, [term |-> c.current_term, command |-> command])]

PersistLast(c) ==
    [ start_index |-> last_log_index(c),
      entries |-> log_slice(c, last_log_index(c), last_log_index(c) + 1) ]

(***************************************************************************)
(* The inputs from the application.  Only a leader accepts them: callers   *)
(* check is_leader, where the code returns None.                           *)
(***************************************************************************)
is_leader(c) == c.state = Leader

propose(n, c, command) ==
    LET pushed == Push(c, command)
    IN  Returns(pushed, [NoActions EXCEPT !.log = PersistLast(pushed),
                                          !.send = append_entries(n, pushed)])

request_read_barrier(c) ==
    [c EXCEPT !.next_read_barrier_id = @ + 1,
              !.read_barriers = @ \cup {[id |-> c.next_read_barrier_id + 1, count |-> 0]}]

(***************************************************************************)
(* The two timers of tick, at the moment they run out.                     *)
(***************************************************************************)
heartbeat(n, c) == Returns(c, [NoActions EXCEPT !.send = append_entries(n, c)])

election_timeout(n, c) ==
    LET elect == [c EXCEPT !.current_term = @ + 1, !.state = Candidate,
                           !.current_leader = None, !.votes_received = {n},
                           !.voted_for = n]
        request(p) ==
            [ type |-> "RequestVote", from |-> n, to |-> p, term |-> elect.current_term,
              last_log_index |-> last_log_index(c), last_log_term |-> last_log_term(c) ]
    IN  Returns(elect,
            [NoActions EXCEPT
                !.meta = <<[term |-> elect.current_term, voted_for |-> n]>>,
                !.send = {request(p) : p \in Peers(n)}])

-----------------------------------------------------------------------------
(***************************************************************************)
(* Every handler first steps down on a higher term.  next_index,           *)
(* match_index and votes_received keep what they held.                     *)
(*                                                                         *)
(* The operators named Mutant_... here and below are faulty variants of    *)
(* the operator that follows them; only the mutation tests use them.       *)
(***************************************************************************)
\* Forgets the vote on any message of the current term.
Mutant_check_msg_term_same(c, term) ==
    IF term >= c.current_term
    THEN [c EXCEPT !.current_term = term, !.voted_for = None]
    ELSE c

\* Keeps the read barriers of the lost leadership.
Mutant_check_msg_term_reads(c, term) ==
    IF term > c.current_term
    THEN [c EXCEPT !.current_term = term, !.state = Follower, !.voted_for = None]
    ELSE c

\* Takes commit_index for leader state and resets it.
Mutant_check_msg_term_commit(c, term) ==
    IF term > c.current_term
    THEN [c EXCEPT !.current_term = term, !.state = Follower, !.voted_for = None,
                   !.commit_index = 0, !.last_applied = 0]
    ELSE c

check_msg_term(c, term) ==
    IF term > c.current_term
    THEN [c EXCEPT !.current_term = term, !.state = Follower, !.voted_for = None,
                   !.read_barriers = {}, !.current_leader = None]
    ELSE c

\* The PersistMetadata action check_msg_term returns.
StepDownMeta(c, term) ==
    IF term > c.current_term THEN <<[term |-> term, voted_for |-> None]>> ELSE << >>

\* Does not look at an earlier vote.
Mutant_can_vote(c, candidate) == TRUE

can_vote(c, candidate) == c.voted_for \in {None, candidate}

\* Compares the last terms only.
Mutant_log_check(c, m) == m.last_log_term >= last_log_term(c)

log_check(c, m) ==
    \/ m.last_log_term > last_log_term(c)
    \/ /\ m.last_log_term = last_log_term(c)
       /\ m.last_log_index >= last_log_index(c)

handle_request_vote(n, c0, m) ==
    LET c == check_msg_term(c0, m.term)
        grant == m.term >= c.current_term /\ can_vote(c, m.from) /\ log_check(c, m)
        response == [ type |-> "RequestVoteResponse", from |-> n, to |-> m.from,
                      term |-> c.current_term, vote_granted |-> grant ]
        vote == IF grant THEN <<[term |-> c.current_term, voted_for |-> m.from]>> ELSE << >>
    IN  Returns(IF grant THEN [c EXCEPT !.voted_for = m.from] ELSE c,
                [NoActions EXCEPT !.meta = StepDownMeta(c0, m.term) \o vote,
                                  !.send = {response}])

\* Starts the peers one entry too far.
Mutant_initialize_leader_state(n, c) ==
    LET pushed == Push(c, Noop)
        last == last_log_index(pushed)
    IN  [pushed EXCEPT !.next_index  = [p \in Node |-> last + 2],
                       !.match_index = [p \in Node |-> IF p = n THEN @[p] ELSE 0]]

initialize_leader_state(n, c) ==
    LET pushed == Push(c, Noop)
        last == last_log_index(pushed)
    IN  [pushed EXCEPT
            !.next_index  = [p \in Node |-> IF p = n THEN @[p] ELSE last + 1],
            !.match_index = [p \in Node |-> IF p = n THEN @[p] ELSE 0]]

\* The vote is counted whatever election it was given for: the only test is
\* that the node is a candidate now.
handle_request_vote_response(n, c0, m) ==
    LET c == check_msg_term(c0, m.term)
        counted == [c EXCEPT !.votes_received = @ \cup {m.from}]
        won == 2 * Cardinality(counted.votes_received) > Cardinality(Node)
        elected == initialize_leader_state(n,
                       [counted EXCEPT !.state = Leader, !.current_leader = n])
        acts == [NoActions EXCEPT !.meta = StepDownMeta(c0, m.term)]
    IN  IF c.state # Candidate \/ ~m.vote_granted THEN Returns(c, acts)
        ELSE IF ~won THEN Returns(counted, acts)
        ELSE Returns(elected, [acts EXCEPT !.log = PersistLast(elected),
                                           !.send = append_entries(n, elected)])

-----------------------------------------------------------------------------
(***************************************************************************)
(* handle_append_entries.  The loop that overwrites the log one entry at a *)
(* time stops skipping at the first entry the log does not hold with the   *)
(* same term; from there on it drops the old tail and pushes.              *)
(***************************************************************************)
\* Skips entries the log has at the same index, whatever their term.
Mutant_Overwrite(c, prev, entries) ==
    LET missing == {k \in 1 .. Len(entries) : prev + k > last_log_index(c)}
    IN  IF missing = {} THEN c
        ELSE [c EXCEPT !.log = @ \o SubSeq(entries, Min(missing), Len(entries))]

Overwrite(c, prev, entries) ==
    LET differs == {k \in 1 .. Len(entries) :
                        log_term_at(c, prev + k) # entries[k].term}
        first == Min(differs)
    IN  IF differs = {}
        THEN c
        ELSE [c EXCEPT !.log = SubSeq(@, 1, prev + first - 1 - c.last_included_index)
                               \o SubSeq(entries, first, Len(entries))]

\* prev_log_index = 0 passes the consistency check at a node whose log starts
\* later: the unwrap of log_term_at, or the subtraction in truncate, fails.
OverwritePanics(c, prev, entries) ==
    /\ entries # << >>
    /\ \/ prev + 1 < c.last_included_index
       \/ /\ prev + 1 = c.last_included_index
          /\ entries[1].term # c.last_included_term

\* Where the leader shall resume: behind the log, or at the start of the run
\* of entries that share the conflicting term.
first_conflicting_index(c, prev) ==
    LET others == {i \in 0 .. prev - 1 : term_or_zero(c, i) # term_or_zero(c, prev)}
    IN  IF prev > last_log_index(c) THEN last_log_index(c) + 1
        ELSE IF others = {} THEN None
        ELSE Max(others) + 1

\* Accepts entries wherever the log is long enough.
Mutant_valid(c, m) == m.prev_log_index <= last_log_index(c)

\* The consistency check on the entry before the new ones.
valid(c, m) ==
    \/ m.prev_log_index = 0
    \/ /\ m.prev_log_index <= last_log_index(c)
       /\ log_term_at(c, m.prev_log_index) = m.prev_log_term

handle_append_entries(n, c0, m) ==
    LET c1 == check_msg_term(c0, m.term)
        c2 == IF m.term = c1.current_term /\ c1.state = Candidate
              THEN [c1 EXCEPT !.state = Follower] ELSE c1
        refused == c2.state # Follower \/ m.term < c2.current_term
        c3 == [c2 EXCEPT !.current_leader = m.from]
        c4 == Overwrite(c3, m.prev_log_index, m.entries)
        start == m.prev_log_index + 1
        persist == IF m.entries = << >> THEN None
                   ELSE [ start_index |-> start,
                          entries |-> log_slice(c4, start, last_log_index(c4) + 1) ]
        advance == m.leader_commit > c4.commit_index
        commit == IF advance THEN min(m.leader_commit, last_log_index(c4))
                  ELSE c4.commit_index
        c5 == IF advance THEN [c4 EXCEPT !.commit_index = commit, !.last_applied = commit]
              ELSE c4
        respond(c, success, conflict) ==
            [ type |-> "AppendEntriesResponse", from |-> n, to |-> m.from,
              term |-> c1.current_term, success |-> success,
              match_index |-> last_log_index(c), first_conflicting_index |-> conflict ]
        acts == [NoActions EXCEPT !.meta = StepDownMeta(c0, m.term)]
    IN  IF refused
        THEN Returns(c2, [acts EXCEPT !.send = {respond(c2, FALSE, None)}])
        ELSE IF ~valid(c3, m)
        THEN Returns(c3, [acts EXCEPT !.send =
                {respond(c3, FALSE, first_conflicting_index(c3, m.prev_log_index))}])
        ELSE ReturnsUnless(
                \/ OverwritePanics(c3, m.prev_log_index, m.entries)
                \/ commit < c4.commit_index,
                c5,
                [acts EXCEPT
                    !.log = persist,
                    !.apply = ApplyActions(c4.commit_index + 1,
                                log_slice(c4, c4.commit_index + 1, commit + 1)),
                    !.send = {respond(c5, TRUE, None)}])

-----------------------------------------------------------------------------
(***************************************************************************)
(* handle_append_entries_response.  The element at position len / 2 of the *)
(* sorted match indices (the node's own last index among them) is the      *)
(* largest value that at least len - len / 2 of them reach.                *)
(***************************************************************************)
\* Takes the next position: one replica fewer is enough.
Mutant_replicated_index(c) ==
    Max({last_log_index(c)} \cup {c.match_index[p] : p \in {q \in Node : c.match_index[q] # None}})

replicated_index(c) ==
    LET tracked == {p \in Node : c.match_index[p] # None}
        last == last_log_index(c)
        len == Cardinality(tracked) + 1
        reached(v) == Cardinality({p \in tracked : c.match_index[p] >= v})
                      + (IF last >= v THEN 1 ELSE 0)
    IN  Max({v \in {c.match_index[p] : p \in tracked} \cup {last} :
                reached(v) >= len - len \div 2})

\* The highest replicated index that holds an entry of the current term.
\* (An index beyond the log makes the caller panic.)
new_commit(c, replicated) ==
    LET current == {i \in c.commit_index + 1 .. last_log_index(c) :
                        i <= replicated /\ log_term_at(c, i) = c.current_term}
    IN  IF current = {} THEN c.commit_index ELSE Max(current)

\* Neither the role nor the term of the response is looked at again once
\* check_msg_term has run.
handle_append_entries_response(n, c0, m) ==
    LET c1 == check_msg_term(c0, m.term)
        retry == IF m.first_conflicting_index = None THEN 0 ELSE m.first_conflicting_index
        back == IF c1.next_index[m.from] = None THEN c1
                ELSE [c1 EXCEPT !.next_index[m.from] = retry]
        c2 == [c1 EXCEPT !.match_index[m.from] = m.match_index,
                         !.next_index[m.from] = m.match_index + 1,
                         !.read_barriers = {[b EXCEPT !.count = @ + 1] : b \in @}]
        replicated == replicated_index(c2)
        commit == new_commit(c2, replicated)
        done == {b \in c2.read_barriers : b.count >= Cardinality(Node) \div 2}
        c3 == [c2 EXCEPT !.commit_index = commit, !.last_applied = commit,
                         !.read_barriers = @ \ done]
        acts == [NoActions EXCEPT !.meta = StepDownMeta(c0, m.term)]
    IN  IF ~m.success
        THEN Returns(back, [acts EXCEPT !.send =
                               {build_append_entries_for_peer(n, back, m.from)}])
        ELSE ReturnsUnless(
                \/ \E i \in c2.commit_index + 1 .. replicated : log_term_at(c2, i) = None
                \/ slice_panics(c2, c2.last_applied + 1, commit + 1),
                c3,
                [acts EXCEPT
                    !.apply = ApplyActions(c2.last_applied + 1,
                                log_slice(c2, c2.last_applied + 1, commit + 1)),
                    !.ready = {b.id : b \in done}])

-----------------------------------------------------------------------------
(***************************************************************************)
(* Snapshots.  prepare_snapshot's SnapshotMetadata is last_applied and the *)
(* term there; complete_snapshot drops the log up to it.                   *)
(***************************************************************************)
prepare_snapshot(c) ==
    [last_applied |-> c.last_applied, last_applied_term |-> log_term_at(c, c.last_applied)]

complete_snapshot(c, metadata) ==
    IF metadata.last_applied <= c.last_included_index
    THEN c
    ELSE [c EXCEPT
            !.log = SubSeq(@, metadata.last_applied - c.last_included_index + 1, Len(@)),
            !.last_included_index = metadata.last_applied,
            !.last_included_term = metadata.last_applied_term]

\* A snapshot the node already covers, or whose last entry its log holds, is
\* only acknowledged; any other one replaces the whole log.
handle_install_snapshot(n, c0, m) ==
    LET c1 == check_msg_term(c0, m.term)
        c2 == [c1 EXCEPT
                 !.state = IF m.term = c1.current_term /\ @ = Candidate THEN Follower ELSE @,
                 !.current_leader = m.from]
        index == m.last_included_index
        covered == index <= c2.last_included_index
        held == log_term_at(c2, index) = m.last_included_term
        c3 == [c2 EXCEPT !.log = << >>, !.last_included_index = index,
                         !.last_included_term = m.last_included_term,
                         !.last_applied = index, !.commit_index = index]
        respond(i) == {[ type |-> "InstallSnapshotResponse", from |-> n, to |-> m.from,
                         term |-> c1.current_term, last_included_index |-> i ]}
        acts == [NoActions EXCEPT !.meta = StepDownMeta(c0, m.term)]
    IN  IF m.term < c1.current_term
        THEN Returns(c1, [acts EXCEPT !.send = respond(c1.last_included_index)])
        ELSE IF covered
        THEN Returns(c2, [acts EXCEPT !.send = respond(c2.last_included_index)])
        ELSE IF held
        THEN Returns(c2, [acts EXCEPT !.send = respond(index)])
        ELSE Returns(c3, [acts EXCEPT
                !.install = [ last_included_index |-> index,
                              last_included_term |-> m.last_included_term,
                              data |-> m.data ],
                !.send = respond(index)])

handle_install_snapshot_response(n, c0, m) ==
    LET c1 == check_msg_term(c0, m.term)
        c2 == [c1 EXCEPT !.next_index[m.from] = m.last_included_index + 1,
                         !.match_index[m.from] = m.last_included_index]
    IN  Returns(IF c1.state = Leader THEN c2 ELSE c1,
                [NoActions EXCEPT !.meta = StepDownMeta(c0, m.term)])

-----------------------------------------------------------------------------
(***************************************************************************)
(* Types: struct RaftCore, its persisted metadata and enum Message.  The   *)
(* data of a snapshot is opaque.                                           *)
(***************************************************************************)
Option(S) == S \cup {None}

Core ==
    [ state : {Follower, Candidate, Leader}, current_term : Nat,
      voted_for : Option(Node), log : Seq(Entry),
      commit_index : Nat, last_applied : Nat, current_leader : Option(Node),
      next_index : [Node -> Option(Nat)], match_index : [Node -> Option(Nat)],
      votes_received : SUBSET Node,
      last_included_index : Nat, last_included_term : Nat,
      next_read_barrier_id : Nat, read_barriers : SUBSET [id : Nat, count : Nat] ]

Metadata == [term : Nat, voted_for : Option(Node)]

MessageOK(m) ==
    /\ m.from \in Node /\ m.to \in Node /\ m.term \in Nat
    /\ m.type = "RequestVote" =>
          m.last_log_index \in Nat /\ m.last_log_term \in Nat
    /\ m.type = "RequestVoteResponse" => m.vote_granted \in BOOLEAN
    /\ m.type = "AppendEntries" =>
          /\ m.prev_log_index \in Nat /\ m.prev_log_term \in Nat
          /\ m.entries \in Seq(Entry) /\ m.leader_commit \in Nat
    /\ m.type = "AppendEntriesResponse" =>
          /\ m.success \in BOOLEAN /\ m.match_index \in Nat
          /\ m.first_conflicting_index \in Option(Nat)
    /\ m.type \in {"InstallSnapshot", "InstallSnapshotResponse"} =>
          m.last_included_index \in Nat
    /\ m.type = "InstallSnapshot" => m.last_included_term \in Nat

=============================================================================
