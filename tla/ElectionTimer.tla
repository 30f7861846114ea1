--------------------------- MODULE ElectionTimer ----------------------------
(***************************************************************************)
(* The timers of crates/raftcore, which module Cluster leaves out: does a  *)
(* leader emerge, and does it stay?                                        *)
(*                                                                         *)
(* Time passes in rounds.  In a round the interval of every node's event   *)
(* loop ticks once, in any order, and every message that is sent arrives,  *)
(* also in any order: messages are fast against tick_length.  Only what    *)
(* elections depend on is kept of a core.  A crashed node stays away.      *)
(*                                                                         *)
(* rng.random_range is a die that every node rolls once per round, whether *)
(* it resets its timer in that round or not.                               *)
(***************************************************************************)
EXTENDS Naturals, FiniteSets

CONSTANTS
    Node,
    Stale,      \* nodes whose log is behind the logs of all others
    heartbeat_interval,
    election_timeout_range,
    MaxCrashes, \* bound on nodes that fail
    None

\* A follower may tick once more than the leader between two heartbeats.
ASSUME TimerAssumption ==
    /\ IsFiniteSet(Node) /\ Stale \subseteq Node /\ None \notin Node
    /\ heartbeat_interval \in Nat \ {0} /\ MaxCrashes \in Nat
    /\ \A t \in election_timeout_range : t \in Nat /\ t > heartbeat_interval + 1

VARIABLES
    up,         \* nodes that have not crashed
    state, current_term, voted_for, votes_received,
    ticks_since_last_heartbeat,
    election_timeout,
    net,        \* messages sent in this round
    ticked,     \* nodes that have ticked in this round
    dice        \* [Node -> what its next reset_election_timeout draws]

core == <<state, current_term, voted_for, votes_received,
          ticks_since_last_heartbeat, election_timeout>>
vars == <<up, core, net, ticked, dice>>

Dice == [Node -> election_timeout_range]

Init ==
    /\ up = Node
    /\ state = [n \in Node |-> "Follower"] /\ current_term = [n \in Node |-> 0]
    /\ voted_for = [n \in Node |-> None] /\ votes_received = [n \in Node |-> {}]
    /\ ticks_since_last_heartbeat = [n \in Node |-> 0]
    /\ dice \in Dice /\ election_timeout = dice
    /\ net = {} /\ ticked = {}

-----------------------------------------------------------------------------
(***************************************************************************)
(* The timer.                                                              *)
(***************************************************************************)
\* The clock is reset, the timeout stays.
Mutant_reset_election_timeout(n) ==
    /\ ticks_since_last_heartbeat' = [ticks_since_last_heartbeat EXCEPT ![n] = 0]
    /\ UNCHANGED election_timeout

reset_election_timeout(n) ==
    /\ ticks_since_last_heartbeat' = [ticks_since_last_heartbeat EXCEPT ![n] = 0]
    /\ election_timeout' = [election_timeout EXCEPT ![n] = dice[n]]

KeepTimer == UNCHANGED <<ticks_since_last_heartbeat, election_timeout>>

\* What n sends to all its peers that are up.
ToPeers(n, type, term) ==
    {[type |-> type, from |-> n, to |-> p, term |-> term] : p \in up \ {n}}

Advanced(n) == ticks_since_last_heartbeat[n] + 1

Ticks(n) == n \in up \ ticked /\ ticked' = ticked \cup {n} /\ UNCHANGED <<up, dice>>

NothingDue(n) ==
    /\ Ticks(n)
    /\ Advanced(n) < IF state[n] = "Leader" THEN heartbeat_interval ELSE election_timeout[n]
    /\ ticks_since_last_heartbeat' = [ticks_since_last_heartbeat EXCEPT ![n] = @ + 1]
    /\ UNCHANGED <<state, current_term, voted_for, votes_received, election_timeout, net>>

heartbeat(n) ==
    /\ Ticks(n)
    /\ state[n] = "Leader" /\ Advanced(n) >= heartbeat_interval
    /\ ticks_since_last_heartbeat' = [ticks_since_last_heartbeat EXCEPT ![n] = 0]
    /\ net' = net \cup ToPeers(n, "AppendEntries", current_term[n])
    /\ UNCHANGED <<state, current_term, voted_for, votes_received, election_timeout>>

election(n) ==
    /\ Ticks(n)
    /\ state[n] # "Leader" /\ Advanced(n) >= election_timeout[n]
    /\ current_term' = [current_term EXCEPT ![n] = @ + 1]
    /\ state' = [state EXCEPT ![n] = "Candidate"]
    /\ voted_for' = [voted_for EXCEPT ![n] = n]
    /\ votes_received' = [votes_received EXCEPT ![n] = {n}]
    /\ reset_election_timeout(n)
    /\ net' = net \cup ToPeers(n, "RequestVote", current_term[n] + 1)

-----------------------------------------------------------------------------
(***************************************************************************)
(* The messages.  m is at its receiver, n; later says that its term is     *)
(* higher than n's, and check_msg_term has made n a follower.  A refused   *)
(* vote and a response to AppendEntries matter only by their term, which   *)
(* reaches everybody with a RequestVote in the same round: they are not    *)
(* modelled.                                                               *)
(***************************************************************************)
Arrives(m, type) ==
    /\ m.type = type /\ m.to \in up
    /\ UNCHANGED <<up, ticked, dice>>

later(m) == m.term > current_term[m.to]

\* A later term is noticed but not taken over.
Mutant_check_msg_term(m) == UNCHANGED <<current_term, state>>

check_msg_term(m) ==
    /\ current_term' = [current_term EXCEPT ![m.to] = IF later(m) THEN m.term ELSE @]
    /\ state' = [state EXCEPT ![m.to] = IF later(m) THEN "Follower" ELSE @]

can_vote(m) == later(m) \/ voted_for[m.to] \in {None, m.from}

log_check(m) == m.from \in Stale => m.to \in Stale

GrantVote(m) ==
    /\ Arrives(m, "RequestVote")
    /\ m.term >= current_term[m.to] /\ can_vote(m) /\ log_check(m)
    /\ check_msg_term(m)
    /\ voted_for' = [voted_for EXCEPT ![m.to] = m.from]
    /\ reset_election_timeout(m.to)
    /\ net' = (net \ {m}) \cup {[type |-> "Vote", from |-> m.to, to |-> m.from, term |-> m.term]}
    /\ UNCHANGED votes_received

RefuseVote(m) ==
    /\ Arrives(m, "RequestVote")
    /\ ~(m.term >= current_term[m.to] /\ can_vote(m) /\ log_check(m))
    /\ check_msg_term(m)
    /\ voted_for' = [voted_for EXCEPT ![m.to] = IF later(m) THEN None ELSE @]
    /\ IF later(m) THEN reset_election_timeout(m.to) ELSE KeepTimer
    /\ net' = net \ {m}
    /\ UNCHANGED votes_received

quorum(votes) == Cardinality(votes) > Cardinality(Node) \div 2

CountVote(m) ==
    LET n == m.to
        votes == votes_received[n] \cup {m.from}
    IN  /\ Arrives(m, "Vote")
        /\ state[n] = "Candidate"
        /\ votes_received' = [votes_received EXCEPT ![n] = votes]
        /\ IF quorum(votes)
           THEN /\ state' = [state EXCEPT ![n] = "Leader"]
                /\ reset_election_timeout(n)
                /\ net' = (net \ {m}) \cup ToPeers(n, "AppendEntries", current_term[n])
           ELSE /\ net' = net \ {m}
                /\ KeepTimer /\ UNCHANGED state
        /\ UNCHANGED <<current_term, voted_for>>

IgnoreVote(m) ==
    /\ Arrives(m, "Vote")
    /\ state[m.to] # "Candidate"
    /\ net' = net \ {m}
    /\ UNCHANGED core

\* A valid leader does not reset the timer.
Mutant_AcceptEntries(m) ==
    /\ Arrives(m, "AppendEntries")
    /\ m.term >= current_term[m.to] /\ (later(m) \/ state[m.to] # "Leader")
    /\ current_term' = [current_term EXCEPT ![m.to] = m.term]
    /\ state' = [state EXCEPT ![m.to] = "Follower"]
    /\ voted_for' = [voted_for EXCEPT ![m.to] = IF later(m) THEN None ELSE @]
    /\ KeepTimer
    /\ net' = net \ {m}
    /\ UNCHANGED votes_received

\* Also a candidate of the same term becomes a follower.
AcceptEntries(m) ==
    /\ Arrives(m, "AppendEntries")
    /\ m.term >= current_term[m.to] /\ (later(m) \/ state[m.to] # "Leader")
    /\ current_term' = [current_term EXCEPT ![m.to] = m.term]
    /\ state' = [state EXCEPT ![m.to] = "Follower"]
    /\ voted_for' = [voted_for EXCEPT ![m.to] = IF later(m) THEN None ELSE @]
    /\ reset_election_timeout(m.to)
    /\ net' = net \ {m}
    /\ UNCHANGED votes_received

RefuseEntries(m) ==
    /\ Arrives(m, "AppendEntries")
    /\ m.term < current_term[m.to]
    /\ net' = net \ {m}
    /\ UNCHANGED core

-----------------------------------------------------------------------------
Crash(n) ==
    /\ n \in up /\ Cardinality(Node \ up) < MaxCrashes
    /\ up' = up \ {n}
    /\ UNCHANGED <<core, net, ticked, dice>>

\* Everyone has ticked and every message has arrived.
RoundIsOver == up \subseteq ticked /\ \A m \in net : m.to \notin up

\* All terms are equal by then, and are counted from 0 again.
EndRound(d) ==
    /\ RoundIsOver
    /\ ticked' = {} /\ net' = {} /\ dice' = d
    /\ current_term' = [n \in Node |-> 0]
    /\ UNCHANGED <<up, state, voted_for, votes_received, ticks_since_last_heartbeat,
                   election_timeout>>

Deliver(m) ==
    \/ GrantVote(m) \/ RefuseVote(m) \/ CountVote(m) \/ IgnoreVote(m)
    \/ AcceptEntries(m) \/ RefuseEntries(m)

InRound ==
    \/ \E n \in Node : NothingDue(n) \/ heartbeat(n) \/ election(n)
    \/ \E m \in net : Deliver(m)

Next ==
    \/ InRound
    \/ \E n \in Node : Crash(n)
    \/ \E d \in Dice : EndRound(d)

(***************************************************************************)
(* Time passes and messages arrive.  The draws are random: of the rounds   *)
(* in which some timer is about to expire, infinitely many (if there are   *)
(* infinitely many) have draws that decide the election, with the timeout  *)
(* of one up-to-date node shorter by two ticks than all others.            *)
(***************************************************************************)
AboutToExpire ==
    \E n \in up : state[n] # "Leader" /\ Advanced(n) >= election_timeout[n]

Decisive(d) ==
    \E n \in up \ Stale : \A p \in up \ {n} : d[n] + 1 < d[p]

Fairness ==
    /\ WF_vars(InRound)
    /\ WF_vars(\E d \in Dice : EndRound(d))
    /\ SF_vars(\E d \in Dice : AboutToExpire /\ Decisive(d) /\ EndRound(d))

Spec == Init /\ [][Next]_vars /\ Fairness

-----------------------------------------------------------------------------
\* Type invariant; in particular all nodes that are up are in the same term
\* whenever a round is over, so that counting terms from 0 again is sound.
TypeOK ==
    /\ state \in [Node -> {"Follower", "Candidate", "Leader"}]
    /\ current_term \in [Node -> 0 .. Cardinality(Node)]
    /\ voted_for \in [Node -> Node \cup {None}] /\ votes_received \in [Node -> SUBSET Node]
    /\ election_timeout \in Dice
    /\ \A n \in up : state[n] # "Leader" =>
          ticks_since_last_heartbeat[n] < election_timeout[n]
    /\ RoundIsOver => \A n, p \in up : current_term[n] = current_term[p]

\* A leader is never replaced while it is up: heartbeats arrive before any
\* timer expires, and a candidate that lost to it gives up.
LeaderIsUndisturbed ==
    [][\A n \in up : state[n] = "Leader" => state'[n] = "Leader" \/ n \notin up']_vars

\* After the last crash a leader emerges and stays, split votes and
\* candidates with a stale log notwithstanding.
LeaderEmerges == <>[](\E n \in up : state[n] = "Leader")

=============================================================================
