------------------------ MODULE ElectionTimer_proofs ------------------------
(***************************************************************************)
(* Theorems about ElectionTimer, for any number of nodes, any timeouts and *)
(* draws, and any number of crashes: type correctness, with the reason why *)
(* terms may be counted from 0 in every round, and LeaderIsUndisturbed.    *)
(***************************************************************************)
EXTENDS ElectionTimer, FiniteSetTheorems, TLAPS

-----------------------------------------------------------------------------
(***************************************************************************)
(* The inductive invariant.                                                *)
(***************************************************************************)
Message == [type : {"RequestVote", "Vote", "AppendEntries"}, from : Node, to : Node,
            term : 0 .. 1]

\* In a round a term rises at most once.
Types ==
    /\ up \subseteq Node /\ ticked \subseteq Node
    /\ state \in [Node -> {"Follower", "Candidate", "Leader"}]
    /\ current_term \in [Node -> 0 .. 1]
    /\ voted_for \in [Node -> Node \cup {None}] /\ votes_received \in [Node -> SUBSET Node]
    /\ ticks_since_last_heartbeat \in [Node -> Nat]
    /\ election_timeout \in Dice /\ dice \in Dice
    /\ net \subseteq Message

\* A sender has reached the term of its messages, a candidate still is in the
\* term of the votes it gets.
Messages ==
    \A m \in net :
        /\ m.from # m.to /\ m.term <= current_term[m.from]
        /\ m.type # "AppendEntries" => m.term = 1
        /\ m.type = "Vote" => current_term[m.to] = 1

\* A request of the round's new term is on its way to whoever is behind.
Spreads ==
    (\E q \in Node : current_term[q] = 1) =>
        \A p \in up :
            \/ current_term[p] = 1
            \/ \E m \in net : m.to = p /\ m.type # "Vote" /\ m.term = 1

\* The clocks.  A node that is in the round's new term has reset its clock in
\* this round, or has already ticked.
Clocks ==
    \A n \in up :
        IF state[n] = "Leader"
        THEN ticks_since_last_heartbeat[n] < heartbeat_interval
        ELSE /\ ticks_since_last_heartbeat[n] < election_timeout[n]
             /\ current_term[n] = 1 => n \in ticked \/ ticks_since_last_heartbeat[n] = 0

Supports == \A n \in Node : state[n] # "Follower" => voted_for[n] = n

\* As long as a leader of an earlier round is up, nobody has started an
\* election in this one, crashed or not.
Reigns ==
    \A l \in up : state[l] = "Leader" /\ current_term[l] = 0 =>
        \A q \in Node : current_term[q] = 0

\* What a node may be ahead of the clock of the leader: its own tick of this
\* round, and the one that the leader has not made in it.
Tick(n) == IF n \in ticked THEN 1 ELSE 0
Heard(l, p) ==
    ticks_since_last_heartbeat[p] <= ticks_since_last_heartbeat[l] + (1 - Tick(l)) + Tick(p)
Hears(l, p) ==
    \E m \in net : m.type = "AppendEntries" /\ m.from = l /\ m.to = p
                   /\ m.term = current_term[l]

Following(l, p) ==
    /\ Heard(l, p) \/ Hears(l, p)
    /\ current_term[l] = 0 =>
          ticks_since_last_heartbeat[p] <= heartbeat_interval + Tick(p)

InTime ==
    \A l, p \in up : state[l] = "Leader" /\ state[p] # "Leader" => Following(l, p)

IInv == Types /\ Messages /\ Spreads /\ Clocks /\ Supports /\ Reigns /\ InTime
LEMMA ConstantsOK ==
    /\ heartbeat_interval \in Nat /\ heartbeat_interval >= 1 /\ None \notin Node
    /\ \A t \in election_timeout_range : t \in Nat /\ t > heartbeat_interval + 1
    /\ \A d \in Dice, n \in Node : d[n] \in Nat /\ d[n] > heartbeat_interval + 1
  BY TimerAssumption DEF Dice

LEMMA InitIInv == Init => IInv
<1> SUFFICES ASSUME Init PROVE IInv
  OBVIOUS
<1>1. Types
  BY DEF Init, Types
<1>2. /\ net = {} /\ up = Node
      /\ \A n \in Node : /\ state[n] = "Follower" /\ current_term[n] = 0
                         /\ ticks_since_last_heartbeat[n] = 0
                         /\ election_timeout[n] > 0
  BY ConstantsOK DEF Init
<1> QED  BY <1>1, <1>2 DEF IInv, Messages, Spreads, Clocks, Supports, Reigns, InTime

-----------------------------------------------------------------------------
(***************************************************************************)
(* What a step does.  Every step but EndRound and Crash is one of node n,  *)
(* whose core it changes, and terms only rise.                             *)
(***************************************************************************)
Others(n) ==
    \A p \in Node \ {n} :
        /\ state'[p] = state[p] /\ current_term'[p] = current_term[p]
        /\ voted_for'[p] = voted_for[p]
        /\ ticks_since_last_heartbeat'[p] = ticks_since_last_heartbeat[p]
        /\ election_timeout'[p] = election_timeout[p]

\* n starts its clock again.
Resets(n) == ticks_since_last_heartbeat'[n] = 0 /\ election_timeout'[n] = dice[n]
Keeps(n) ==
    /\ ticks_since_last_heartbeat'[n] = ticks_since_last_heartbeat[n]
    /\ election_timeout'[n] = election_timeout[n]

\* n stays in its role, term and vote.
Stays(n) ==
    state'[n] = state[n] /\ current_term'[n] = current_term[n] /\ voted_for'[n] = voted_for[n]

\* n ticks: nothing happens, it sends heartbeats, or it starts an election.
TickStep(n) ==
    /\ n \in up \ ticked /\ ticked' = ticked \cup {n} /\ up' = up /\ Others(n)
    /\ \/ /\ Stays(n) /\ net' = net /\ election_timeout'[n] = election_timeout[n]
          /\ ticks_since_last_heartbeat'[n] = Advanced(n)
          /\ Advanced(n) < IF state[n] = "Leader" THEN heartbeat_interval ELSE election_timeout[n]
       \/ /\ Stays(n) /\ state[n] = "Leader"
          /\ net' = net \cup ToPeers(n, "AppendEntries", current_term[n])
          /\ ticks_since_last_heartbeat'[n] = 0 /\ election_timeout'[n] = election_timeout[n]
       \/ /\ state[n] # "Leader" /\ Advanced(n) >= election_timeout[n]
          /\ state'[n] = "Candidate" /\ current_term'[n] = current_term[n] + 1
          /\ voted_for'[n] = n /\ Resets(n)
          /\ net' = net \cup ToPeers(n, "RequestVote", current_term[n] + 1)

\* m arrives at n: n stays as it is, follows a later term or a leader, gives
\* its vote, or wins the election.
MessageStep(m, n) ==
    /\ m \in net /\ n = m.to /\ n \in up /\ up' = up /\ ticked' = ticked /\ Others(n)
    /\ \/ /\ Stays(n) /\ Keeps(n) /\ net' = net \ {m}
          /\ m.type = "Vote" \/ m.term <= current_term[n]
          /\ m.type = "AppendEntries" => m.term < current_term[n]
       \/ /\ state'[n] = "Follower" /\ m.type # "Vote"
          /\ m.term >= current_term[n] /\ current_term'[n] = m.term
          /\ later(m) \/ state[n] # "Leader"
          /\ Resets(n) /\ net' = net \ {m}
       \/ /\ m.type = "RequestVote" /\ m.term >= current_term[n] /\ can_vote(m)
          /\ current_term'[n] = m.term
          /\ state'[n] = (IF later(m) THEN "Follower" ELSE state[n])
          /\ voted_for'[n] = m.from /\ Resets(n)
          /\ net' = (net \ {m}) \cup
                       {[type |-> "Vote", from |-> n, to |-> m.from, term |-> m.term]}
       \/ /\ m.type = "Vote" /\ state[n] = "Candidate" /\ state'[n] = "Leader"
          /\ current_term'[n] = current_term[n] /\ voted_for'[n] = voted_for[n]
          /\ Resets(n)
          /\ net' = (net \ {m}) \cup ToPeers(n, "AppendEntries", current_term[n])

LEMMA MessageIs ==
    ASSUME NEW m \in Message
    PROVE  /\ m.type \in {"RequestVote", "Vote", "AppendEntries"}
           /\ m.from \in Node /\ m.to \in Node /\ m.term \in 0 .. 1 /\ m.term \in Nat
  BY DEF Message

LEMMA PeersAre ==
    ASSUME Types, NEW n \in Node, NEW type \in {"RequestVote", "AppendEntries"}, NEW t \in 0 .. 1
    PROVE  /\ ToPeers(n, type, t) \subseteq Message
           /\ \A m \in ToPeers(n, type, t) :
                 m.from = n /\ m.to \in up \ {n} /\ m.type = type /\ m.term = t
           /\ \A p \in up \ {n} : \E m \in ToPeers(n, type, t) :
                 m.from = n /\ m.to = p /\ m.type = type /\ m.term = t
<1> DEFINE M(p) == [type |-> type, from |-> n, to |-> p, term |-> t]
<1>1. \A p \in Node : /\ M(p) \in Message
                      /\ M(p).from = n /\ M(p).to = p /\ M(p).type = type /\ M(p).term = t
  BY DEF Message
<1>2. ToPeers(n, type, t) = {M(p) : p \in up \ {n}}
  BY DEF ToPeers
<1>3. up \subseteq Node
  BY DEF Types
<1> HIDE DEF M
<1> QED  BY <1>1, <1>2, <1>3

LEMMA TickStepIs ==
    ASSUME Types, NEW n \in Node, NothingDue(n) \/ heartbeat(n) \/ election(n)
    PROVE  TickStep(n)
<1>0. n \in DOMAIN ticks_since_last_heartbeat
  BY DEF Types
<1>1. CASE NothingDue(n)
  <2>1. /\ n \in up \ ticked /\ ticked' = ticked \cup {n} /\ up' = up /\ Others(n)
        /\ Stays(n) /\ net' = net /\ election_timeout'[n] = election_timeout[n]
    BY <1>1 DEF NothingDue, Ticks, Dice, Types, Others, Stays
  <2>2. ticks_since_last_heartbeat'[n] = Advanced(n)
    BY <1>0, <1>1 DEF NothingDue, Advanced
  <2>3. Advanced(n) < IF state[n] = "Leader" THEN heartbeat_interval ELSE election_timeout[n]
    BY <1>1 DEF NothingDue
  <2> QED  BY <2>1, <2>2, <2>3, Zenon DEF TickStep
<1>2. CASE heartbeat(n)
  BY <1>2 DEF heartbeat, Ticks, Dice, Types, TickStep, Others, Stays
<1>3. CASE election(n)
  BY <1>3 DEF election, Ticks, Dice, Types, TickStep, Others, Resets, reset_election_timeout
<1> QED  BY <1>1, <1>2, <1>3

LEMMA MessageStepIs ==
    ASSUME Types, NEW m \in net, Deliver(m)
    PROVE  MessageStep(m, m.to)
<1>1. PICK n \in Node : n = m.to
  BY MessageIs DEF Types
<1>2. /\ m.term \in Nat /\ current_term[n] \in Nat
      /\ m.type \in {"RequestVote", "Vote", "AppendEntries"}
  BY <1>1, MessageIs DEF Types
<1>3. CASE GrantVote(m)
  <2>1. /\ n \in up /\ up' = up /\ ticked' = ticked /\ m.type = "RequestVote"
        /\ m.term >= current_term[n] /\ can_vote(m)
    BY <1>1, <1>3 DEF GrantVote, Arrives
  <2>2. Others(n) /\ Resets(n) /\ voted_for'[n] = m.from
    BY <1>1, <1>3 DEF GrantVote, check_msg_term, reset_election_timeout, Dice, Types, Others, Resets
  <2>3. /\ current_term'[n] = (IF later(m) THEN m.term ELSE current_term[n])
        /\ state'[n] = (IF later(m) THEN "Follower" ELSE state[n])
    BY <1>1, <1>3 DEF GrantVote, check_msg_term, Dice, Types
  <2>4. current_term'[n] = m.term
    BY <1>1, <1>2, <2>1, <2>3 DEF later
  <2>5. net' = (net \ {m}) \cup {[type |-> "Vote", from |-> n, to |-> m.from, term |-> m.term]}
    BY <1>1, <1>3 DEF GrantVote
  <2> QED  BY <1>1, <2>1, <2>2, <2>3, <2>4, <2>5, Zenon DEF MessageStep
<1>4. CASE RefuseVote(m)
  <2>1. /\ n \in up /\ up' = up /\ ticked' = ticked /\ m.type = "RequestVote" /\ net' = net \ {m}
    BY <1>1, <1>4 DEF RefuseVote, Arrives
  <2>2. Others(n)
    BY <1>1, <1>4 DEF RefuseVote, check_msg_term, reset_election_timeout, KeepTimer, Dice, Types, Others
  <2>3. CASE later(m)
    <3>1. state'[n] = "Follower" /\ current_term'[n] = m.term /\ Resets(n)
      BY <1>1, <1>4, <2>3 DEF RefuseVote, check_msg_term, reset_election_timeout, Dice, Types, Resets
    <3>2. m.term >= current_term[n]
      BY <1>1, <1>2, <2>3 DEF later
    <3> QED  BY <1>1, <2>1, <2>2, <2>3, <3>1, <3>2 DEF MessageStep
  <2>4. CASE ~later(m)
    <3>1. Stays(n) /\ Keeps(n)
      BY <1>1, <1>4, <2>4 DEF RefuseVote, check_msg_term, KeepTimer, Dice, Types, Stays, Keeps
    <3>2. m.term <= current_term[n]
      BY <1>1, <1>2, <2>4 DEF later
    <3> QED  BY <1>1, <2>1, <2>2, <3>1, <3>2 DEF MessageStep
  <2> QED  BY <2>3, <2>4
<1>5. CASE CountVote(m)
  <2>1. /\ n \in up /\ up' = up /\ ticked' = ticked /\ m.type = "Vote" /\ state[n] = "Candidate"
        /\ current_term' = current_term /\ voted_for' = voted_for
    BY <1>1, <1>5 DEF CountVote, Arrives
  <2>2. Others(n)
    BY <1>1, <1>5 DEF CountVote, reset_election_timeout, KeepTimer, Dice, Types, Others
  <2>3. CASE quorum(votes_received[n] \cup {m.from})
    <3>1. /\ state'[n] = "Leader" /\ Resets(n)
          /\ net' = (net \ {m}) \cup ToPeers(n, "AppendEntries", current_term[n])
      BY <1>1, <1>5, <2>3 DEF CountVote, reset_election_timeout, Dice, Types, Resets
    <3> QED  BY <1>1, <2>1, <2>2, <3>1 DEF MessageStep
  <2>4. CASE ~quorum(votes_received[n] \cup {m.from})
    <3>1. Stays(n) /\ Keeps(n) /\ net' = net \ {m}
      BY <1>1, <1>5, <2>1, <2>4 DEF CountVote, KeepTimer, Stays, Keeps
    <3> QED  BY <1>1, <2>1, <2>2, <3>1 DEF MessageStep
  <2> QED  BY <2>3, <2>4
<1>6. CASE IgnoreVote(m)
  BY <1>1, <1>2, <1>6 DEF IgnoreVote, Arrives, core, MessageStep, Others, Stays, Keeps
<1>7. CASE AcceptEntries(m)
  <2>1. /\ n \in up /\ up' = up /\ ticked' = ticked /\ m.type = "AppendEntries"
        /\ m.term >= current_term[n] /\ (later(m) \/ state[n] # "Leader") /\ net' = net \ {m}
    BY <1>1, <1>7 DEF AcceptEntries, Arrives
  <2>2. Others(n) /\ Resets(n) /\ current_term'[n] = m.term /\ state'[n] = "Follower"
    BY <1>1, <1>7 DEF AcceptEntries, reset_election_timeout, Dice, Types, Others, Resets
  <2> QED  BY <1>1, <2>1, <2>2 DEF MessageStep
<1>8. CASE RefuseEntries(m)
  BY <1>1, <1>2, <1>8 DEF RefuseEntries, Arrives, core, MessageStep, Others, Stays, Keeps
<1> QED  BY <1>3, <1>4, <1>5, <1>6, <1>7, <1>8 DEF Deliver

LEMMA NextIs ==
    ASSUME Types, [Next]_vars
    PROVE  \/ \E n \in Node : TickStep(n)
           \/ \E m \in net : MessageStep(m, m.to)
           \/ \E n \in Node : Crash(n)
           \/ \E d \in Dice : EndRound(d)
           \/ UNCHANGED vars
  BY TickStepIs, MessageStepIs DEF Next, InRound
-----------------------------------------------------------------------------
(***************************************************************************)
(* Who can start an election.                                              *)
(***************************************************************************)
LEMMA NodeIs ==
    ASSUME Types, NEW n \in Node
    PROVE  /\ state[n] \in {"Follower", "Candidate", "Leader"} /\ current_term[n] \in 0 .. 1
           /\ current_term[n] \in Nat /\ ticks_since_last_heartbeat[n] \in Nat
           /\ Advanced(n) \in Nat /\ Advanced(n) = ticks_since_last_heartbeat[n] + 1
           /\ election_timeout[n] \in Nat /\ election_timeout[n] > heartbeat_interval + 1
           /\ dice[n] \in Nat /\ dice[n] > heartbeat_interval + 1
           /\ heartbeat_interval \in Nat /\ heartbeat_interval >= 1
  BY ConstantsOK DEF Types, Advanced

\* Nobody starts a second election in a round.
LEMMA ElectionIsFirst ==
    ASSUME IInv, NEW n \in up \ ticked, state[n] # "Leader", Advanced(n) >= election_timeout[n]
    PROVE  current_term[n] = 0
<1>1. n \in Node
  BY DEF IInv, Types
<1>2. current_term[n] = 1 => ticks_since_last_heartbeat[n] = 0
  BY DEF IInv, Clocks
<1>3. /\ current_term[n] \in 0 .. 1 /\ Advanced(n) = ticks_since_last_heartbeat[n] + 1
      /\ election_timeout[n] \in Nat /\ election_timeout[n] > heartbeat_interval + 1
      /\ heartbeat_interval \in Nat
  BY <1>1, NodeIs DEF IInv
<1> QED  BY <1>2, <1>3

\* Nobody starts one at all while a leader of an earlier round is up.
LEMMA NobodyStands ==
    ASSUME IInv, NEW l \in up, state[l] = "Leader", current_term[l] = 0,
           NEW n \in up \ ticked, state[n] # "Leader"
    PROVE  ~(Advanced(n) >= election_timeout[n])
<1>1. n \in Node
  BY DEF IInv, Types
<1>2. ticks_since_last_heartbeat[n] <= heartbeat_interval + Tick(n) /\ Tick(n) = 0
  BY DEF IInv, InTime, Following, Tick
<1>3. /\ Advanced(n) = ticks_since_last_heartbeat[n] + 1 /\ ticks_since_last_heartbeat[n] \in Nat
      /\ election_timeout[n] \in Nat /\ election_timeout[n] > heartbeat_interval + 1
      /\ heartbeat_interval \in Nat
  BY <1>1, NodeIs DEF IInv
<1> QED  BY <1>2, <1>3

\* Messages of a term are sent by nodes that have reached it: whoever is still
\* led by a leader of an earlier round hears of no later term.
LEMMA NothingLater ==
    ASSUME IInv, NEW m \in net, NEW l \in up, state[l] = "Leader", current_term[l] = 0
    PROVE  m.term = 0
<1>1. m.from \in Node /\ m.term \in Nat
  BY MessageIs DEF IInv, Types
<1>2. m.term <= current_term[m.from]
  BY DEF IInv, Messages
<1>3. current_term[m.from] = 0
  BY <1>1 DEF IInv, Reigns
<1> QED  BY <1>1, <1>2, <1>3

-----------------------------------------------------------------------------
(***************************************************************************)
(* The invariant is kept.                                                  *)
(***************************************************************************)
LEMMA NextTypes == IInv /\ [Next]_vars => Types'
<1> SUFFICES ASSUME IInv, [Next]_vars PROVE Types'
  OBVIOUS
<1>0. Types
  BY DEF IInv
<1>1. CASE UNCHANGED vars
  BY <1>0, <1>1 DEF Types, vars, core
<1>2. ASSUME NEW n \in Node, NothingDue(n) PROVE Types'
  <2>1. ticks_since_last_heartbeat' \in [Node -> Nat]
    BY <1>0, <1>2 DEF NothingDue, Types
  <2> QED  BY <1>0, <1>2, <2>1 DEF NothingDue, Ticks, Types
<1>3. ASSUME NEW n \in Node, heartbeat(n) PROVE Types'
  <2>1. ticks_since_last_heartbeat' \in [Node -> Nat]
    BY <1>0, <1>3 DEF heartbeat, Types
  <2>2. net' \subseteq Message
    <3>1. ToPeers(n, "AppendEntries", current_term[n]) \subseteq Message
      BY <1>0, NodeIs, PeersAre
    <3> QED  BY <1>0, <1>3, <3>1 DEF heartbeat, Types
  <2> QED  BY <1>0, <1>3, <2>1, <2>2 DEF heartbeat, Ticks, Types
<1>4. ASSUME NEW n \in Node, election(n) PROVE Types'
  <2>1. current_term[n] = 0
    BY <1>4, ElectionIsFirst DEF election, Ticks
  <2>2. current_term' \in [Node -> 0 .. 1]
    BY <1>0, <1>4, <2>1 DEF election, Types
  <2>3. net' \subseteq Message
    <3>1. ToPeers(n, "RequestVote", current_term[n] + 1) \subseteq Message
      BY <1>0, <2>1, PeersAre
    <3> QED  BY <1>0, <1>4, <3>1 DEF election, Types
  <2>4. ticks_since_last_heartbeat' \in [Node -> Nat] /\ election_timeout' \in Dice
    BY <1>0, <1>4 DEF election, reset_election_timeout, Types, Dice
  <2>5. /\ state' \in [Node -> {"Follower", "Candidate", "Leader"}]
        /\ voted_for' \in [Node -> Node \cup {None}] /\ votes_received' \in [Node -> SUBSET Node]
    BY <1>0, <1>4 DEF election, Types
  <2>6. up' = up /\ dice' = dice /\ ticked' = ticked \cup {n}
    BY <1>4 DEF election, Ticks
  <2> QED  BY <1>0, <2>2, <2>3, <2>4, <2>5, <2>6 DEF Types
<1>5. ASSUME NEW m \in net, Deliver(m) PROVE Types'
  <2>1. PICK n \in Node : n = m.to
    BY <1>0, MessageIs DEF Types
  <2>2. m.from \in Node /\ m.term \in 0 .. 1 /\ current_term[n] \in 0 .. 1
    BY <1>0, MessageIs DEF Types
  <2>3. up' = up /\ ticked' = ticked /\ dice' = dice
    BY <1>5 DEF Deliver, GrantVote, RefuseVote, CountVote, IgnoreVote, AcceptEntries,
                RefuseEntries, Arrives
  <2>4. /\ state' \in [Node -> {"Follower", "Candidate", "Leader"}]
        /\ current_term' \in [Node -> 0 .. 1]
    BY <1>0, <1>5, <2>1, <2>2 DEF Deliver, GrantVote, RefuseVote, CountVote, IgnoreVote,
       AcceptEntries, RefuseEntries, check_msg_term, core, Types
  <2>5. /\ voted_for' \in [Node -> Node \cup {None}] /\ votes_received' \in [Node -> SUBSET Node]
    BY <1>0, <1>5, <2>1, <2>2 DEF Deliver, GrantVote, RefuseVote, CountVote, IgnoreVote,
       AcceptEntries, RefuseEntries, core, Types
  <2>6. ticks_since_last_heartbeat' \in [Node -> Nat] /\ election_timeout' \in Dice
    BY <1>0, <1>5, <2>1, <2>2 DEF Deliver, GrantVote, RefuseVote, CountVote, IgnoreVote,
       AcceptEntries, RefuseEntries, reset_election_timeout, KeepTimer, core, Types, Dice
  <2>7. net' \subseteq Message
    <3>1. ToPeers(n, "AppendEntries", current_term[n]) \subseteq Message
      BY <1>0, <2>2, PeersAre
    <3>2. [type |-> "Vote", from |-> n, to |-> m.from, term |-> m.term] \in Message
      BY <2>2 DEF Message
    <3>3. \/ net' = net \ {m}
          \/ net' = (net \ {m}) \cup {[type |-> "Vote", from |-> n, to |-> m.from, term |-> m.term]}
          \/ net' = (net \ {m}) \cup ToPeers(n, "AppendEntries", current_term[n])
      BY <1>0, <1>5, <2>1, MessageStepIs DEF MessageStep
    <3>4. net \subseteq Message
      BY <1>0 DEF Types
    <3> QED  BY <3>1, <3>2, <3>3, <3>4
  <2> QED  BY <1>0, <2>3, <2>4, <2>5, <2>6, <2>7 DEF Types
<1>6. ASSUME NEW n \in Node, Crash(n) PROVE Types'
  BY <1>0, <1>6 DEF Crash, core, Types
<1>7. ASSUME NEW d \in Dice, EndRound(d) PROVE Types'
  BY <1>0, <1>7 DEF EndRound, Types
<1> QED  BY <1>1, <1>2, <1>3, <1>4, <1>5, <1>6, <1>7 DEF Next, InRound

LEMMA NextSupports == IInv /\ [Next]_vars => Supports'
<1> SUFFICES ASSUME IInv, [Next]_vars, NEW p \in Node, state'[p] # "Follower" PROVE voted_for'[p] = p
  BY DEF Supports
<1>0. Types /\ (state[p] # "Follower" => voted_for[p] = p)
  BY DEF IInv, Supports
<1>1. ASSUME NEW n \in Node, TickStep(n) PROVE voted_for'[p] = p
  BY <1>0, <1>1 DEF TickStep, Others, Stays
<1>2. ASSUME NEW m \in net, MessageStep(m, m.to) PROVE voted_for'[p] = p
  <2>1. m.to \in Node /\ m.from \in Node /\ m.from # m.to /\ None \notin Node
    BY <1>0, MessageIs, ConstantsOK DEF IInv, Messages, Types
  <2>2. CASE p # m.to
    BY <1>0, <1>2, <2>2 DEF MessageStep, Others
  <2>3. CASE p = m.to
    BY <1>0, <1>2, <2>1, <2>3 DEF MessageStep, Stays, can_vote
  <2> QED  BY <2>2, <2>3
<1>3. ASSUME NEW n \in Node, Crash(n) PROVE voted_for'[p] = p
  BY <1>0, <1>3 DEF Crash, core
<1>4. ASSUME NEW d \in Dice, EndRound(d) PROVE voted_for'[p] = p
  BY <1>0, <1>4 DEF EndRound
<1>5. CASE UNCHANGED vars
  BY <1>0, <1>5 DEF vars, core
<1> QED  BY <1>0, <1>1, <1>2, <1>3, <1>4, <1>5, NextIs
\* Terms only rise within a round, and the new term is that of some node.
LEMMA TermsRise ==
    ASSUME IInv, [Next]_vars, NEW n \in Node,
           TickStep(n) \/ \E m \in net : n = m.to /\ MessageStep(m, n)
    PROVE  /\ \A q \in Node : current_term[q] \in 0 .. 1 /\ current_term'[q] \in 0 .. 1
           /\ \A q \in Node : current_term[q] <= current_term'[q]
           /\ \A q \in Node \ {n} : current_term'[q] = current_term[q]
<1>1. Types /\ Types'
  BY NextTypes DEF IInv
<1>2. \A q \in Node : current_term[q] \in 0 .. 1 /\ current_term'[q] \in 0 .. 1
  BY <1>1 DEF Types
<1>3. \A q \in Node \ {n} : current_term'[q] = current_term[q]
  BY DEF TickStep, MessageStep, Others
<1>4. current_term[n] <= current_term'[n]
  <2>1. CASE TickStep(n)
    BY <1>2, <2>1 DEF TickStep, Stays
  <2>2. ASSUME NEW m \in net, n = m.to, MessageStep(m, n) PROVE current_term[n] <= current_term'[n]
    BY <1>1, <1>2, <2>2, MessageIs DEF MessageStep, Stays, Types
  <2> QED  BY <2>1, <2>2
<1> QED  BY <1>2, <1>3, <1>4

LEMMA NextMessages == IInv /\ [Next]_vars => Messages'
<1> SUFFICES ASSUME IInv, [Next]_vars PROVE Messages'
  OBVIOUS
<1>0. Types /\ Messages
  BY DEF IInv
<1> DEFINE Good(m) == /\ m.from # m.to /\ m.term <= current_term'[m.from]
                      /\ m.type # "AppendEntries" => m.term = 1
                      /\ m.type = "Vote" => current_term'[m.to] = 1
<1>1. ASSUME NEW n \in Node, TickStep(n) \/ \E m \in net : n = m.to /\ MessageStep(m, n),
             NEW m \in net
      PROVE  Good(m)
  <2>1. /\ m.from \in Node /\ m.to \in Node /\ m.term \in Nat
        /\ m.from # m.to /\ m.term <= current_term[m.from]
        /\ m.type # "AppendEntries" => m.term = 1
        /\ m.type = "Vote" => current_term[m.to] = 1
    BY <1>0, MessageIs DEF Types, Messages
  <2>2. /\ current_term[m.from] <= current_term'[m.from] /\ current_term[m.to] <= current_term'[m.to]
        /\ current_term[m.from] \in 0 .. 1 /\ current_term'[m.from] \in 0 .. 1
        /\ current_term[m.to] \in 0 .. 1 /\ current_term'[m.to] \in 0 .. 1
    BY <1>1, <2>1, TermsRise
  <2> QED  BY <2>1, <2>2
<1>2. ASSUME NEW n \in Node, TickStep(n) PROVE Messages'
  <2>1. current_term[n] \in 0 .. 1 /\ current_term'[n] \in 0 .. 1
    BY <1>2, TermsRise
  <2>2. CASE net' = net
    BY <1>1, <1>2, <2>2 DEF Messages
  <2>3. CASE /\ net' = net \cup ToPeers(n, "AppendEntries", current_term[n])
             /\ current_term'[n] = current_term[n]
    <3>1. ASSUME NEW m \in ToPeers(n, "AppendEntries", current_term[n]) PROVE Good(m)
      BY <1>0, <2>1, <2>3, <3>1, PeersAre
    <3> QED  BY <1>1, <1>2, <2>3, <3>1 DEF Messages
  <2>4. CASE /\ net' = net \cup ToPeers(n, "RequestVote", current_term[n] + 1)
             /\ current_term'[n] = current_term[n] + 1
    <3>1. current_term[n] + 1 = 1
      BY <2>1, <2>4
    <3>2. ASSUME NEW m \in ToPeers(n, "RequestVote", current_term[n] + 1) PROVE Good(m)
      BY <1>0, <2>1, <2>4, <3>1, <3>2, PeersAre
    <3> QED  BY <1>1, <1>2, <2>4, <3>2 DEF Messages
  <2> QED  BY <1>2, <2>2, <2>3, <2>4 DEF TickStep, Stays
<1>3. ASSUME NEW m \in net, MessageStep(m, m.to) PROVE Messages'
  <2>1. PICK n \in Node : n = m.to
    BY <1>0, MessageIs DEF Types
  <2>2. current_term[n] \in 0 .. 1 /\ current_term'[n] \in 0 .. 1
    BY <1>3, <2>1, TermsRise
  <2>3. \A k \in net : Good(k)
    BY <1>1, <1>3, <2>1
  <2>4. CASE net' = net \ {m}
    BY <2>3, <2>4 DEF Messages
  <2>5. CASE /\ m.type = "RequestVote" /\ current_term'[n] = m.term
             /\ net' = (net \ {m}) \cup
                          {[type |-> "Vote", from |-> n, to |-> m.from, term |-> m.term]}
    <3>1. Good(m) /\ m.term = 1 /\ m.from \in Node
      BY <1>0, <2>3, <2>5, MessageIs DEF Types
    <3>2. current_term'[m.from] \in 0 .. 1
      BY <1>3, <2>1, <3>1, TermsRise
    <3>3. Good([type |-> "Vote", from |-> n, to |-> m.from, term |-> m.term])
      BY <2>1, <2>2, <2>5, <3>1, <3>2
    <3> QED  BY <2>3, <2>5, <3>3 DEF Messages
  <2>6. CASE /\ net' = (net \ {m}) \cup ToPeers(n, "AppendEntries", current_term[n])
             /\ current_term'[n] = current_term[n]
    <3>1. ASSUME NEW k \in ToPeers(n, "AppendEntries", current_term[n]) PROVE Good(k)
      BY <1>0, <2>2, <2>6, <3>1, PeersAre
    <3> QED  BY <2>3, <2>6, <3>1 DEF Messages
  <2> QED  BY <1>3, <2>1, <2>4, <2>5, <2>6 DEF MessageStep
<1>4. ASSUME NEW n \in Node, Crash(n) PROVE Messages'
  BY <1>0, <1>4 DEF Crash, core, Messages
<1>5. ASSUME NEW d \in Dice, EndRound(d) PROVE Messages'
  BY <1>5 DEF EndRound, Messages
<1>6. CASE UNCHANGED vars
  BY <1>0, <1>6 DEF vars, core, Messages
<1> QED  BY <1>0, <1>2, <1>3, <1>4, <1>5, <1>6, NextIs

LEMMA NextSpreads == IInv /\ [Next]_vars => Spreads'
<1> SUFFICES ASSUME IInv, [Next]_vars PROVE Spreads'
  OBVIOUS
<1>0. Types /\ Spreads /\ Messages /\ Types'
  BY NextTypes DEF IInv
<1> DEFINE Reached(p) == \/ current_term[p] = 1
                         \/ \E m \in net : m.to = p /\ m.type # "Vote" /\ m.term = 1
<1>1. ASSUME NEW q \in Node, current_term[q] = 1, NEW p \in up PROVE Reached(p)
  BY <1>0, <1>1 DEF Spreads
<1> HIDE DEF Reached
<1>2. ASSUME NEW n \in Node, TickStep(n) PROVE Spreads'
  <2> SUFFICES ASSUME NEW q \in Node, current_term'[q] = 1, NEW p \in up, current_term'[p] # 1
               PROVE  \E m \in net' : m.to = p /\ m.type # "Vote" /\ m.term = 1
    BY <1>2 DEF Spreads, TickStep
  <2>1. /\ p \in Node /\ current_term[p] \in 0 .. 1 /\ current_term'[p] \in 0 .. 1
        /\ current_term[p] <= current_term'[p] /\ net \subseteq net'
    <3>1. net \subseteq net'
      BY <1>2 DEF TickStep
    <3> QED  BY <1>0, <1>2, <3>1, TermsRise DEF Types
  <2>2. CASE current_term[q] = 1
    BY <1>1, <2>1, <2>2 DEF Reached
  <2>3. CASE current_term[q] # 1
    <3>1. q = n /\ p # n
      BY <1>2, <2>3, TermsRise
    <3>2. /\ current_term'[n] = current_term[n] + 1
          /\ net' = net \cup ToPeers(n, "RequestVote", current_term[n] + 1)
      BY <1>2, <2>3, <3>1 DEF TickStep, Stays
    <3>3. current_term[n] + 1 = 1
      BY <3>1, <3>2
    <3> QED  BY <1>0, <3>1, <3>2, <3>3, PeersAre
  <2> QED  BY <2>2, <2>3
<1>3. ASSUME NEW k \in net, MessageStep(k, k.to) PROVE Spreads'
  <2> SUFFICES ASSUME NEW q \in Node, current_term'[q] = 1, NEW p \in up, current_term'[p] # 1
               PROVE  \E m \in net' : m.to = p /\ m.type # "Vote" /\ m.term = 1
    BY <1>3 DEF Spreads, MessageStep
  <2>1. PICK n \in Node : n = k.to
    BY <1>0, MessageIs DEF Types
  <2>2. /\ p \in Node /\ current_term[p] \in 0 .. 1 /\ current_term'[p] \in 0 .. 1
        /\ current_term[p] <= current_term'[p]
    BY <1>0, <1>3, <2>1, TermsRise DEF Types
  <2>3. \E r \in Node : current_term[r] = 1
    <3>1. CASE current_term[q] = 1
      BY <3>1
    <3>2. CASE current_term[q] # 1
      <4>1. q = n /\ current_term'[n] = k.term
        BY <1>3, <2>1, <3>2, TermsRise DEF MessageStep, Stays
      <4>2. k.from \in Node /\ k.term <= current_term[k.from] /\ current_term[k.from] \in 0 .. 1
        BY <1>0, MessageIs DEF Messages, Types
      <4> QED  BY <4>1, <4>2
    <3> QED  BY <3>1, <3>2
  <2>4. PICK m \in net : m.to = p /\ m.type # "Vote" /\ m.term = 1
    BY <1>1, <2>2, <2>3 DEF Reached
  <2>5. m # k
    <3>1. SUFFICES ASSUME m = k PROVE FALSE
      OBVIOUS
    <3>2. n = p /\ k.type # "Vote" /\ k.term = 1
      BY <2>1, <2>4, <3>1
    <3>3. current_term'[n] = k.term \/ (current_term'[n] = current_term[n] /\ k.term <= current_term[n])
      BY <1>3, <2>1, <3>2 DEF MessageStep, Stays
    <3> QED  BY <2>2, <3>2, <3>3
  <2>6. net \ {k} \subseteq net'
    BY <1>3 DEF MessageStep
  <2> QED  BY <2>4, <2>5, <2>6
<1>4. ASSUME NEW n \in Node, Crash(n) PROVE Spreads'
  BY <1>0, <1>4 DEF Crash, core, Spreads
<1>5. ASSUME NEW d \in Dice, EndRound(d) PROVE Spreads'
  BY <1>5 DEF EndRound, Spreads
<1>6. CASE UNCHANGED vars
  BY <1>0, <1>6 DEF vars, core, Spreads
<1> QED  BY <1>0, <1>2, <1>3, <1>4, <1>5, <1>6, NextIs

LEMMA NextClocks == IInv /\ [Next]_vars => Clocks'
<1> SUFFICES ASSUME IInv, [Next]_vars PROVE Clocks'
  OBVIOUS
<1>0. Types /\ Clocks /\ Types'
  BY NextTypes DEF IInv
<1> DEFINE Clock(n) ==
      IF state[n] = "Leader"
      THEN ticks_since_last_heartbeat[n] < heartbeat_interval
      ELSE /\ ticks_since_last_heartbeat[n] < election_timeout[n]
           /\ current_term[n] = 1 => n \in ticked \/ ticks_since_last_heartbeat[n] = 0
<1>1. \A n \in up : Clock(n) /\ n \in Node
  BY <1>0 DEF Clocks, Types
<1>2. ASSUME NEW n \in Node, TickStep(n), NEW p \in up PROVE Clock(p)'
  <2>1. CASE p # n
    BY <1>1, <1>2, <2>1 DEF TickStep, Others
  <2>2. CASE p = n
    BY <1>0, <1>1, <1>2, <2>2, NodeIs DEF TickStep, Stays, Resets
  <2> QED  BY <2>1, <2>2
<1>3. ASSUME NEW m \in net, MessageStep(m, m.to), NEW p \in up PROVE Clock(p)'
  <2>1. CASE p # m.to
    BY <1>1, <1>3, <2>1 DEF MessageStep, Others
  <2>2. CASE p = m.to
    BY <1>0, <1>1, <1>3, <2>2, NodeIs DEF MessageStep, Stays, Keeps, Resets
  <2> QED  BY <2>1, <2>2
<1>4. ASSUME NEW n \in Node, Crash(n) PROVE Clocks'
  BY <1>0, <1>4 DEF Crash, core, Clocks
<1>5. ASSUME NEW d \in Dice, EndRound(d) PROVE Clocks'
  BY <1>0, <1>5 DEF EndRound, Clocks, Types
<1>6. CASE UNCHANGED vars
  BY <1>0, <1>6 DEF vars, core, Clocks
<1>7. ASSUME up' = up, \A p \in up : Clock(p)' PROVE Clocks'
  BY <1>7 DEF Clocks
<1>8. \A n \in Node : TickStep(n) => up' = up
  BY DEF TickStep
<1>9. \A m \in net : MessageStep(m, m.to) => up' = up
  BY DEF MessageStep
<1> HIDE DEF Clock
<1> QED  BY <1>0, <1>2, <1>3, <1>4, <1>5, <1>6, <1>7, <1>8, <1>9, NextIs
LEMMA NextReigns == IInv /\ [Next]_vars => Reigns'
<1> SUFFICES ASSUME IInv, [Next]_vars PROVE Reigns'
  OBVIOUS
<1>0. Types /\ Reigns /\ Types'
  BY NextTypes DEF IInv
<1>1. ASSUME NEW n \in Node, TickStep(n) PROVE Reigns'
  <2> SUFFICES ASSUME NEW l \in up, state'[l] = "Leader", current_term'[l] = 0, NEW q \in Node
               PROVE  current_term'[q] = 0
    BY <1>1 DEF Reigns, TickStep
  <2>1. l \in Node /\ current_term[l] = 0
    BY <1>0, <1>1, TermsRise DEF Types
  <2>2. state[l] = "Leader"
    BY <1>1, <2>1 DEF TickStep, Others, Stays
  <2>3. \A r \in Node : current_term[r] = 0
    BY <1>0, <2>1, <2>2 DEF Reigns
  <2>4. state[n] # "Leader" => ~(Advanced(n) >= election_timeout[n])
    BY <1>1, <2>1, <2>2, NobodyStands DEF TickStep
  <2>5. current_term'[n] = current_term[n]
    BY <1>1, <2>4 DEF TickStep, Stays
  <2> QED  BY <1>1, <2>3, <2>5 DEF TickStep, Others
<1>2. ASSUME NEW m \in net, MessageStep(m, m.to) PROVE Reigns'
  <2> SUFFICES ASSUME NEW l \in up, state'[l] = "Leader", current_term'[l] = 0, NEW q \in Node
               PROVE  current_term'[q] = 0
    BY <1>2 DEF Reigns, MessageStep
  <2>1. PICK n \in Node : n = m.to
    BY <1>0, MessageIs DEF Types
  <2>2. l \in Node /\ current_term[l] = 0
    BY <1>0, <1>2, <2>1, TermsRise DEF Types
  <2>3. state[l] = "Leader"
    <3>1. SUFFICES ASSUME state[l] # "Leader" PROVE FALSE
      OBVIOUS
    <3>2. l = n /\ m.type = "Vote"
      BY <1>2, <2>1, <2>2, <3>1 DEF MessageStep, Others, Stays
    <3>3. current_term[l] = 1
      BY <2>1, <3>2 DEF IInv, Messages
    <3> QED  BY <2>2, <3>3
  <2>4. m.term = 0 /\ \A r \in Node : current_term[r] = 0
    BY <1>0, <2>2, <2>3, NothingLater DEF Reigns
  <2>5. current_term'[n] = m.term \/ current_term'[n] = current_term[n]
    BY <1>2, <2>1 DEF MessageStep, Stays
  <2> QED  BY <1>2, <2>1, <2>4, <2>5 DEF MessageStep, Others
<1>3. ASSUME NEW n \in Node, Crash(n) PROVE Reigns'
  BY <1>0, <1>3 DEF Crash, core, Reigns
<1>4. ASSUME NEW d \in Dice, EndRound(d) PROVE Reigns'
  BY <1>4 DEF EndRound, Reigns
<1>5. CASE UNCHANGED vars
  BY <1>0, <1>5 DEF vars, core, Reigns
<1> QED  BY <1>0, <1>1, <1>2, <1>3, <1>4, <1>5, NextIs

\* A node that starts its clock again is in time for every leader.
LEMMA ResetsInTime ==
    ASSUME Types', NEW l \in Node, NEW p \in Node, ticks_since_last_heartbeat'[p] = 0
    PROVE  Following(l, p)'
<1>1. ticks_since_last_heartbeat'[l] \in Nat /\ heartbeat_interval \in Nat
  BY ConstantsOK DEF Types
<1>2. Tick(p)' \in 0 .. 1 /\ Tick(l)' \in 0 .. 1
  BY DEF Tick
<1> QED  BY <1>1, <1>2 DEF Following, Heard

LEMMA TickInTime ==
    ASSUME IInv, [Next]_vars, NEW n \in Node, TickStep(n)
    PROVE  InTime'
<1> SUFFICES ASSUME NEW l \in up, NEW p \in up, state'[l] = "Leader", state'[p] # "Leader"
             PROVE  Following(l, p)'
  BY DEF InTime, TickStep
<1>0. Types /\ Types' /\ l \in Node /\ p \in Node /\ p # l
  BY NextTypes DEF IInv, Types
<1>1. /\ state[l] = "Leader" /\ current_term'[l] = current_term[l] /\ state[p] # "Leader"
  BY <1>0 DEF TickStep, Others, Stays
<1>2. Following(l, p)
  BY <1>1 DEF IInv, InTime
<1>3. /\ ticks_since_last_heartbeat[l] \in Nat /\ ticks_since_last_heartbeat[p] \in Nat
      /\ heartbeat_interval \in Nat
  BY <1>0, NodeIs
<1>4. n \in up \ ticked /\ ticked' = ticked \cup {n} /\ net \subseteq net'
  BY DEF TickStep
<1>5. Hears(l, p) => Hears(l, p)'
  BY <1>1, <1>4 DEF Hears
<1>6. CASE n \notin {l, p}
  <2>1. /\ ticks_since_last_heartbeat'[l] = ticks_since_last_heartbeat[l]
        /\ ticks_since_last_heartbeat'[p] = ticks_since_last_heartbeat[p]
        /\ Tick(l)' = Tick(l) /\ Tick(p)' = Tick(p)
    BY <1>0, <1>4, <1>6 DEF TickStep, Others, Tick
  <2> QED  BY <1>1, <1>2, <1>5, <2>1 DEF Following, Heard
<1>7. CASE n = p
  <2>1. CASE ticks_since_last_heartbeat'[p] = 0
    BY <1>0, <2>1, ResetsInTime
  <2>2. CASE ticks_since_last_heartbeat'[p] = ticks_since_last_heartbeat[p] + 1
    <3>1. /\ ticks_since_last_heartbeat'[l] = ticks_since_last_heartbeat[l]
          /\ Tick(l)' = Tick(l) /\ Tick(p) = 0 /\ Tick(p)' = 1 /\ Tick(l) \in 0 .. 1
      BY <1>0, <1>4, <1>7 DEF TickStep, Others, Tick
    <3>2. Heard(l, p) => Heard(l, p)'
      BY <1>3, <2>2, <3>1 DEF Heard
    <3> QED  BY <1>1, <1>2, <1>3, <1>5, <2>2, <3>1, <3>2 DEF Following
  <2> QED  BY <1>1, <1>7, <2>1, <2>2 DEF TickStep, Resets, Advanced
<1>8. CASE n = l
  <2>1. /\ ticks_since_last_heartbeat'[p] = ticks_since_last_heartbeat[p]
        /\ Tick(p)' = Tick(p) /\ Tick(l) = 0 /\ Tick(l)' = 1 /\ Tick(p) \in 0 .. 1
    BY <1>0, <1>4, <1>8 DEF TickStep, Others, Tick
  <2>2. CASE ticks_since_last_heartbeat'[l] = ticks_since_last_heartbeat[l] + 1
    <3>1. Heard(l, p) => Heard(l, p)'
      BY <1>3, <2>1, <2>2 DEF Heard
    <3> QED  BY <1>1, <1>2, <1>5, <2>1, <3>1 DEF Following
  <2>3. CASE net' = net \cup ToPeers(l, "AppendEntries", current_term[l])
    <3>1. current_term[l] \in 0 .. 1 /\ p \in up \ {l}
      BY <1>0 DEF Types
    <3>2. Hears(l, p)'
      BY <1>0, <1>1, <2>3, <3>1, PeersAre DEF Hears
    <3> QED  BY <1>1, <1>2, <2>1, <3>2 DEF Following
  <2> QED  BY <1>1, <1>8, <2>2, <2>3 DEF TickStep, Advanced
<1> QED  BY <1>6, <1>7, <1>8

LEMMA MessageInTime ==
    ASSUME IInv, [Next]_vars, NEW m \in net, MessageStep(m, m.to)
    PROVE  InTime'
<1> SUFFICES ASSUME NEW l \in up, NEW p \in up, state'[l] = "Leader", state'[p] # "Leader"
             PROVE  Following(l, p)'
  BY DEF InTime, MessageStep
<1>0. Types /\ Types' /\ l \in Node /\ p \in Node /\ p # l
  BY NextTypes DEF IInv, Types
<1>1. PICK n \in Node : n = m.to
  BY <1>0, MessageIs DEF Types
<1>2. /\ ticks_since_last_heartbeat[l] \in Nat /\ ticks_since_last_heartbeat[p] \in Nat
      /\ heartbeat_interval \in Nat /\ current_term[l] \in 0 .. 1 /\ current_term[p] \in 0 .. 1
  BY <1>0, NodeIs
<1>3. ticked' = ticked /\ net \ {m} \subseteq net' /\ Tick(l)' = Tick(l) /\ Tick(p)' = Tick(p)
  BY DEF MessageStep, Tick
<1>4. ASSUME /\ state[l] = "Leader" /\ state[p] # "Leader" /\ current_term'[l] = current_term[l]
             /\ ticks_since_last_heartbeat'[l] = ticks_since_last_heartbeat[l]
             /\ ticks_since_last_heartbeat'[p] = ticks_since_last_heartbeat[p]
             /\ ~(m.type = "AppendEntries" /\ m.from = l /\ m.to = p /\ m.term = current_term[l])
      PROVE  Following(l, p)'
  <2>1. Following(l, p)
    BY <1>4 DEF IInv, InTime
  <2>2. Hears(l, p) => Hears(l, p)'
    BY <1>3, <1>4 DEF Hears
  <2>3. Heard(l, p) => Heard(l, p)'
    BY <1>3, <1>4 DEF Heard
  <2> QED  BY <1>3, <1>4, <2>1, <2>2, <2>3 DEF Following
<1>5. CASE n \notin {l, p}
  BY <1>0, <1>1, <1>4, <1>5 DEF MessageStep, Others
<1>6. CASE n = p
  <2>1. CASE Resets(n)
    BY <1>0, <1>6, <2>1, ResetsInTime DEF Resets
  <2>2. CASE ~Resets(n)
    <3>1. /\ Stays(n) /\ Keeps(n) /\ Others(n)
          /\ m.type = "AppendEntries" => m.term < current_term[n]
      BY <1>1, <2>2 DEF MessageStep
    <3>2. /\ state[l] = "Leader" /\ state[p] # "Leader" /\ current_term'[l] = current_term[l]
          /\ ticks_since_last_heartbeat'[l] = ticks_since_last_heartbeat[l]
          /\ ticks_since_last_heartbeat'[p] = ticks_since_last_heartbeat[p]
      BY <1>0, <1>6, <3>1 DEF Stays, Keeps, Others
    <3>3. current_term[l] = 0 => current_term[p] = 0
      BY <1>0, <3>2 DEF IInv, Reigns
    <3>4. ~(m.type = "AppendEntries" /\ m.term = current_term[l])
      BY <1>2, <1>6, <3>1, <3>3
    <3> QED  BY <1>4, <3>2, <3>4
  <2> QED  BY <2>1, <2>2
<1>7. CASE n = l
  <2>1. /\ ticks_since_last_heartbeat'[p] = ticks_since_last_heartbeat[p] /\ state'[p] = state[p]
    BY <1>0, <1>1, <1>7 DEF MessageStep, Others
  <2>2. CASE Stays(n) /\ Keeps(n)
    BY <1>0, <1>1, <1>4, <1>7, <2>1, <2>2 DEF Stays, Keeps
  <2>3. CASE m.type = "RequestVote" /\ can_vote(m) /\ ~later(m) /\ state[l] = "Leader"
    <3>1. voted_for[l] = l /\ m.from # l /\ None \notin Node
      BY <1>0, <1>1, <1>7, <2>3, ConstantsOK DEF IInv, Supports, Messages
    <3> QED  BY <1>0, <1>1, <1>7, <2>3, <3>1 DEF can_vote
  <2>4. CASE /\ m.type = "Vote" /\ current_term'[n] = current_term[n]
             /\ net' = (net \ {m}) \cup ToPeers(n, "AppendEntries", current_term[n])
    <3>1. current_term'[l] = 1
      BY <1>1, <1>7, <2>4 DEF IInv, Messages
    <3>2. Hears(l, p)'
      BY <1>0, <1>2, <1>7, <2>4, PeersAre DEF Hears
    <3> QED  BY <3>1, <3>2 DEF Following
  <2> QED  BY <1>1, <1>7, <2>2, <2>3, <2>4 DEF MessageStep
<1> QED  BY <1>5, <1>6, <1>7

LEMMA NextInTime == IInv /\ [Next]_vars => InTime'
<1> SUFFICES ASSUME IInv, [Next]_vars PROVE InTime'
  OBVIOUS
<1>0. Types /\ InTime
  BY DEF IInv
<1>1. ASSUME NEW n \in Node, Crash(n) PROVE InTime'
  BY <1>0, <1>1 DEF Crash, core, InTime, Following, Heard, Hears, Tick
<1>2. ASSUME NEW d \in Dice, EndRound(d) PROVE InTime'
  <2> SUFFICES ASSUME NEW l \in up, NEW p \in up, state[l] = "Leader", state[p] # "Leader"
               PROVE  Following(l, p)'
    BY <1>2 DEF InTime, EndRound
  <2>1. l \in Node /\ p \in Node
    BY <1>0 DEF Types
  <2>2. Tick(l) = 1 /\ Tick(p) = 1 /\ ~Hears(l, p) /\ Tick(l)' = 0 /\ Tick(p)' = 0
    BY <1>2 DEF EndRound, RoundIsOver, Tick, Hears
  <2>3. ticks_since_last_heartbeat[p] <= ticks_since_last_heartbeat[l] + (1 - 1) + 1
    BY <1>0, <2>2 DEF InTime, Following, Heard
  <2>4. /\ ticks_since_last_heartbeat[l] < heartbeat_interval /\ heartbeat_interval \in Nat
        /\ ticks_since_last_heartbeat[l] \in Nat /\ ticks_since_last_heartbeat[p] \in Nat
    BY <1>0, <2>1, NodeIs DEF IInv, Clocks
  <2>5. ticks_since_last_heartbeat' = ticks_since_last_heartbeat
    BY <1>2 DEF EndRound
  <2>6. Heard(l, p)'
    BY <2>2, <2>3, <2>4, <2>5 DEF Heard
  <2>7. ticks_since_last_heartbeat'[p] <= heartbeat_interval + Tick(p)'
    BY <2>2, <2>3, <2>4, <2>5
  <2> QED  BY <2>6, <2>7 DEF Following
<1>3. CASE UNCHANGED vars
  BY <1>0, <1>3 DEF vars, core, InTime, Following, Heard, Hears, Tick
<1> QED  BY <1>0, <1>1, <1>2, <1>3, NextIs, TickInTime, MessageInTime

LEMMA Invariance == Spec => []IInv
<1>1. IInv /\ [Next]_vars => IInv'
  BY NextTypes, NextMessages, NextSpreads, NextClocks, NextSupports, NextReigns, NextInTime DEF IInv
<1> QED  BY <1>1, InitIInv, PTL DEF Spec

-----------------------------------------------------------------------------
(***************************************************************************)
(* The theorems.                                                           *)
(***************************************************************************)
\* Roles, terms, votes and timers keep their types, a timer that has run out
\* has led to an election, and when a round is over all nodes that are up are
\* in one term: check_msg_term brings the round's only new term to everybody,
\* crashes of its candidates notwithstanding.
THEOREM TypeCorrectness == Spec => []TypeOK
<1>1. IInv => TypeOK
  <2> SUFFICES ASSUME IInv PROVE TypeOK
    OBVIOUS
  <2>1. Types /\ Clocks /\ Spreads
    BY DEF IInv
  <2>2. current_term \in [Node -> 0 .. Cardinality(Node)]
    <3>1. ASSUME NEW n \in Node PROVE 1 <= Cardinality(Node) /\ Cardinality(Node) \in Nat
      BY TimerAssumption, FS_CardinalityType, FS_EmptySet
    <3>2. \A n \in Node : current_term[n] \in 0 .. Cardinality(Node)
      BY <2>1, <3>1 DEF Types
    <3> QED  BY <2>1, <3>2 DEF Types
  <2>3. ASSUME RoundIsOver, NEW n \in up, NEW p \in up PROVE current_term[n] = current_term[p]
    <3>1. n \in Node /\ p \in Node /\ current_term[n] \in 0 .. 1 /\ current_term[p] \in 0 .. 1
      BY <2>1 DEF Types
    <3>2. (\E q \in Node : current_term[q] = 1) => current_term[n] = 1 /\ current_term[p] = 1
      BY <2>1, <2>3 DEF Spreads, RoundIsOver
    <3> QED  BY <3>1, <3>2
  <2>4. \A n \in up : state[n] # "Leader" => ticks_since_last_heartbeat[n] < election_timeout[n]
    BY <2>1 DEF Clocks
  <2> QED  BY <2>1, <2>2, <2>3, <2>4 DEF TypeOK, Types
<1> QED  BY <1>1, Invariance, PTL

\* Nobody takes the lead from a leader that is up, whatever the timers draw
\* and whoever crashes: with timeouts of more than a heartbeat and a tick, every
\* follower hears from its leader before its timer runs out.
THEOREM LeadersStay == Spec => LeaderIsUndisturbed
<1> DEFINE Undisturbed == \A n \in up : state[n] = "Leader" => state'[n] = "Leader" \/ n \notin up'
<1>1. IInv /\ [Next]_vars => [Undisturbed]_vars
  <2> SUFFICES ASSUME IInv, [Next]_vars, NEW l \in up, state[l] = "Leader", l \in up',
                      state'[l] # "Leader"
               PROVE  FALSE
    BY DEF Undisturbed
  <2>0. Types /\ l \in Node
    BY DEF IInv, Types
  <2>1. ASSUME NEW n \in Node, TickStep(n) PROVE FALSE
    BY <2>0, <2>1 DEF TickStep, Others, Stays
  <2>2. ASSUME NEW m \in net, MessageStep(m, m.to) PROVE FALSE
    <3>1. l = m.to /\ later(m)
      BY <2>0, <2>2 DEF MessageStep, Others, Stays
    <3>2. m.term \in 0 .. 1 /\ current_term[l] \in 0 .. 1 /\ m.term > current_term[l]
      BY <2>0, <3>1, MessageIs DEF Types, later
    <3>3. current_term[l] = 0 /\ m.term = 1
      BY <3>2
    <3>4. m.term = 0
      BY <3>3, NothingLater
    <3> QED  BY <3>3, <3>4
  <2>3. ASSUME NEW n \in Node, Crash(n) PROVE FALSE
    BY <2>3 DEF Crash, core
  <2>4. ASSUME NEW d \in Dice, EndRound(d) PROVE FALSE
    BY <2>4 DEF EndRound
  <2>5. CASE UNCHANGED vars
    BY <2>5 DEF vars, core
  <2> QED  BY <2>0, <2>1, <2>2, <2>3, <2>4, <2>5, NextIs
<1>2. LeaderIsUndisturbed <=> [][Undisturbed]_vars
  BY DEF LeaderIsUndisturbed
<1> HIDE DEF Undisturbed
<1> QED  BY <1>1, <1>2, Invariance, PTL DEF Spec


=============================================================================
