----------------------------- MODULE MCCluster ------------------------------
(***************************************************************************)
(* Instances of Cluster for TLC: the symmetry sets, and the view of the    *)
(* runs with InSessionOnly and LeadersOnly.                                *)
(***************************************************************************)
EXTENDS Cluster, TLC

\* No operator tells one node or one command from another.
Symmetry == Permutations(Node) \cup Permutations(Command)

\* The part of a core that later steps depend on when no late response is
\* delivered and requests of a node that is not leader are lost: only a
\* candidate uses votes_received, only a leader next_index and match_index,
\* and nobody current_leader.
LiveCore(n) ==
    [core[n] EXCEPT
        !.current_leader = None,
        !.votes_received = IF core[n].state = Candidate THEN @ ELSE {},
        !.next_index  = IF is_leader(core[n]) THEN @ ELSE None,
        !.match_index = IF is_leader(core[n]) THEN @ ELSE None]

\* `votes' is left out too: it is not read, and no property of those runs
\* is about it.
InSessionView ==
    <<[n \in Node |-> LiveCore(n)], disk, driver, net, panicked, crashes,
      leaders, committed, acked, proposed, reads>>

=============================================================================
