------------------------------ MODULE Network -------------------------------
(***************************************************************************)
(* What one node may rely on when it sends to one peer: a message that was *)
(* handed over may be lost, may be late and may overtake another one, and  *)
(* is given to the peer at most once.  Nothing is made up.                 *)
(*                                                                         *)
(* Messages are numbered in the order in which they are handed over.  This *)
(* is the network of module Cluster without Duplicates, for one pair of    *)
(* nodes; module TcpTransport implements it.                               *)
(***************************************************************************)
EXTENDS Naturals, Sequences

VARIABLES
    sent,       \* messages 1 .. sent have been handed over
    inflight,   \* those that may still arrive
    received    \* those that have arrived, in the order of arrival

vars == <<sent, inflight, received>>

Init == sent = 0 /\ inflight = {} /\ received = << >>

Send ==
    /\ sent' = sent + 1
    /\ inflight' = inflight \cup {sent + 1}
    /\ UNCHANGED received

Deliver(m) ==
    /\ inflight' = inflight \ {m}
    /\ received' = Append(received, m)
    /\ UNCHANGED sent

Lose(S) ==
    /\ inflight' = inflight \ S
    /\ UNCHANGED <<sent, received>>

Next ==
    \/ Send
    \/ \E m \in inflight : Deliver(m)
    \/ \E S \in SUBSET inflight : Lose(S)

Spec == Init /\ [][Next]_vars

=============================================================================
