--------------------------- MODULE ReplicatedLog ----------------------------
(***************************************************************************)
(* What the cluster promises to its applications: one sequence of commands *)
(* that only grows, of which every application is given a prefix, command  *)
(* by command, and from the start again after a restart.  A command that   *)
(* has been acknowledged to its client is in the sequence.                 *)
(*                                                                         *)
(* Module Cluster implements it.  Module KvNode is one application, built  *)
(* on this promise.                                                        *)
(***************************************************************************)
EXTENDS Sequences, SequencesExt

CONSTANT Replica

VARIABLES
    chosen,     \* the commands, in their order
    delivered,  \* [Replica -> the commands its application has been given]
    acked       \* the commands that have been acknowledged

vars == <<chosen, delivered, acked>>

Init ==
    /\ chosen = << >>
    /\ delivered = [r \in Replica |-> << >>]
    /\ acked = {}

\* A replica hears of more of the sequence, which it may itself extend, and
\* acknowledges what is in it.
Advance(r) ==
    /\ IsPrefix(chosen, chosen')
    /\ delivered' = [delivered EXCEPT ![r] = delivered'[r]]
    /\ IsPrefix(delivered[r], delivered'[r])
    /\ IsPrefix(delivered'[r], chosen')
    /\ acked \subseteq acked' /\ acked' \subseteq Range(chosen')

Restart(r) ==
    /\ delivered' = [delivered EXCEPT ![r] = << >>]
    /\ UNCHANGED <<chosen, acked>>

Next == \E r \in Replica : Advance(r) \/ Restart(r)

Spec == Init /\ [][Next]_vars

=============================================================================
