---------------------------- MODULE TcpTransport ----------------------------
(***************************************************************************)
(* crates/raft-tcp-transport: what happens between Transport::send on one  *)
(* node and Transport::recv on one of its peers.                           *)
(*                                                                         *)
(* On the node, a sender task owns the channel rx, an optional connection, *)
(* one pending message and a reconnect timer.  On the peer, the listener   *)
(* starts a task for every connection it accepts, and every such task      *)
(* pipes the frames it reads into the one receiver channel.                *)
(*                                                                         *)
(* TCP itself is external: a connection delivers what was written to it in *)
(* order, until it breaks.  A write to a connection that has broken fails, *)
(* or is accepted by the kernel and lost; a write that fails has not put a *)
(* whole frame on the wire, because Framed::send returns Ok as soon as the *)
(* last byte is written.  A frame cut short is never read as a message.    *)
(*                                                                         *)
(* Messages are numbered in the order of the calls of send.  All of them   *)
(* serialise, so the two `continue's after postcard's errors are not       *)
(* reached.                                                                *)
(***************************************************************************)
EXTENDS Naturals, Sequences

CONSTANTS
    MIN_BACKOFF, MAX_BACKOFF,   \* in units of 10 ms
    MaxSends,   \* bound on calls of send
    MaxFaults   \* bound on failed attempts, broken connections, stops of the peer

ASSUME TransportAssumption ==
    /\ {MIN_BACKOFF, MAX_BACKOFF, MaxSends, MaxFaults} \subseteq Nat
    /\ 0 < MIN_BACKOFF /\ MIN_BACKOFF <= MAX_BACKOFF

VARIABLES
    sent,       \* number of messages handed to send
    dropped,    \* the transport is gone: its event loop has ended
    \* The sender task:
    rx,         \* the unbounded channel from send
    stream,     \* "none", "up", "broken" (not noticed yet); "ended": no task
    pending,    \* sequence of at most one message
    backoff,
    wait,       \* time left until the deadline, while there is no stream
    \* TCP and the peer:
    conn,       \* number of connections made so far, the current one included
    wire,       \* [connection -> the frames in transit on it]
    peer_up,
    receiver_rx,    \* the peer's channel of received messages
    received,   \* what the peer's recv has returned
    faults,
    lost        \* messages that were on the wire, or written, when it broke

sender == <<rx, stream, pending, backoff, wait>>
network == <<conn, wire, peer_up, receiver_rx, received, faults, lost>>
vars == <<sent, dropped, sender, network>>

Connection == 1 .. MaxFaults + 1

Elements(s) == {s[i] : i \in 1 .. Len(s)}

Init ==
    /\ sent = 0 /\ dropped = FALSE
    /\ rx = << >> /\ stream = "none" /\ pending = << >>
    /\ backoff = MIN_BACKOFF /\ wait = MIN_BACKOFF
    /\ conn = 0 /\ wire = [c \in Connection |-> << >>]
    /\ peer_up \in BOOLEAN
    /\ receiver_rx = << >> /\ received = << >> /\ faults = 0 /\ lost = {}

-----------------------------------------------------------------------------
(***************************************************************************)
(* The calls of the node's event loop.                                     *)
(***************************************************************************)
send ==
    /\ ~dropped /\ sent < MaxSends
    /\ sent' = sent + 1
    /\ rx' = Append(rx, sent + 1)
    /\ UNCHANGED <<dropped, stream, pending, backoff, wait, network>>

\* The event loop's task ends, and with it every sending half.
Drop ==
    /\ ~dropped
    /\ dropped' = TRUE
    /\ UNCHANGED <<sent, sender, network>>

-----------------------------------------------------------------------------
(***************************************************************************)
(* The sender task without a connection.  The deadline is set when the     *)
(* connection is lost and by a failed attempt; a message does not move it. *)
(***************************************************************************)
Elapse ==
    /\ stream = "none" /\ wait > 0
    /\ wait' = wait - 1
    /\ UNCHANGED <<sent, dropped, rx, stream, pending, backoff, network>>

\* The first message is kept instead of the most recent one.
Mutant_KeepMostRecent ==
    /\ stream = "none" /\ rx # << >>
    /\ pending' = IF pending = << >> THEN <<Head(rx)>> ELSE pending
    /\ rx' = Tail(rx)
    /\ UNCHANGED <<sent, dropped, stream, backoff, wait, network>>

\* Only the most recent message is kept.
KeepMostRecent ==
    /\ stream = "none" /\ rx # << >>
    /\ pending' = <<Head(rx)>>
    /\ rx' = Tail(rx)
    /\ UNCHANGED <<sent, dropped, stream, backoff, wait, network>>

Connect ==
    /\ stream = "none" /\ wait = 0 /\ peer_up
    /\ stream' = "up"
    /\ backoff' = MIN_BACKOFF
    /\ conn' = conn + 1
    /\ UNCHANGED <<sent, dropped, rx, pending, wait, wire, peer_up, receiver_rx,
                   received, faults, lost>>

\* The backoff has no upper bound.
Mutant_ConnectFails ==
    /\ stream = "none" /\ wait = 0
    /\ \/ ~peer_up /\ UNCHANGED faults
       \/ peer_up /\ faults < MaxFaults /\ faults' = faults + 1
    /\ backoff' = 2 * backoff /\ wait' = 2 * backoff
    /\ UNCHANGED <<sent, dropped, rx, stream, pending, conn, wire, peer_up,
                   receiver_rx, received, lost>>

\* Refused, or no answer within CONNECT_TIMEOUT.
ConnectFails ==
    LET doubled == IF 2 * backoff < MAX_BACKOFF THEN 2 * backoff ELSE MAX_BACKOFF
    IN  /\ stream = "none" /\ wait = 0
        /\ \/ ~peer_up /\ UNCHANGED faults
           \/ peer_up /\ faults < MaxFaults /\ faults' = faults + 1
        /\ backoff' = doubled /\ wait' = doubled
        /\ UNCHANGED <<sent, dropped, rx, stream, pending, conn, wire, peer_up,
                       receiver_rx, received, lost>>

(***************************************************************************)
(* The sender task with a connection: the pending message first, then the  *)
(* select! of the channel and of the end of the connection.                *)
(***************************************************************************)
Disconnected == stream' = "none" /\ wait' = backoff

\* s.send(buf) returns Ok for message m.
Written(m) ==
    /\ UNCHANGED <<conn, peer_up, receiver_rx, received, faults>>
    /\ \/ /\ stream = "up"
          /\ wire' = [wire EXCEPT ![conn] = Append(@, m)]
          /\ UNCHANGED lost
       \/ /\ stream = "broken"
          /\ lost' = lost \cup {m}
          /\ UNCHANGED wire

\* pending is written but not taken.
Mutant_WritePending ==
    /\ stream \in {"up", "broken"} /\ pending # << >>
    /\ Written(Head(pending))
    /\ UNCHANGED <<sent, dropped, sender>>

WritePending ==
    /\ stream \in {"up", "broken"} /\ pending # << >>
    /\ Written(Head(pending))
    /\ pending' = << >>
    /\ UNCHANGED <<sent, dropped, rx, stream, backoff, wait>>

WritePendingFails ==
    /\ stream = "broken" /\ pending # << >>
    /\ Disconnected
    /\ UNCHANGED <<sent, dropped, rx, pending, backoff, network>>

\* New messages do not wait for the pending one.
Mutant_WriteNext ==
    /\ stream \in {"up", "broken"} /\ rx # << >>
    /\ Written(Head(rx))
    /\ rx' = Tail(rx)
    /\ UNCHANGED <<sent, dropped, stream, pending, backoff, wait>>

WriteNext ==
    /\ stream \in {"up", "broken"} /\ pending = << >> /\ rx # << >>
    /\ Written(Head(rx))
    /\ rx' = Tail(rx)
    /\ UNCHANGED <<sent, dropped, stream, pending, backoff, wait>>

\* A failed write does not save the message.
Mutant_WriteNextFails ==
    /\ stream = "broken" /\ pending = << >> /\ rx # << >>
    /\ rx' = Tail(rx)
    /\ Disconnected
    /\ UNCHANGED <<sent, dropped, pending, backoff, network>>

WriteNextFails ==
    /\ stream = "broken" /\ pending = << >> /\ rx # << >>
    /\ pending' = <<Head(rx)>>
    /\ rx' = Tail(rx)
    /\ Disconnected
    /\ UNCHANGED <<sent, dropped, backoff, network>>

\* The end of the connection is seen only by a failing write.
Mutant_NoticeEnd == FALSE /\ UNCHANGED vars

\* s.next() returns: the peer has closed the connection, or it was reset.
NoticeEnd ==
    /\ stream = "broken" /\ pending = << >>
    /\ Disconnected
    /\ UNCHANGED <<sent, dropped, rx, pending, backoff, network>>

\* rx is closed and empty: the task ends and closes its connection.
Stop ==
    /\ dropped /\ rx = << >>
    /\ stream \in {"none", "up", "broken"}
    /\ stream # "none" => pending = << >>
    /\ stream' = "ended"
    /\ UNCHANGED <<sent, dropped, rx, pending, backoff, wait, network>>

-----------------------------------------------------------------------------
(***************************************************************************)
(* The peer.  Every accepted connection has a task that reads until the    *)
(* connection ends; what it has read stays in order, but the tasks of two  *)
(* connections are not synchronised.                                       *)
(***************************************************************************)
Pipe(c) ==
    /\ peer_up /\ wire[c] # << >>
    /\ receiver_rx' = Append(receiver_rx, Head(wire[c]))
    /\ wire' = [wire EXCEPT ![c] = Tail(@)]
    /\ UNCHANGED <<sent, dropped, sender, conn, peer_up, received, faults, lost>>

recv ==
    /\ peer_up /\ receiver_rx # << >>
    /\ received' = Append(received, Head(receiver_rx))
    /\ receiver_rx' = Tail(receiver_rx)
    /\ UNCHANGED <<sent, dropped, sender, conn, wire, peer_up, faults, lost>>

\* The connection breaks, or the peer closes it.  The peer's task may still
\* read some of what is in transit.
Break ==
    /\ faults < MaxFaults /\ stream = "up"
    /\ faults' = faults + 1
    /\ stream' = "broken"
    /\ \E k \in 0 .. Len(wire[conn]) :
          /\ wire' = [wire EXCEPT ![conn] = SubSeq(@, 1, k)]
          /\ lost' = lost \cup Elements(SubSeq(wire[conn], k + 1, Len(wire[conn])))
    /\ UNCHANGED <<sent, dropped, rx, pending, backoff, wait, conn, peer_up,
                   receiver_rx, received>>

\* The peer's process ends, with all it has read and not handled.
PeerStops ==
    /\ faults < MaxFaults /\ peer_up
    /\ faults' = faults + 1
    /\ peer_up' = FALSE
    /\ stream' = IF stream = "up" THEN "broken" ELSE stream
    /\ wire' = [c \in Connection |-> << >>]
    /\ receiver_rx' = << >>
    /\ lost' = lost \cup Elements(receiver_rx)
                    \cup UNION {Elements(wire[c]) : c \in Connection}
    /\ UNCHANGED <<sent, dropped, rx, pending, backoff, wait, conn, received>>

PeerStarts ==
    /\ ~peer_up
    /\ peer_up' = TRUE
    /\ UNCHANGED <<sent, dropped, sender, conn, wire, receiver_rx, received, faults, lost>>

SenderTask ==
    \/ Elapse \/ KeepMostRecent \/ Connect \/ ConnectFails
    \/ WritePending \/ WritePendingFails \/ WriteNext \/ WriteNextFails
    \/ NoticeEnd \/ Stop

Next ==
    \/ send \/ Drop
    \/ SenderTask
    \/ \E c \in Connection : Pipe(c)
    \/ recv
    \/ Break \/ PeerStops \/ PeerStarts

(***************************************************************************)
(* A tokio task that can run does run, a connection delivers, and a node   *)
(* that has stopped is started again (the deployment's restart policy).    *)
(* Nothing makes the event loop send, or faults happen.                    *)
(***************************************************************************)
Fairness ==
    /\ WF_vars(SenderTask)
    /\ \A c \in Connection : WF_vars(Pipe(c))
    /\ WF_vars(recv)
    /\ WF_vars(PeerStarts)

Spec == Init /\ [][Next]_vars /\ Fairness

-----------------------------------------------------------------------------
Message == 1 .. MaxSends

InTransit ==
    Elements(rx) \cup Elements(pending) \cup Elements(receiver_rx)
        \cup UNION {Elements(wire[c]) : c \in Connection}

\* Type invariant of the transport; in particular the backoff stays between
\* its two bounds, and every connection but the first follows a fault.
TypeOK ==
    /\ sent \in 0 .. MaxSends /\ dropped \in BOOLEAN
    /\ rx \in Seq(Message) /\ pending \in Seq(Message) /\ Len(pending) <= 1
    /\ stream \in {"none", "up", "broken", "ended"}
    /\ backoff \in MIN_BACKOFF .. MAX_BACKOFF /\ wait \in 0 .. MAX_BACKOFF
    /\ faults \in 0 .. MaxFaults /\ conn \in 0 .. faults + 1
    /\ stream \in {"none", "broken"} => conn <= faults
    /\ stream = "up" => conn > 0
    /\ wire \in [Connection -> Seq(Message)]
    /\ peer_up \in BOOLEAN
    /\ receiver_rx \in Seq(Message) /\ received \in Seq(Message)
    /\ lost \subseteq Message

\* "we only store the most recent item from the channel as that is all that's
\* needed": whatever the connection does, the newest message has arrived, is
\* on its way, or was lost on the wire.  The sender task itself drops it only
\* when the whole transport is dropped.
NewestIsKept ==
    sent > 0 /\ stream # "ended" =>
        sent \in InTransit \cup lost \cup Elements(received)

\* From send to the reader at the other end of a connection no message
\* overtakes an older one, failed writes and reconnects included.  Only the
\* readers of two connections may overtake each other.
NeverOvertaken ==
    /\ \A c \in Connection : \A i, j \in 1 .. Len(wire[c]) :
          i < j => wire[c][i] < wire[c][j]
    /\ LET path == (IF conn = 0 THEN << >> ELSE wire[conn]) \o pending \o rx
       IN  \A i, j \in 1 .. Len(path) : i < j => path[i] < path[j]

\* The transport gives the cluster the abstract network: nothing arrives
\* twice, although a message whose write has failed is written again.
Net == INSTANCE Network WITH inflight <- InTransit

NetworkSpec == Net!Spec

\* Once the faults are over the sender has a connection again and keeps it,
\* also when the event loop has nothing to send: the loop watches the
\* connection as well as the channel.
Reconnects == <>[](stream = "up" \/ dropped)

\* The last message handed over arrives, if it was not on the wire when the
\* connection broke: reconnecting goes on until it succeeds.
LastMessageArrives ==
    \A m \in Message :
        sent = m ~> \/ m \in Elements(received) \cup lost
                    \/ sent > m \/ dropped

=============================================================================
