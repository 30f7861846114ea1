------------------------ MODULE TcpTransport_proofs -------------------------
(***************************************************************************)
(* Theorems about TcpTransport, for every bound on messages, faults and    *)
(* backoff: type correctness, the order of messages, that the newest one   *)
(* is kept, and that the transport implements module Network.              *)
(***************************************************************************)
EXTENDS TcpTransport, SequenceTheorems, TLAPS

Stepping ==
    \/ send \/ Drop \/ Elapse \/ KeepMostRecent \/ Connect \/ ConnectFails
    \/ WritePending \/ WritePendingFails \/ WriteNext \/ WriteNextFails
    \/ NoticeEnd \/ Stop \/ (\E c \in Connection : Pipe(c)) \/ recv
    \/ Break \/ PeerStops \/ PeerStarts

\* Next, flat: one disjunct for every step of the transport.
LEMMA FlatNext == Next <=> Stepping
  BY DEF Next, SenderTask, Stepping

-----------------------------------------------------------------------------
(***************************************************************************)
(* Type correctness.                                                       *)
(***************************************************************************)
LEMMA ConstantsOK ==
    /\ MIN_BACKOFF \in Nat /\ MAX_BACKOFF \in Nat
    /\ MaxSends \in Nat /\ MaxFaults \in Nat
    /\ 0 < MIN_BACKOFF /\ MIN_BACKOFF <= MAX_BACKOFF
  BY TransportAssumption

LEMMA ElementsType ==
    ASSUME NEW T, NEW s \in Seq(T)
    PROVE  Elements(s) \subseteq T
  BY DEF Elements

\* The sequence operations the tasks use, as facts about the elements.
LEMMA ElementsOfAppend ==
    ASSUME NEW T, NEW s \in Seq(T), NEW x \in T
    PROVE  Elements(Append(s, x)) = Elements(s) \cup {x}
  <1>1. Len(Append(s, x)) = Len(s) + 1 /\ Len(s) \in Nat
    OBVIOUS
  <1>2. \A i \in 1 .. Len(s) : Append(s, x)[i] = s[i]
    OBVIOUS
  <1>3. Append(s, x)[Len(s) + 1] = x
    OBVIOUS
  <1>4. 1 .. Len(s) + 1 = (1 .. Len(s)) \cup {Len(s) + 1}
    BY <1>1
  <1> QED  BY <1>1, <1>2, <1>3, <1>4 DEF Elements

LEMMA TailFacts ==
    ASSUME NEW T, NEW s \in Seq(T), s # << >>
    PROVE  /\ Head(s) \in T /\ Tail(s) \in Seq(T)
           /\ Len(s) \in Nat /\ Len(s) > 0 /\ Len(Tail(s)) = Len(s) - 1
           /\ Head(s) = s[1]
           /\ \A i \in 1 .. Len(Tail(s)) : Tail(s)[i] = s[i + 1]
  BY HeadTailProperties, EmptySeq

LEMMA ElementsOfTail ==
    ASSUME NEW T, NEW s \in Seq(T), s # << >>
    PROVE  Elements(s) = {Head(s)} \cup Elements(Tail(s))
  <1>1. ASSUME NEW i \in 1 .. Len(s), i # 1
        PROVE  i - 1 \in 1 .. Len(Tail(s)) /\ s[i] = Tail(s)[i - 1]
    <2>1. i - 1 \in 1 .. Len(Tail(s)) /\ (i - 1) + 1 = i
      BY <1>1, TailFacts
    <2> QED  BY <2>1, TailFacts
  <1>2. \A i \in 1 .. Len(Tail(s)) : i + 1 \in 1 .. Len(s) /\ Tail(s)[i] = s[i + 1]
    BY TailFacts
  <1>3. 1 \in 1 .. Len(s) /\ Head(s) = s[1]
    BY TailFacts
  <1> QED  BY <1>1, <1>2, <1>3 DEF Elements

LEMMA ElementsOfPrefix ==
    ASSUME NEW T, NEW s \in Seq(T), NEW k \in 0 .. Len(s)
    PROVE  /\ SubSeq(s, 1, k) \in Seq(T) /\ Len(SubSeq(s, 1, k)) = k
           /\ \A i \in 1 .. k : SubSeq(s, 1, k)[i] = s[i]
           /\ SubSeq(s, k + 1, Len(s)) \in Seq(T)
           /\ Elements(s) = Elements(SubSeq(s, 1, k)) \cup Elements(SubSeq(s, k + 1, Len(s)))
  <1>1. /\ SubSeq(s, 1, k) \in Seq(T) /\ Len(SubSeq(s, 1, k)) = k
        /\ \A i \in 1 .. k : SubSeq(s, 1, k)[i] = s[i]
    OBVIOUS
  <1>2. /\ SubSeq(s, k + 1, Len(s)) \in Seq(T)
        /\ Len(SubSeq(s, k + 1, Len(s))) = Len(s) - k
        /\ \A i \in 1 .. Len(s) - k : SubSeq(s, k + 1, Len(s))[i] = s[k + i]
    OBVIOUS
  <1>3. \A i \in 1 .. Len(s) : \/ i \in 1 .. k
                               \/ i - k \in 1 .. Len(s) - k /\ i = k + (i - k)
    OBVIOUS
  <1>4. \A i \in 1 .. Len(s) - k : k + i \in 1 .. Len(s)
    OBVIOUS
  <1>5. \A i \in 1 .. k : i \in 1 .. Len(s)
    OBVIOUS
  <1> DEFINE a == SubSeq(s, 1, k)
             b == SubSeq(s, k + 1, Len(s))
  <1>6. ASSUME NEW i \in 1 .. Len(s) PROVE s[i] \in Elements(a) \cup Elements(b)
    <2>1. CASE i \in 1 .. k
      BY <1>1, <2>1 DEF Elements
    <2>2. CASE i - k \in 1 .. Len(s) - k /\ i = k + (i - k)
      <3>1. b[i - k] = s[i] /\ Len(b) = Len(s) - k
        BY <1>2, <2>2
      <3> QED  BY <2>2, <3>1 DEF Elements
    <2> QED  BY <1>3, <2>1, <2>2
  <1>7. Elements(a) \subseteq Elements(s)
    BY <1>1, <1>5 DEF Elements
  <1>8. Elements(b) \subseteq Elements(s)
    BY <1>2, <1>4 DEF Elements
  <1>9. Elements(s) \subseteq Elements(a) \cup Elements(b)
    <2> HIDE DEF a, b
    <2> QED  BY <1>6 DEF Elements
  <1> HIDE DEF a, b
  <1>10. Elements(s) = Elements(a) \cup Elements(b)
    BY <1>7, <1>8, <1>9
  <1> QED  BY <1>1, <1>2, <1>10 DEF a, b

LEMMA ElementsOfEmpty == Elements(<< >>) = {}
  BY DEF Elements

LEMMA ElementsOfOne == \A x : Elements(<<x>>) = {x}
  BY DEF Elements

\* Writing a message keeps its connection's frames well typed.
LEMMA WrittenType ==
    ASSUME TypeOK, NEW m \in Message, Written(m)
    PROVE  /\ wire' \in [Connection -> Seq(Message)] /\ lost' \subseteq Message
           /\ UNCHANGED <<conn, peer_up, receiver_rx, received, faults>>
  <1>1. CASE stream = "up"
    <2>1. conn \in Connection /\ wire[conn] \in Seq(Message)
      BY <1>1, ConstantsOK DEF TypeOK, Connection
    <2>2. Append(wire[conn], m) \in Seq(Message)
      BY <2>1
    <2> QED  BY <1>1, <2>1, <2>2 DEF TypeOK, Written
  <1>2. CASE stream = "broken"
    BY <1>2 DEF TypeOK, Written
  <1> QED  BY <1>1, <1>2 DEF Written

LEMMA InitType == Init => TypeOK
  <1>1. << >> \in Seq(Message) /\ Len(<< >>) = 0
    OBVIOUS
  <1>2. MIN_BACKOFF \in MIN_BACKOFF .. MAX_BACKOFF /\ MIN_BACKOFF \in 0 .. MAX_BACKOFF
        /\ 0 \in 0 .. MaxSends /\ 0 \in 0 .. MaxFaults /\ 0 \in 0 .. 0 + 1
    BY ConstantsOK
  <1> SUFFICES ASSUME Init PROVE TypeOK
    OBVIOUS
  <1>3. wire \in [Connection -> Seq(Message)]
    BY <1>1 DEF Init
  <1>4. /\ sent \in 0 .. MaxSends
        /\ backoff \in MIN_BACKOFF .. MAX_BACKOFF /\ wait \in 0 .. MAX_BACKOFF
        /\ faults \in 0 .. MaxFaults /\ conn \in 0 .. faults + 1
        /\ stream \in {"none", "broken"} => conn <= faults
        /\ stream = "up" => conn > 0
    BY <1>2 DEF Init
  <1>5. Len(pending) <= 1
    BY <1>1 DEF Init
  <1>6. dropped \in BOOLEAN /\ peer_up \in BOOLEAN
    BY DEF Init
  <1>7. lost \subseteq Message
    BY DEF Init
  <1> QED  BY <1>1, <1>3, <1>4, <1>5, <1>6, <1>7 DEF Init, TypeOK

LEMMA NextType == TypeOK /\ [Next]_vars => TypeOK'
  <1> SUFFICES ASSUME TypeOK, [Next]_vars PROVE TypeOK'
    OBVIOUS
  <1> USE ConstantsOK
  <1>1. CASE send
    <2>1. sent + 1 \in Message
      BY <1>1 DEF send, TypeOK, Message
    <2> QED  BY <1>1, <2>1 DEF send, TypeOK, sender, network
  <1>2. CASE Drop
    BY <1>2 DEF Drop, TypeOK, sender, network
  <1>3. CASE Elapse
    BY <1>3 DEF Elapse, TypeOK, network
  <1>4. CASE KeepMostRecent
    BY <1>4, TailFacts DEF KeepMostRecent, TypeOK, network
  <1>5. CASE Connect
    BY <1>5 DEF Connect, TypeOK
  <1>6. CASE ConnectFails
    BY <1>6 DEF ConnectFails, TypeOK
  <1>7. CASE WritePending
    <2>1. Head(pending) \in Message
      BY <1>7, TailFacts DEF WritePending, TypeOK
    <2> QED  BY <1>7, <2>1, WrittenType DEF WritePending, TypeOK
  <1>8. CASE WritePendingFails
    BY <1>8 DEF WritePendingFails, Disconnected, TypeOK, network
  <1>9. CASE WriteNext
    <2>1. Head(rx) \in Message /\ Tail(rx) \in Seq(Message)
      BY <1>9, TailFacts DEF WriteNext, TypeOK
    <2> QED  BY <1>9, <2>1, WrittenType DEF WriteNext, TypeOK
  <1>10. CASE WriteNextFails
    BY <1>10, TailFacts DEF WriteNextFails, Disconnected, TypeOK, network
  <1>11. CASE NoticeEnd
    BY <1>11 DEF NoticeEnd, Disconnected, TypeOK, network
  <1>12. CASE Stop
    BY <1>12 DEF Stop, TypeOK, network
  <1>13. ASSUME NEW c \in Connection, Pipe(c) PROVE TypeOK'
    <2>1. Head(wire[c]) \in Message /\ Tail(wire[c]) \in Seq(Message)
      BY <1>13, TailFacts DEF Pipe, TypeOK
    <2> QED  BY <1>13, <2>1 DEF Pipe, TypeOK, sender
  <1>14. CASE recv
    <2>1. Head(receiver_rx) \in Message /\ Tail(receiver_rx) \in Seq(Message)
      BY <1>14, TailFacts DEF recv, TypeOK
    <2> QED  BY <1>14, <2>1 DEF recv, TypeOK, sender
  <1>15. CASE Break
    <2>1. PICK k \in 0 .. Len(wire[conn]) :
             /\ wire' = [wire EXCEPT ![conn] = SubSeq(@, 1, k)]
             /\ lost' = lost \cup Elements(SubSeq(wire[conn], k + 1, Len(wire[conn])))
      BY <1>15 DEF Break
    <2>2. conn \in Connection /\ wire[conn] \in Seq(Message)
      BY <1>15 DEF Break, TypeOK, Connection
    <2>3. SubSeq(wire[conn], 1, k) \in Seq(Message)
          /\ SubSeq(wire[conn], k + 1, Len(wire[conn])) \in Seq(Message)
      BY <2>2, ElementsOfPrefix
    <2>4. wire' \in [Connection -> Seq(Message)] /\ lost' \subseteq Message
      BY <2>1, <2>2, <2>3, ElementsType DEF TypeOK
    <2> QED  BY <1>15, <2>4 DEF Break, TypeOK
  <1>16. CASE PeerStops
    <2>1. Elements(receiver_rx) \subseteq Message
          /\ \A c \in Connection : Elements(wire[c]) \subseteq Message
      BY ElementsType DEF TypeOK
    <2>2. lost' \subseteq Message
      BY <1>16, <2>1 DEF PeerStops, TypeOK
    <2>3. << >> \in Seq(Message) /\ wire' \in [Connection -> Seq(Message)]
      BY <1>16 DEF PeerStops
    <2>4. stream' \in {"none", "up", "broken", "ended"} /\ faults' \in 0 .. MaxFaults
          /\ conn' \in 0 .. faults' + 1
          /\ (stream' \in {"none", "broken"} => conn' <= faults')
          /\ (stream' = "up" => conn' > 0)
      BY <1>16 DEF PeerStops, TypeOK
    <2> QED  BY <1>16, <2>2, <2>3, <2>4 DEF PeerStops, TypeOK
  <1>17. CASE PeerStarts
    BY <1>17 DEF PeerStarts, TypeOK, sender
  <1>18. CASE UNCHANGED vars
    BY <1>18 DEF vars, sender, network, TypeOK
  <1> QED
    BY <1>1, <1>2, <1>3, <1>4, <1>5, <1>6, <1>7, <1>8, <1>9, <1>10, <1>11, <1>12,
       <1>13, <1>14, <1>15, <1>16, <1>17, <1>18, FlatNext DEF Stepping

\* The transport is well typed: the backoff stays between its bounds, at most
\* one message is pending, and every connection but the first follows a fault.
THEOREM TypeCorrectness == Spec => []TypeOK
  BY InitType, NextType, PTL DEF Spec
-----------------------------------------------------------------------------
(***************************************************************************)
(* The order of messages.  Neither NeverOvertaken nor NewestIsKept is      *)
(* inductive.  What makes them so is where every message is, by age: what  *)
(* the peer has not read from an older connection is older than what is on *)
(* a newer one, that is older than the pending message, and that is older  *)
(* than the channel.  A connection not made yet carries nothing.           *)
(***************************************************************************)
Ordered(s) == \A i, j \in 1 .. Len(s) : i < j => s[i] < s[j]

Below(S, T) == \A x \in S, y \in T : x < y

Distinct(s) == \A i, j \in 1 .. Len(s) : s[i] = s[j] => i = j

WireInv ==
    /\ \A c \in Connection : c > conn => wire[c] = << >>
    /\ \A c \in Connection : Ordered(wire[c])
    /\ \A c, d \in Connection : c < d => Below(Elements(wire[c]), Elements(wire[d]))

QueueInv ==
    /\ Ordered(rx)
    /\ Below(Elements(pending), Elements(rx))
    /\ \A c \in Connection : Below(Elements(wire[c]), Elements(pending) \cup Elements(rx))

NumberInv == \A m \in InTransit : m <= sent

\* What the peer has read is nowhere else, and is there once.
ReadInv ==
    /\ Distinct(receiver_rx)
    /\ Below(Elements(receiver_rx), Elements(pending) \cup Elements(rx))
    /\ \A c \in Connection : Elements(receiver_rx) \cap Elements(wire[c]) = {}

OrderInv == WireInv /\ QueueInv /\ NumberInv /\ ReadInv

LEMMA OrderedTail ==
    ASSUME NEW s \in Seq(Message), s # << >>, Ordered(s)
    PROVE  Ordered(Tail(s)) /\ Below({Head(s)}, Elements(Tail(s)))
  <1>1. \A i \in 1 .. Len(Tail(s)) : i + 1 \in 1 .. Len(s) /\ Tail(s)[i] = s[i + 1] /\ 1 < i + 1
    BY TailFacts
  <1>2. 1 \in 1 .. Len(s) /\ Head(s) = s[1]
    BY TailFacts
  <1>3. Below({Head(s)}, Elements(Tail(s)))
    BY <1>1, <1>2 DEF Below, Elements, Ordered
  <1>4. ASSUME NEW i \in 1 .. Len(Tail(s)), NEW j \in 1 .. Len(Tail(s)), i < j
        PROVE  Tail(s)[i] < Tail(s)[j]
    <2>1. i + 1 < j + 1
      BY <1>4
    <2> QED  BY <1>1, <2>1 DEF Ordered
  <1> QED  BY <1>3, <1>4 DEF Ordered

LEMMA OrderedAppend ==
    ASSUME NEW s \in Seq(Message), NEW x \in Message, Ordered(s), Below(Elements(s), {x})
    PROVE  Ordered(Append(s, x))
  <1>1. \A i \in 1 .. Len(s) : Append(s, x)[i] = s[i] /\ s[i] < x
    BY DEF Below, Elements
  <1>2. Append(s, x)[Len(s) + 1] = x /\ Len(Append(s, x)) = Len(s) + 1 /\ Len(s) \in Nat
    OBVIOUS
  <1>3. \A i, j \in 1 .. Len(s) + 1 :
           i < j => i \in 1 .. Len(s) /\ (j \in 1 .. Len(s) \/ j = Len(s) + 1)
    BY <1>2
  <1> QED  BY <1>1, <1>2, <1>3 DEF Ordered

LEMMA OrderedConcat ==
    ASSUME NEW s \in Seq(Message), NEW t \in Seq(Message), Ordered(s), Ordered(t),
           Below(Elements(s), Elements(t))
    PROVE  /\ s \o t \in Seq(Message) /\ Ordered(s \o t)
           /\ Elements(s \o t) \subseteq Elements(s) \cup Elements(t)
  <1>1. Len(s \o t) = Len(s) + Len(t) /\ Len(s) \in Nat /\ Len(t) \in Nat
    OBVIOUS
  <1>2. \A i \in 1 .. Len(s) : (s \o t)[i] = s[i]
    OBVIOUS
  <1>3. \A i \in 1 .. Len(s) + Len(t) : i \notin 1 .. Len(s) =>
            i - Len(s) \in 1 .. Len(t) /\ (s \o t)[i] = t[i - Len(s)]
    OBVIOUS
  <1>4. Elements(s \o t) \subseteq Elements(s) \cup Elements(t)
    <2> SUFFICES ASSUME NEW i \in 1 .. Len(s) + Len(t)
                 PROVE  (s \o t)[i] \in Elements(s) \cup Elements(t)
      BY <1>1 DEF Elements
    <2> QED  BY <1>2, <1>3 DEF Elements
  <1>5. ASSUME NEW i \in 1 .. Len(s) + Len(t), NEW j \in 1 .. Len(s) + Len(t), i < j
        PROVE  (s \o t)[i] < (s \o t)[j]
    <2>1. CASE j \in 1 .. Len(s)
      <3>1. i \in 1 .. Len(s)
        BY <1>5, <2>1
      <3> QED  BY <1>2, <1>5, <2>1, <3>1 DEF Ordered
    <2>2. CASE i \in 1 .. Len(s) /\ j \notin 1 .. Len(s)
      BY <1>2, <1>3, <2>2 DEF Below, Elements
    <2>3. CASE i \notin 1 .. Len(s) /\ j \notin 1 .. Len(s)
      <3>1. i - Len(s) < j - Len(s)
        BY <1>1, <1>5
      <3> QED  BY <1>3, <2>3, <3>1 DEF Ordered
    <2>4. i \in 1 .. Len(s) \/ i \notin 1 .. Len(s)
      OBVIOUS
    <2>5. j \in 1 .. Len(s) \/ (i \in 1 .. Len(s) /\ j \notin 1 .. Len(s))
             \/ (i \notin 1 .. Len(s) /\ j \notin 1 .. Len(s))
      OBVIOUS
    <2> QED  BY <2>1, <2>2, <2>3, <2>5
  <1> QED  BY <1>1, <1>4, <1>5 DEF Ordered

LEMMA OrderedShort ==
    ASSUME NEW s, Len(s) \in Nat, Len(s) <= 1
    PROVE  Ordered(s)
  BY DEF Ordered

LEMMA DistinctAppend ==
    ASSUME NEW s \in Seq(Message), NEW x \in Message, Distinct(s), x \notin Elements(s)
    PROVE  Distinct(Append(s, x))
  <1>1. \A i \in 1 .. Len(s) : Append(s, x)[i] = s[i] /\ s[i] # x
    BY DEF Elements
  <1>2. Append(s, x)[Len(s) + 1] = x /\ Len(Append(s, x)) = Len(s) + 1 /\ Len(s) \in Nat
    OBVIOUS
  <1>3. \A i \in 1 .. Len(s) + 1 : i \in 1 .. Len(s) \/ i = Len(s) + 1
    BY <1>2
  <1> QED  BY <1>1, <1>2, <1>3 DEF Distinct

LEMMA DistinctTail ==
    ASSUME NEW s \in Seq(Message), s # << >>, Distinct(s)
    PROVE  Distinct(Tail(s)) /\ Head(s) \notin Elements(Tail(s))
  <1>1. \A i \in 1 .. Len(Tail(s)) : i + 1 \in 1 .. Len(s) /\ Tail(s)[i] = s[i + 1] /\ i + 1 # 1
    BY TailFacts
  <1>2. 1 \in 1 .. Len(s) /\ Head(s) = s[1]
    BY TailFacts
  <1>3. Head(s) \notin Elements(Tail(s))
    BY <1>1, <1>2 DEF Elements, Distinct
  <1>4. ASSUME NEW i \in 1 .. Len(Tail(s)), NEW j \in 1 .. Len(Tail(s)), Tail(s)[i] = Tail(s)[j]
        PROVE  i = j
    <2>1. i + 1 = j + 1
      BY <1>1, <1>4 DEF Distinct
    <2> QED  BY <2>1
  <1> QED  BY <1>3, <1>4 DEF Distinct

LEMMA ElementsTypes ==
    ASSUME TypeOK
    PROVE  /\ Elements(rx) \subseteq Nat /\ Elements(pending) \subseteq Nat
           /\ Elements(receiver_rx) \subseteq Nat
           /\ \A c \in Connection : Elements(wire[c]) \subseteq Nat
           /\ sent \in Nat /\ Connection \subseteq Nat /\ conn \in Nat
  <1>1. Message \subseteq Nat
    BY ConstantsOK DEF Message
  <1>2. /\ Elements(rx) \subseteq Message /\ Elements(pending) \subseteq Message
        /\ Elements(receiver_rx) \subseteq Message
        /\ \A c \in Connection : Elements(wire[c]) \subseteq Message
    BY ElementsType DEF TypeOK
  <1>3. sent \in Nat /\ Connection \subseteq Nat /\ conn \in Nat
    BY ConstantsOK DEF TypeOK, Connection
  <1> QED  BY <1>1, <1>2, <1>3

LEMMA InitOrder == Init => OrderInv
  <1> SUFFICES ASSUME Init PROVE OrderInv
    OBVIOUS
  <1>1. rx = << >> /\ pending = << >> /\ receiver_rx = << >>
        /\ \A c \in Connection : wire[c] = << >>
    BY DEF Init
  <1>2. Ordered(<< >>) /\ Distinct(<< >>)
    BY DEF Ordered, Distinct
  <1> QED  BY <1>1, <1>2, ElementsOfEmpty
             DEF OrderInv, WireInv, QueueInv, NumberInv, ReadInv, InTransit, Below

\* A message m leaves the sender's queues and is written: it is on the wire,
\* or lost.
LEMMA WrittenTransit ==
    ASSUME TypeOK, NEW m \in Message, Written(m),
           Elements(pending) \cup Elements(rx) = {m} \cup Elements(pending)' \cup Elements(rx)'
    PROVE  InTransit' \subseteq InTransit /\ InTransit \subseteq InTransit' \cup lost'
  <1>1. CASE stream = "broken"
    BY <1>1 DEF Written, InTransit
  <1>2. CASE stream = "up"
    <2>1. conn \in Connection /\ wire[conn] \in Seq(Message)
      BY <1>2, ConstantsOK DEF TypeOK, Connection
    <2>2. /\ UNCHANGED <<conn, receiver_rx>>
          /\ wire'[conn] = Append(wire[conn], m)
          /\ \A c \in Connection : c # conn => wire'[c] = wire[c]
      BY <1>2, <2>1 DEF Written, TypeOK
    <2>3. Elements(wire'[conn]) = Elements(wire[conn]) \cup {m}
      BY <2>1, <2>2, ElementsOfAppend
    <2>4. \A c \in Connection : /\ Elements(wire[c]) \subseteq Elements(wire'[c])
                                /\ Elements(wire'[c]) \subseteq Elements(wire[c]) \cup {m}
      BY <2>2, <2>3
    <2>5. InTransit' \subseteq InTransit
      BY <2>2, <2>4 DEF InTransit
    <2>6. InTransit \subseteq InTransit'
      <3>1. m \in UNION {Elements(wire'[c]) : c \in Connection}
        BY <2>1, <2>3
      <3> QED  BY <2>2, <2>4, <3>1 DEF InTransit
    <2> QED  BY <2>5, <2>6
  <1> QED  BY <1>1, <1>2 DEF Written

\* A message m leaves the head of the sender's queues and is written, or lost.
LEMMA WrittenOrder ==
    ASSUME TypeOK, TypeOK', OrderInv, NEW m \in Message, Written(m),
           Elements(pending) \cup Elements(rx) = {m} \cup Elements(pending)' \cup Elements(rx)',
           Below({m}, Elements(pending)' \cup Elements(rx)'),
           Below(Elements(pending)', Elements(rx)'), Ordered(rx)', UNCHANGED sent
    PROVE  /\ OrderInv' /\ InTransit' \subseteq InTransit
           /\ InTransit \subseteq InTransit' \cup lost'
  <1>0. InTransit' \subseteq InTransit /\ InTransit \subseteq InTransit' \cup lost'
    BY WrittenTransit
  <1>1. CASE stream = "broken"
    <2>1. UNCHANGED <<wire, conn, receiver_rx>>
      BY <1>1 DEF Written
    <2>3. WireInv' /\ NumberInv'
      BY <1>0, <2>1 DEF OrderInv, WireInv, NumberInv
    <2>4. QueueInv' /\ ReadInv'
      BY <2>1 DEF OrderInv, QueueInv, ReadInv, Below
    <2> QED  BY <1>0, <2>3, <2>4 DEF OrderInv
  <1>2. CASE stream = "up"
    <2>1. conn \in Connection /\ wire[conn] \in Seq(Message)
      BY SMTT(30), <1>2, ConstantsOK DEF TypeOK, Connection
    <2>2. /\ UNCHANGED <<conn, receiver_rx>>
          /\ wire'[conn] = Append(wire[conn], m)
          /\ \A c \in Connection : c # conn => wire'[c] = wire[c]
      BY <1>2, <2>1 DEF Written, TypeOK
    <2>3. Elements(wire'[conn]) = Elements(wire[conn]) \cup {m}
      BY <2>1, <2>2, ElementsOfAppend
    <2>4. m \in Nat /\ m <= sent
      BY ConstantsOK DEF OrderInv, NumberInv, InTransit, Message
    <2>5. \A c \in Connection : Below(Elements(wire[c]), {m})
      BY DEF OrderInv, QueueInv, Below
    <2>6. Ordered(wire'[conn])
      BY <2>1, <2>2, <2>5, OrderedAppend DEF OrderInv, WireInv
    <2>7. \A c \in Connection : c > conn => Elements(wire[c]) = {}
      BY ElementsOfEmpty DEF OrderInv, WireInv
    <2>8. WireInv'
      <3>1. \A c \in Connection : c > conn => wire'[c] = << >>
        BY <2>2, ElementsTypes DEF OrderInv, WireInv
      <3>2. \A c \in Connection : Ordered(wire'[c])
        BY <2>2, <2>6 DEF OrderInv, WireInv
      <3>3. ASSUME NEW c \in Connection, NEW d \in Connection, c < d
            PROVE  Below(Elements(wire'[c]), Elements(wire'[d]))
        <4>1. Below(Elements(wire[c]), Elements(wire[d]))
          BY <3>3 DEF OrderInv, WireInv
        <4>2. CASE c = conn
          <5>1. d # conn /\ d > conn
            BY <3>3, <4>2, ElementsTypes
          <5> QED  BY <2>2, <2>7, <5>1 DEF Below
        <4>3. CASE d = conn
          <5>1. wire'[c] = wire[c]
            BY <2>2, <3>3, <4>3, ElementsTypes
          <5> QED  BY <2>3, <2>5, <4>1, <4>3, <5>1 DEF Below
        <4>4. CASE c # conn /\ d # conn
          BY <2>2, <4>1, <4>4
        <4> QED  BY <4>2, <4>3, <4>4
      <3> QED  BY <2>2, <3>1, <3>2, <3>3 DEF WireInv
    <2>9. QueueInv'
      <3>1. ASSUME NEW c \in Connection
            PROVE  Below(Elements(wire'[c]), (Elements(pending) \cup Elements(rx))')
        <4>1. Below(Elements(wire[c]), (Elements(pending) \cup Elements(rx))')
          BY DEF OrderInv, QueueInv, Below
        <4>2. CASE c = conn
          BY <2>3, <4>1, <4>2 DEF Below
        <4> QED  BY <2>2, <4>1, <4>2
      <3> QED  BY <3>1 DEF QueueInv
    <2>11. NumberInv'
      BY <1>0 DEF OrderInv, NumberInv
    <2>12. ReadInv'
      <3>1. m \notin Elements(receiver_rx)
        BY <2>4 DEF OrderInv, ReadInv, Below
      <3>2. \A c \in Connection : Elements(receiver_rx) \cap Elements(wire'[c]) = {}
        BY <2>2, <2>3, <3>1 DEF OrderInv, ReadInv
      <3>3. Below(Elements(receiver_rx), (Elements(pending) \cup Elements(rx))')
        BY DEF OrderInv, ReadInv, Below
      <3> QED  BY <2>2, <3>2, <3>3 DEF OrderInv, ReadInv
    <2> QED  BY <1>0, <2>8, <2>9, <2>11, <2>12 DEF OrderInv
  <1> QED  BY <1>1, <1>2 DEF Written

\* A step that moves no message: a connection made, lost or refused.
LEMMA QuietOrder ==
    ASSUME TypeOK, OrderInv, UNCHANGED <<sent, rx, pending, wire, receiver_rx>>,
           conn' \in Nat, conn' >= conn
    PROVE  OrderInv'
  <1>1. WireInv'
    BY ElementsTypes DEF OrderInv, WireInv
  <1>2. QueueInv' /\ ReadInv'
    BY DEF OrderInv, QueueInv, ReadInv
  <1>3. NumberInv'
    BY DEF OrderInv, NumberInv, InTransit
  <1> QED  BY <1>1, <1>2, <1>3 DEF OrderInv

LEMMA SendOrder == ASSUME TypeOK, OrderInv, send PROVE OrderInv'
  <1>1. sent + 1 \in Message /\ sent \in Nat /\ sent + 1 \in Nat
    BY ConstantsOK DEF send, TypeOK, Message
  <1>2. Elements(rx)' = Elements(rx) \cup {sent + 1}
    BY <1>1, ElementsOfAppend DEF send, TypeOK
  <1>3. UNCHANGED <<pending, wire, conn, receiver_rx>> /\ sent' = sent + 1
    BY DEF send, network
  <1>4. ASSUME NEW m \in InTransit PROVE m \in Nat /\ m <= sent /\ m < sent + 1
    BY <1>1, ElementsTypes DEF OrderInv, NumberInv, InTransit
  <1>5. InTransit' = InTransit \cup {sent + 1}
    BY <1>2, <1>3 DEF InTransit
  <1>6. NumberInv'
    BY <1>1, <1>3, <1>4, <1>5 DEF NumberInv
  <1>7. /\ Elements(rx) \subseteq InTransit /\ Elements(pending) \subseteq InTransit
        /\ Elements(receiver_rx) \subseteq InTransit
        /\ \A c \in Connection : Elements(wire[c]) \subseteq InTransit
    BY DEF InTransit
  <1>8. Ordered(rx)'
    <2>1. Below(Elements(rx), {sent + 1})
      BY <1>4, <1>7 DEF Below
    <2> QED  BY <1>1, <2>1, OrderedAppend DEF OrderInv, QueueInv, send, TypeOK
  <1>9. QueueInv'
    <2>1. Below(Elements(pending), Elements(rx)')
      BY <1>2, <1>4, <1>7 DEF OrderInv, QueueInv, Below
    <2>2. \A c \in Connection :
             Below(Elements(wire[c]), Elements(pending) \cup Elements(rx)')
      BY <1>2, <1>4, <1>7 DEF OrderInv, QueueInv, Below
    <2> QED  BY <1>3, <1>8, <2>1, <2>2 DEF QueueInv
  <1>10. Below(Elements(receiver_rx), Elements(pending) \cup Elements(rx)')
    BY <1>2, <1>4, <1>7 DEF OrderInv, ReadInv, Below
  <1>11. ReadInv' /\ WireInv'
    BY <1>3, <1>10 DEF OrderInv, ReadInv, WireInv
  <1> QED  BY <1>6, <1>9, <1>11 DEF OrderInv

\* The head of the channel becomes the pending message.
LEMMA TakenOrder ==
    ASSUME TypeOK, OrderInv, rx # << >>, pending' = <<Head(rx)>>, rx' = Tail(rx),
           UNCHANGED <<sent, wire, conn, receiver_rx>>
    PROVE  OrderInv' /\ InTransit' \subseteq InTransit
  <1>1. Elements(rx) = {Head(rx)} \cup Elements(rx)' /\ Elements(pending)' = {Head(rx)}
    BY ElementsOfTail, ElementsOfOne DEF TypeOK
  <1>2. Ordered(rx)' /\ Below(Elements(pending)', Elements(rx)')
    BY <1>1, OrderedTail DEF OrderInv, QueueInv, TypeOK
  <1>3. InTransit' \subseteq InTransit
    BY <1>1 DEF InTransit
  <1>4. QueueInv'
    <2>1. \A c \in Connection : Below(Elements(wire[c]), (Elements(pending) \cup Elements(rx))')
      BY <1>1 DEF OrderInv, QueueInv, Below
    <2> QED  BY <1>2, <2>1 DEF QueueInv
  <1>5. ReadInv'
    BY <1>1 DEF OrderInv, ReadInv, Below
  <1>6. WireInv' /\ NumberInv'
    BY <1>3 DEF OrderInv, WireInv, NumberInv
  <1> QED  BY <1>3, <1>4, <1>5, <1>6 DEF OrderInv

\* Parts of the wires are gone, or read.
LEMMA ShorterWires ==
    ASSUME TypeOK, OrderInv, UNCHANGED <<rx, pending, conn>>,
           \A c \in Connection :
              /\ wire'[c] = << >> \/ wire'[c] = wire[c] \/ Ordered(wire'[c])
              /\ wire[c] = << >> => wire'[c] = << >>
              /\ Elements(wire'[c]) \subseteq Elements(wire[c])
    PROVE  WireInv' /\ QueueInv'
  <1>1. Ordered(<< >>)
    BY DEF Ordered
  <1>2. \A c \in Connection : Ordered(wire'[c])
    BY <1>1 DEF OrderInv, WireInv
  <1>3. \A c \in Connection : c > conn => wire'[c] = << >>
    BY DEF OrderInv, WireInv
  <1>4. \A c, d \in Connection : c < d => Below(Elements(wire'[c]), Elements(wire'[d]))
    BY DEF OrderInv, WireInv, Below
  <1>5. \A c \in Connection : Below(Elements(wire'[c]), Elements(pending) \cup Elements(rx))
    BY DEF OrderInv, QueueInv, Below
  <1> QED  BY <1>2, <1>3, <1>4, <1>5 DEF OrderInv, WireInv, QueueInv

LEMMA PipeOrder ==
    ASSUME TypeOK, OrderInv, NEW c \in Connection, Pipe(c)
    PROVE  OrderInv' /\ InTransit' = InTransit
  <1> DEFINE m == Head(wire[c])
  <1>1. wire[c] \in Seq(Message) /\ wire[c] # << >> /\ m \in Message
        /\ receiver_rx \in Seq(Message)
    BY TailFacts DEF Pipe, TypeOK
  <1>2. /\ wire'[c] = Tail(wire[c])
        /\ \A d \in Connection : d # c => wire'[d] = wire[d]
        /\ receiver_rx' = Append(receiver_rx, m)
        /\ UNCHANGED <<sent, rx, pending, conn>>
    BY DEF Pipe, TypeOK, sender
  <1> HIDE DEF m
  <1>3. Elements(wire[c]) = {m} \cup Elements(wire'[c])
    BY <1>1, <1>2, ElementsOfTail DEF m
  <1>4. Elements(receiver_rx)' = Elements(receiver_rx) \cup {m}
    BY <1>1, <1>2, ElementsOfAppend
  <1>5. Ordered(wire'[c]) /\ Below({m}, Elements(wire'[c]))
    BY <1>1, <1>2, OrderedTail DEF OrderInv, WireInv, m
  <1>6. \A d \in Connection : Elements(wire'[d]) \subseteq Elements(wire[d])
    BY <1>2, <1>3
  <1>7. WireInv' /\ QueueInv'
    BY <1>1, <1>2, <1>5, <1>6, ShorterWires
  <1>8. InTransit' = InTransit
    <2>1. UNION {Elements(wire[d]) : d \in Connection}
             = {m} \cup UNION {Elements(wire'[d]) : d \in Connection}
      <3>1. \A d \in Connection : Elements(wire[d]) \subseteq {m} \cup Elements(wire'[d])
        BY <1>2, <1>3
      <3>2. m \in Elements(wire[c])
        BY <1>3
      <3> QED  BY <1>6, <3>1, <3>2
    <2> QED  BY <1>2, <1>4, <2>1 DEF InTransit
  <1>9. NumberInv'
    BY <1>2, <1>8 DEF OrderInv, NumberInv
  <1>10. m \in Nat /\ \A d \in Connection : m \notin Elements(wire'[d])
    <2>1. m \in Nat
      BY <1>1, ConstantsOK DEF Message
    <2>2. m \notin Elements(wire'[c])
      BY <1>5, <2>1 DEF Below
    <2>3. ASSUME NEW d \in Connection, d # c PROVE m \notin Elements(wire[d])
      <3>1. d < c \/ c < d
        BY <2>3, ElementsTypes
      <3> QED  BY <1>3, <2>1, <3>1 DEF OrderInv, WireInv, Below
    <2> QED  BY <1>2, <2>1, <2>2, <2>3
  <1>11. ReadInv'
    <2>1. m \notin Elements(receiver_rx)
      BY <1>3 DEF OrderInv, ReadInv
    <2>2. Distinct(receiver_rx')
      BY <1>1, <1>2, <2>1, DistinctAppend DEF OrderInv, ReadInv
    <2>3. Below(Elements(receiver_rx)', Elements(pending) \cup Elements(rx))
      BY <1>3, <1>4 DEF OrderInv, ReadInv, QueueInv, Below
    <2>4. \A d \in Connection : Elements(receiver_rx)' \cap Elements(wire'[d]) = {}
      BY <1>4, <1>6, <1>10 DEF OrderInv, ReadInv
    <2> QED  BY <1>2, <2>2, <2>3, <2>4 DEF ReadInv
  <1> QED  BY <1>7, <1>8, <1>9, <1>11 DEF OrderInv

LEMMA RecvOrder ==
    ASSUME TypeOK, OrderInv, recv
    PROVE  /\ OrderInv'
           /\ Head(receiver_rx) \in InTransit
           /\ InTransit' = InTransit \ {Head(receiver_rx)}
           /\ received' = Append(received, Head(receiver_rx))
  <1> DEFINE m == Head(receiver_rx)
  <1>1. receiver_rx \in Seq(Message) /\ receiver_rx # << >> /\ m \in Message
    BY TailFacts DEF recv, TypeOK
  <1>2. /\ receiver_rx' = Tail(receiver_rx) /\ received' = Append(received, m)
        /\ UNCHANGED <<sent, rx, pending, conn, wire>>
    BY DEF recv, sender
  <1> HIDE DEF m
  <1>3. Elements(receiver_rx) = {m} \cup Elements(receiver_rx)'
    BY <1>1, <1>2, ElementsOfTail DEF m
  <1>4. Distinct(receiver_rx') /\ m \notin Elements(receiver_rx)'
    BY <1>1, <1>2, DistinctTail DEF OrderInv, ReadInv, m
  <1>5. ReadInv'
    BY <1>2, <1>3, <1>4 DEF OrderInv, ReadInv, Below
  <1>6. m \in Nat /\ m \notin Elements(pending) \cup Elements(rx)
        /\ \A c \in Connection : m \notin Elements(wire[c])
    <2>1. m \in Nat
      BY <1>1, ConstantsOK DEF Message
    <2> QED  BY <1>3, <2>1 DEF OrderInv, ReadInv, Below
  <1>7. m \in InTransit /\ InTransit' = InTransit \ {m}
    BY <1>2, <1>3, <1>4, <1>6 DEF InTransit
  <1>8. NumberInv' /\ WireInv' /\ QueueInv'
    BY <1>2, <1>7 DEF OrderInv, NumberInv, WireInv, QueueInv
  <1> QED  BY <1>2, <1>5, <1>7, <1>8 DEF OrderInv, m

\* A connection or the whole peer is gone: only what is lost is forgotten.
LEMMA LossOrder ==
    ASSUME TypeOK, OrderInv, UNCHANGED <<sent, rx, pending, conn>>,
           receiver_rx' = receiver_rx \/ receiver_rx' = << >>,
           \A c \in Connection :
              /\ wire'[c] = << >> \/ wire'[c] = wire[c] \/ Ordered(wire'[c])
              /\ wire[c] = << >> => wire'[c] = << >>
              /\ Elements(wire'[c]) \subseteq Elements(wire[c])
    PROVE  OrderInv' /\ InTransit' \subseteq InTransit
  <1>1. WireInv' /\ QueueInv'
    BY ShorterWires
  <1>2. Elements(receiver_rx)' \subseteq Elements(receiver_rx)
    BY ElementsOfEmpty
  <1>3. InTransit' \subseteq InTransit
    BY <1>2 DEF InTransit
  <1>4. Distinct(receiver_rx)'
    BY DEF OrderInv, ReadInv, Distinct
  <1>5. ReadInv'
    BY <1>2, <1>4 DEF OrderInv, ReadInv, Below
  <1> QED  BY <1>1, <1>3, <1>5 DEF OrderInv, NumberInv

LEMMA BreakOrder ==
    ASSUME TypeOK, OrderInv, Break
    PROVE  /\ OrderInv' /\ InTransit' \subseteq InTransit
           /\ InTransit \subseteq InTransit' \cup lost'
  <1>1. PICK k \in 0 .. Len(wire[conn]) :
           /\ wire' = [wire EXCEPT ![conn] = SubSeq(@, 1, k)]
           /\ lost' = lost \cup Elements(SubSeq(wire[conn], k + 1, Len(wire[conn])))
    BY DEF Break
  <1>2. conn \in Connection /\ wire[conn] \in Seq(Message)
    BY ConstantsOK DEF Break, TypeOK, Connection
  <1> DEFINE a == SubSeq(wire[conn], 1, k)
             b == SubSeq(wire[conn], k + 1, Len(wire[conn]))
  <1>3. /\ a \in Seq(Message) /\ Len(a) = k
        /\ \A i \in 1 .. k : a[i] = wire[conn][i]
        /\ Elements(wire[conn]) = Elements(a) \cup Elements(b)
    BY <1>2, ElementsOfPrefix
  <1>4. Ordered(a)
    <2>1. \A i \in 1 .. k : i \in 1 .. Len(wire[conn])
      BY <1>2
    <2> HIDE DEF a
    <2> QED  BY <1>2, <1>3, <2>1 DEF OrderInv, WireInv, Ordered
  <1>5. wire[conn] = << >> => a = << >>
    <2>1. wire[conn] = << >> => k = 0
      BY <1>2
    <2> HIDE DEF a
    <2> QED  BY <1>3, <2>1, EmptySeq
  <1>6. wire'[conn] = a /\ \A c \in Connection : c # conn => wire'[c] = wire[c]
    BY <1>1, <1>2 DEF TypeOK
  <1>7. lost' = lost \cup Elements(b)
    BY <1>1
  <1> HIDE DEF a, b
  <1>8. \A c \in Connection :
           /\ wire'[c] = << >> \/ wire'[c] = wire[c] \/ Ordered(wire'[c])
           /\ wire[c] = << >> => wire'[c] = << >>
           /\ Elements(wire'[c]) \subseteq Elements(wire[c])
    BY <1>3, <1>4, <1>5, <1>6
  <1>9. UNCHANGED <<sent, rx, pending, conn, receiver_rx>>
    BY DEF Break
  <1>10. OrderInv' /\ InTransit' \subseteq InTransit
    BY <1>8, <1>9, LossOrder
  <1>11. \A c \in Connection : Elements(wire[c]) \subseteq Elements(wire'[c]) \cup lost'
    BY <1>3, <1>6, <1>7
  <1>12. InTransit \subseteq InTransit' \cup lost'
    BY <1>9, <1>11 DEF InTransit
  <1> QED  BY <1>10, <1>12

LEMMA PeerStopsOrder ==
    ASSUME TypeOK, OrderInv, PeerStops
    PROVE  /\ OrderInv' /\ InTransit' \subseteq InTransit
           /\ InTransit \subseteq InTransit' \cup lost'
  <1>1. /\ \A c \in Connection : wire'[c] = << >>
        /\ receiver_rx' = << >> /\ UNCHANGED <<sent, rx, pending, conn>>
    BY DEF PeerStops
  <1>2. OrderInv' /\ InTransit' \subseteq InTransit
    BY <1>1, LossOrder, ElementsOfEmpty
  <1>3. Elements(receiver_rx) \cup UNION {Elements(wire[c]) : c \in Connection} \subseteq lost'
    BY DEF PeerStops
  <1>4. InTransit \subseteq InTransit' \cup lost'
    BY <1>1, <1>3 DEF InTransit
  <1> QED  BY <1>2, <1>4

-----------------------------------------------------------------------------
LEMMA WritePendingOrder ==
    ASSUME TypeOK, TypeOK', OrderInv, WritePending
    PROVE  OrderInv' /\ InTransit' \subseteq InTransit
           /\ InTransit \subseteq InTransit' \cup lost'
  <1> DEFINE m == Head(pending)
  <1>1. pending \in Seq(Message) /\ pending # << >> /\ m \in Message
    BY TailFacts DEF WritePending, TypeOK
  <1>2. Len(Tail(pending)) = 0 /\ Tail(pending) \in Seq(Message)
    <2>1. Len(pending) <= 1
      BY DEF TypeOK
    <2>2. /\ Tail(pending) \in Seq(Message)
          /\ Len(pending) \in Nat /\ Len(pending) > 0 /\ Len(Tail(pending)) = Len(pending) - 1
      BY <1>1, TailFacts
    <2> QED  BY <2>1, <2>2
  <1>3. Tail(pending) = << >>
    BY <1>2, EmptySeq
  <1>4. Elements(pending) = {m}
    <2>1. Elements(pending) = {m} \cup Elements(Tail(pending))
      BY <1>1, ElementsOfTail
    <2> QED  BY <1>3, <2>1, ElementsOfEmpty
  <1>5. Written(m) /\ pending' = << >> /\ UNCHANGED <<sent, rx>> /\ Elements(pending)' = {}
    BY ElementsOfEmpty DEF WritePending
  <1> HIDE DEF m
  <1>6. Below({m}, Elements(pending)' \cup Elements(rx)')
    BY <1>4, <1>5 DEF OrderInv, QueueInv, Below
  <1>7. Below(Elements(pending)', Elements(rx)') /\ Ordered(rx)'
    BY <1>5 DEF OrderInv, QueueInv, Below
  <1> QED  BY <1>1, <1>4, <1>5, <1>6, <1>7, WrittenOrder

LEMMA WriteNextOrder ==
    ASSUME TypeOK, TypeOK', OrderInv, WriteNext
    PROVE  OrderInv' /\ InTransit' \subseteq InTransit
           /\ InTransit \subseteq InTransit' \cup lost'
  <1> DEFINE m == Head(rx)
  <1>1. rx \in Seq(Message) /\ rx # << >> /\ m \in Message
    BY TailFacts DEF WriteNext, TypeOK
  <1>2. /\ Written(m) /\ rx' = Tail(rx) /\ UNCHANGED <<sent, pending>>
        /\ pending = << >> /\ Elements(pending) = {} /\ Elements(pending)' = {}
    BY ElementsOfEmpty DEF WriteNext
  <1>3. Elements(rx) = {m} \cup Elements(rx)'
    BY <1>1, <1>2, ElementsOfTail
  <1>4. Ordered(rx)' /\ Below({m}, Elements(rx)')
    BY <1>1, <1>2, OrderedTail DEF OrderInv, QueueInv
  <1> HIDE DEF m
  <1>5. Below({m}, Elements(pending)' \cup Elements(rx)') /\ Below(Elements(pending)', Elements(rx)')
    BY <1>2, <1>4 DEF Below
  <1> QED  BY <1>1, <1>2, <1>3, <1>4, <1>5, WrittenOrder

(***************************************************************************)
(* One step of the transport: the order is kept, and either a message is   *)
(* handed over, or one is delivered, or some may be lost.  A message that  *)
(* is lost is in lost, or was replaced by a newer one in pending.          *)
(***************************************************************************)
Kept == InTransit \subseteq InTransit' \cup lost'

Moves ==
    /\ OrderInv'
    /\ \/ /\ sent' = sent + 1 /\ InTransit' = InTransit \cup {sent + 1}
          /\ UNCHANGED received
       \/ /\ Head(receiver_rx) \in InTransit
          /\ InTransit' = InTransit \ {Head(receiver_rx)}
          /\ received' = Append(received, Head(receiver_rx)) /\ UNCHANGED sent
       \/ /\ InTransit' \subseteq InTransit /\ UNCHANGED <<sent, received>>
          /\ Kept \/ KeepMostRecent

LEMMA NextOrder ==
    ASSUME TypeOK, TypeOK', OrderInv, [Next]_vars
    PROVE  Moves
  <1>1. CASE send
    <2>1. /\ sent' = sent + 1 /\ rx' = Append(rx, sent + 1)
          /\ UNCHANGED <<pending, wire, receiver_rx, received>>
      BY <1>1 DEF send, network
    <2>2. sent + 1 \in Message /\ rx \in Seq(Message)
      BY <1>1, ConstantsOK DEF send, TypeOK, Message
    <2>3. InTransit' = InTransit \cup {sent + 1}
      BY <2>1, <2>2, ElementsOfAppend DEF InTransit
    <2> QED  BY <1>1, <2>1, <2>3, SendOrder DEF Moves
  <1>2. ASSUME UNCHANGED <<sent, rx, pending, wire, receiver_rx, received, lost>>,
               conn' = conn \/ conn' = conn + 1
        PROVE  Moves
    <2>1. conn' \in Nat /\ conn' >= conn
      BY <1>2, ElementsTypes
    <2>2. OrderInv'
      BY <1>2, <2>1, QuietOrder
    <2>3. InTransit' = InTransit
      BY <1>2 DEF InTransit
    <2> QED  BY <1>2, <2>2, <2>3 DEF Moves, Kept
  <1>3. CASE Drop \/ Elapse \/ Connect \/ ConnectFails \/ WritePendingFails \/ NoticeEnd
             \/ Stop \/ PeerStarts \/ UNCHANGED vars
    BY <1>2, <1>3 DEF Drop, Elapse, Connect, ConnectFails, WritePendingFails, NoticeEnd,
                      Stop, PeerStarts, vars, sender, network
  <1>4. CASE KeepMostRecent
    <2>1. OrderInv' /\ InTransit' \subseteq InTransit
      BY <1>4, TakenOrder DEF KeepMostRecent, network
    <2> QED  BY <1>4, <2>1 DEF KeepMostRecent, network, Moves
  <1>5. CASE WriteNextFails
    <2>1. OrderInv' /\ InTransit' \subseteq InTransit
      BY <1>5, TakenOrder DEF WriteNextFails, network
    <2>2. Kept
      <3>1. Elements(pending) = {} /\ Elements(rx) = Elements(pending)' \cup Elements(rx)'
        BY <1>5, ElementsOfEmpty, ElementsOfOne, ElementsOfTail DEF WriteNextFails, TypeOK
      <3>2. UNCHANGED <<wire, receiver_rx>>
        BY <1>5 DEF WriteNextFails, network
      <3> QED  BY <3>1, <3>2 DEF Kept, InTransit
    <2> QED  BY <1>5, <2>1, <2>2 DEF WriteNextFails, network, Moves
  <1>6. CASE WritePending
    BY <1>6, WritePendingOrder DEF WritePending, Written, Moves, Kept
  <1>7. CASE WriteNext
    BY <1>7, WriteNextOrder DEF WriteNext, Written, Moves, Kept
  <1>8. ASSUME NEW c \in Connection, Pipe(c) PROVE Moves
    BY <1>8, PipeOrder DEF Pipe, Moves, Kept
  <1>9. CASE recv
    BY <1>9, RecvOrder DEF recv, Moves
  <1>10. CASE Break
    BY <1>10, BreakOrder DEF Break, Moves, Kept
  <1>11. CASE PeerStops
    BY <1>11, PeerStopsOrder DEF PeerStops, Moves, Kept
  <1> QED
    BY <1>1, <1>3, <1>4, <1>5, <1>6, <1>7, <1>8, <1>9, <1>10, <1>11, FlatNext DEF Stepping

LEMMA OrderHolds == Spec => []OrderInv
  <1>1. TypeOK /\ TypeOK' /\ OrderInv /\ [Next]_vars => OrderInv'
    BY NextOrder DEF Moves
  <1> QED  BY <1>1, InitOrder, TypeCorrectness, PTL DEF Spec

\* No message overtakes an older one between send and the reader at the other
\* end of a connection, however often the connection is lost and a message is
\* written again.
THEOREM OrderIsKept == Spec => []NeverOvertaken
  <1>1. TypeOK /\ OrderInv => NeverOvertaken
    <2> SUFFICES ASSUME TypeOK, OrderInv PROVE NeverOvertaken
      OBVIOUS
    <2> DEFINE w == IF conn = 0 THEN << >> ELSE wire[conn]
    <2>1. << >> \in Seq(Message) /\ Ordered(<< >>) /\ Elements(<< >>) = {}
      BY ElementsOfEmpty DEF Ordered
    <2>2. conn # 0 => conn \in Connection
      BY ConstantsOK DEF TypeOK, Connection
    <2>3. /\ w \in Seq(Message) /\ Ordered(w)
          /\ Below(Elements(w), Elements(pending) \cup Elements(rx))
      BY <2>1, <2>2 DEF TypeOK, OrderInv, WireInv, QueueInv, Below
    <2>4. /\ pending \in Seq(Message) /\ Ordered(pending)
          /\ rx \in Seq(Message) /\ Ordered(rx) /\ Below(Elements(pending), Elements(rx))
      BY OrderedShort DEF TypeOK, OrderInv, QueueInv
    <2> HIDE DEF w
    <2>5. /\ w \o pending \in Seq(Message) /\ Ordered(w \o pending)
          /\ Elements(w \o pending) \subseteq Elements(w) \cup Elements(pending)
      <3>1. Below(Elements(w), Elements(pending))
        BY <2>3 DEF Below
      <3> QED  BY <2>3, <2>4, <3>1, OrderedConcat
    <2>6. Ordered((w \o pending) \o rx)
      <3>1. Below(Elements(w \o pending), Elements(rx))
        BY <2>3, <2>4, <2>5 DEF Below
      <3> QED  BY <2>4, <2>5, <3>1, OrderedConcat
    <2> QED  BY <2>6 DEF NeverOvertaken, OrderInv, WireInv, Ordered, w
  <1> QED  BY <1>1, OrderHolds, TypeCorrectness, PTL

-----------------------------------------------------------------------------
(***************************************************************************)
(* The newest message.                                                     *)
(***************************************************************************)
LEMMA LostGrows ==
    ASSUME TypeOK, [Next]_vars
    PROVE  lost \subseteq lost' /\ Elements(received) \subseteq Elements(received)'
  <1>1. CASE recv
    <2>1. Head(receiver_rx) \in Message
      BY <1>1, TailFacts DEF recv, TypeOK
    <2> QED  BY <1>1, <2>1, ElementsOfAppend DEF recv, TypeOK
  <1>2. ASSUME NEW c \in Connection, Pipe(c)
        PROVE  lost \subseteq lost' /\ Elements(received) \subseteq Elements(received)'
    BY <1>2 DEF Pipe
  <1>3. CASE Break \/ PeerStops \/ PeerStarts
    BY <1>3 DEF Break, PeerStops, PeerStarts
  <1>4. CASE WritePending \/ WriteNext
    BY <1>4 DEF WritePending, WriteNext, Written
  <1>5. CASE send \/ Drop \/ Elapse \/ KeepMostRecent \/ Connect \/ ConnectFails
             \/ WritePendingFails \/ WriteNextFails \/ NoticeEnd \/ Stop \/ UNCHANGED vars
    BY <1>5 DEF send, Drop, Elapse, KeepMostRecent, Connect, ConnectFails,
                WritePendingFails, WriteNextFails, NoticeEnd, Stop, vars, network
  <1> QED  BY <1>1, <1>2, <1>3, <1>4, <1>5, FlatNext DEF Stepping

\* A sender task that has ended stays ended.
LEMMA EndedStays ==
    ASSUME TypeOK, [Next]_vars, stream = "ended"
    PROVE  stream' = "ended"
  <1>1. ASSUME NEW c \in Connection, Pipe(c) PROVE stream' = "ended"
    BY <1>1 DEF Pipe, sender
  <1>2. CASE ~ \E c \in Connection : Pipe(c)
    BY <1>2, FlatNext DEF Stepping, send, Drop, Elapse, KeepMostRecent, Connect,
       ConnectFails, WritePending, WritePendingFails, WriteNext, WriteNextFails,
       NoticeEnd, Stop, recv, Break, PeerStops, PeerStarts, vars, sender
  <1> QED  BY <1>1, <1>2

\* KeepMostRecent replaces the pending message only by a newer one.
LEMMA NewestStays ==
    ASSUME TypeOK, OrderInv, KeepMostRecent, sent \in InTransit
    PROVE  sent \in InTransit'
  <1>1. rx # << >> /\ rx \in Seq(Message) /\ rx' = Tail(rx) /\ pending' = <<Head(rx)>>
        /\ UNCHANGED <<wire, receiver_rx>>
    BY DEF KeepMostRecent, TypeOK, network
  <1>2. Elements(rx) = Elements(pending)' \cup Elements(rx)' /\ Head(rx) \in Elements(rx)
    BY <1>1, ElementsOfTail, ElementsOfOne
  <1>3. Head(rx) \in Nat /\ sent \in Nat /\ Head(rx) <= sent
    BY <1>2, ElementsTypes DEF OrderInv, NumberInv, InTransit
  <1>4. sent \notin Elements(pending)
    BY <1>2, <1>3 DEF OrderInv, QueueInv, Below
  <1> QED  BY <1>1, <1>2, <1>4 DEF InTransit

\* Whatever the connection does, the newest message has arrived, is on its way
\* or was lost on the wire: keeping only one pending message loses nothing that
\* a newer message does not replace.
THEOREM NewestSurvives == Spec => []NewestIsKept
  <1>1. Init => NewestIsKept
    BY DEF Init, NewestIsKept
  <1>2. ASSUME TypeOK, TypeOK', OrderInv, NewestIsKept, [Next]_vars
        PROVE  NewestIsKept'
    <2> SUFFICES ASSUME sent' > 0, stream' # "ended"
                 PROVE  sent' \in (InTransit \cup lost \cup Elements(received))'
      BY DEF NewestIsKept
    <2>1. Moves /\ lost \subseteq lost' /\ Elements(received) \subseteq Elements(received)'
          /\ stream # "ended"
      BY <1>2, NextOrder, LostGrows, EndedStays
    <2>2. CASE sent' = sent + 1 /\ InTransit' = InTransit \cup {sent + 1}
      BY <2>2
    <2>3. CASE UNCHANGED sent
      <3>1. sent \in InTransit \cup lost \cup Elements(received)
        BY <1>2, <2>1, <2>3 DEF NewestIsKept
      <3>2. CASE sent \in lost \cup Elements(received)
        BY <2>1, <2>3, <3>2
      <3>3. CASE sent \in InTransit
        <4>1. CASE Kept
          BY <2>3, <3>3, <4>1 DEF Kept
        <4>2. CASE KeepMostRecent
          BY <1>2, <2>3, <3>3, <4>2, NewestStays
        <4>3. CASE /\ InTransit' = InTransit \ {Head(receiver_rx)}
                   /\ received' = Append(received, Head(receiver_rx))
                   /\ Head(receiver_rx) \in InTransit
          <5>1. received \in Seq(Message)
            BY <1>2 DEF TypeOK
          <5>2. Head(receiver_rx) \in Message
            <6>1. InTransit \subseteq Message
              BY <1>2, ElementsType DEF InTransit, TypeOK
            <6> QED  BY <4>3, <6>1
          <5>3. Elements(received)' = Elements(received) \cup {Head(receiver_rx)}
            BY <4>3, <5>1, <5>2, ElementsOfAppend
          <5> QED  BY <2>3, <3>3, <4>3, <5>3
        <4>4. sent' # sent + 1
          BY <1>2, <2>3, ElementsTypes
        <4> QED  BY <2>1, <4>1, <4>2, <4>3, <4>4 DEF Moves
      <3> QED  BY <3>1, <3>2, <3>3
    <2> QED  BY <2>1, <2>2, <2>3 DEF Moves
  <1>3. TypeOK /\ TypeOK' /\ OrderInv /\ NewestIsKept /\ [Next]_vars => NewestIsKept'
    BY <1>2
  <1> QED  BY <1>1, <1>3, OrderHolds, TypeCorrectness, PTL DEF Spec

-----------------------------------------------------------------------------
(***************************************************************************)
(* Refinement.  A call of send is a Send of Network, a recv a Deliver;     *)
(* every other step loses some messages, or none.                          *)
(***************************************************************************)
LEMMA InitRefines == Init => Net!Init
  <1> SUFFICES ASSUME Init PROVE Net!Init
    OBVIOUS
  <1>1. rx = << >> /\ pending = << >> /\ receiver_rx = << >>
        /\ \A c \in Connection : wire[c] = << >>
    BY DEF Init
  <1>2. InTransit = {}
    BY <1>1, ElementsOfEmpty DEF InTransit
  <1> QED  BY <1>2 DEF Init, Net!Init

LEMMA NextRefines ==
    ASSUME TypeOK, TypeOK', OrderInv, [Next]_vars
    PROVE  [Net!Next]_(Net!vars)
  <1>1. Moves
    BY NextOrder
  <1>2. CASE /\ sent' = sent + 1 /\ InTransit' = InTransit \cup {sent + 1}
             /\ UNCHANGED received
    BY <1>2 DEF Net!Next, Net!Send
  <1>3. CASE /\ Head(receiver_rx) \in InTransit
             /\ InTransit' = InTransit \ {Head(receiver_rx)}
             /\ received' = Append(received, Head(receiver_rx)) /\ UNCHANGED sent
    BY <1>3 DEF Net!Next, Net!Deliver
  <1>4. CASE InTransit' \subseteq InTransit /\ UNCHANGED <<sent, received>>
    <2> DEFINE S == InTransit \ InTransit'
    <2>1. S \in SUBSET InTransit /\ InTransit' = InTransit \ S
      BY <1>4
    <2>2. Net!Lose(S)
      BY <1>4, <2>1 DEF Net!Lose
    <2> HIDE DEF S
    <2> QED  BY <2>1, <2>2 DEF Net!Next
  <1> QED  BY <1>1, <1>2, <1>3, <1>4 DEF Moves

\* The transport implements module Network: it delivers a message at most once
\* and only after it was sent, although a message whose write has failed is
\* written again on the next connection.
THEOREM ImplementsNetwork == Spec => NetworkSpec
  <1>1. TypeOK /\ TypeOK' /\ OrderInv /\ [Next]_vars => [Net!Next]_(Net!vars)
    BY NextRefines
  <1> QED  BY <1>1, InitRefines, OrderHolds, TypeCorrectness, PTL
             DEF Spec, NetworkSpec, Net!Spec

=============================================================================
