------------------------- MODULE ClusterSafety_proofs -------------------------
(***************************************************************************)
(* What is committed stays committed: StateMachineSafety,                  *)
(* LeaderCompleteness, CommittedOnQuorumDisks, NoPanic and PendingIsInLog, *)
(* for clusters of any odd size, as long as neither a late response nor    *)
(* the request of a leader that has stepped down is delivered, no write of *)
(* the log file is cut short and no snapshot is taken.                     *)
(*                                                                         *)
(* Beside L, the log each term's leader has built (ClusterLog_proofs), the *)
(* argument keeps a set A of acknowledgements: node q has had, on disk, the*)
(* log of the leader of term t up to an index.  An entry of term t that a  *)
(* majority has acknowledged in term t is settled.  No settled entry is    *)
(* ever missing from the log of a later leader (SettledStays): the least   *)
(* term without it was elected by a majority, one of whose nodes had       *)
(* acknowledged the entry and voted only for a log that holds it, unless a *)
(* leader in between lacked it.                                            *)
(***************************************************************************)
EXTENDS ClusterLog_proofs

-----------------------------------------------------------------------------
(***************************************************************************)
(* Acknowledgements, and what they promise.                                *)
(***************************************************************************)
Has(log, t, j) == j <= Len(log) /\ log[j].term = t

\* A leader of a term after t and before b has no entry of term t at j.
Lacks(L, t, j, b) == \E u \in Nat : t < u /\ u < b /\ L[u] # << >> /\ ~Has(L[u], t, j)

Ack(t, q, k) == [term |-> t, node |-> q, index |-> k]

Acks == SUBSET [term : Nat, node : Node, index : Nat]

\* The log holds what a acknowledges, unless a leader before b lacked it.
Kept(L, a, log, b) ==
    \A j \in 1 .. a.index : L[a.term][j].term = a.term =>
        Has(log, a.term, j) \/ Lacks(L, a.term, j, b)

Settled(L, A, u, j) ==
    /\ u \in Nat /\ j \in 1 .. Len(L[u]) /\ L[u][j].term = u
    /\ \E Q \in SUBSET Node :
          /\ 2 * Cardinality(Q) > Cardinality(Node)
          /\ \A q \in Q : \E k \in Nat : k >= j /\ Ack(u, q, k) \in A

Same(a, b, i) == i <= Len(a) /\ i <= Len(b) /\ \A j \in 1 .. i : a[j] = b[j]

\* The first i entries of the log are settled by term t.
Reached(L, A, log, i, t) ==
    \/ i = 0
    \/ \E u \in Nat, j \in Nat :
          u <= t /\ i <= j /\ Settled(L, A, u, j) /\ Same(log, L[u], i)

Rising(log, t) ==
    \A i \in 1 .. Len(log) :
        log[i].term <= t /\ \A j \in 1 .. i : log[j].term <= log[i].term

LastTerm(log) == IF log = << >> THEN 0 ELSE log[Len(log)].term

LedBy(t, n) == [term |-> t, node |-> n] \in leaders

Led(t) == \E l \in leaders : l.term = t

-----------------------------------------------------------------------------
(***************************************************************************)
(* The inductive invariant.                                                *)
(***************************************************************************)
LogSafe(L, t) == Rising(L[t], t) /\ (L[t] # << >> => L[t][Len(L[t])].term = t)

AckSafe(L, a) ==
    a.index <= Len(L[a.term]) /\ a.term <= core[a.node].current_term /\ Led(a.term)

LeaderSafe(A, n, c) ==
    /\ c.log # << >> /\ Ack(c.current_term, n, Len(c.log)) \in A
    /\ \A p \in Peers(n) :
          /\ c.next_index[p] \in 1 .. Len(c.log) + 1
          /\ c.match_index[p] \in Nat
          /\ c.match_index[p] # 0 => Ack(c.current_term, p, c.match_index[p]) \in A

NodeSafe(L, A, n, c) ==
    /\ Rising(c.log, c.current_term)
    /\ \A a \in A : a.node = n => Kept(L, a, c.log, c.current_term + 1)
    /\ Reached(L, A, c.log, c.commit_index, c.current_term)
    /\ c.match_index[n] = None
    /\ c.state = Leader => LeaderSafe(A, n, c)

MessageSafe(L, A, x) ==
    /\ x.from # x.to
    /\ x.type = "AppendEntries" =>
          /\ LedBy(x.term, x.from) /\ x.prev_log_index + Len(x.entries) >= 1
          /\ L[x.term][x.prev_log_index + Len(x.entries)].term = x.term
          /\ Reached(L, A, L[x.term], x.leader_commit, x.term)
    /\ x.type = "AppendEntriesResponse" =>
          /\ x.success \/ x.first_conflicting_index # None => LedBy(x.term, x.to)
          /\ x.success => Ack(x.term, x.from, x.match_index) \in A
          /\ ~x.success /\ x.first_conflicting_index # None =>
                x.first_conflicting_index \in 1 .. Len(L[x.term])
    /\ x.type = "RequestVote" =>
          /\ core[x.from].current_term >= x.term
          /\ core[x.from].state = Candidate /\ core[x.from].current_term = x.term =>
                /\ x.last_log_index = Len(core[x.from].log)
                /\ x.last_log_term = LastTerm(core[x.from].log)

\* What the nodes that may elect a candidate have acknowledged, it holds.
VoteSafe(L, A, v) ==
    /\ v.candidate \in Node /\ core[v.candidate].current_term >= v.term
    /\ core[v.candidate].state = Candidate /\ core[v.candidate].current_term = v.term =>
          \A a \in A : a.node = v.voter /\ a.term < v.term =>
              Kept(L, a, core[v.candidate].log, v.term + 1)

\* What the nodes that have elected the leader of a term had acknowledged
\* before, it holds; and they will not acknowledge anything older any more.
Elected(L, A, t) ==
    \E Q \in SUBSET Node :
        /\ 2 * Cardinality(Q) > Cardinality(Node)
        /\ \A q \in Q : /\ core[q].current_term >= t
                        /\ \A a \in A : a.node = q /\ a.term < t => Kept(L, a, L[t], t)

Historic(L, A, e) ==
    \E u \in Nat, j \in Nat :
        /\ Settled(L, A, u, j) /\ e.index \in 1 .. j
        /\ L[u][e.index] = [term |-> e.term, command |-> e.command]

SafetyInv(L, A) ==
    /\ \A t \in Nat : LogSafe(L, t) /\ (L[t] # << >> => Elected(L, A, t))
    /\ \A a \in A : AckSafe(L, a)
    /\ \A n \in Node : NodeSafe(L, A, n, core[n]) /\ VoteOf(n, core[n]) \subseteq votes
    /\ \A x \in net : MessageSafe(L, A, x)
    /\ \A v \in votes : VoteSafe(L, A, v)
    /\ \A e \in committed : Historic(L, A, e)
-----------------------------------------------------------------------------
(***************************************************************************)
(* What settled and kept mean survives as leaders' logs and                *)
(* acknowledgements grow.                                                  *)
(***************************************************************************)
Grows(L, A, M, B) ==
    /\ Extends(L, M) /\ A \subseteq B
    /\ \A t \in Nat : L[t] # << >> =>
          \A i \in Len(L[t]) + 1 .. Len(M[t]) : M[t][i].term = t

LEMMA LogsLen ==
    ASSUME NEW L \in Logs
    PROVE  \A t \in Nat : L[t] \in Seq(Entry) /\ Len(L[t]) \in Nat
  <1>1. \A t \in Nat : L[t] \in Seq(Entry)
    BY DEF Logs
  <1> QED  BY <1>1

LEMMA TermOK ==
    ASSUME NEW log \in Seq(Entry), NEW i \in 1 .. Len(log)
    PROVE  log[i] \in Entry /\ log[i].term \in Nat
  <1>1. log[i] \in Entry
    OBVIOUS
  <1> QED  BY <1>1 DEF Entry

LEMMA LacksStable ==
    ASSUME NEW L \in Logs, NEW A, NEW M \in Logs, NEW B, Grows(L, A, M, B), NEW t \in Nat,
           NEW j \in Nat, NEW b \in Nat, NEW e \in Nat, b <= e, Lacks(L, t, j, b), j >= 1
    PROVE  Lacks(M, t, j, e)
  <1>1. PICK u \in Nat : t < u /\ u < b /\ L[u] # << >> /\ ~Has(L[u], t, j)
    BY DEF Lacks
  <1>2. L[u] \in Seq(Entry) /\ Len(L[u]) \in Nat /\ M[u] \in Seq(Entry) /\ Len(M[u]) \in Nat
    BY LogsLen
  <1>3. Len(L[u]) <= Len(M[u]) /\ (\A i \in 1 .. Len(L[u]) : M[u][i] = L[u][i])
        /\ \A i \in Len(L[u]) + 1 .. Len(M[u]) : M[u][i].term = u
    BY <1>1 DEF Grows, Extends
  <1>4. M[u] # << >>
    BY <1>1, <1>2, <1>3
  <1>5. ~Has(M[u], t, j)
    <2> SUFFICES ASSUME j <= Len(M[u]), M[u][j].term = t PROVE FALSE
      BY DEF Has
    <2>1. CASE j <= Len(L[u])
      BY <1>1, <1>2, <1>3, <2>1 DEF Has
    <2>2. CASE j > Len(L[u])
      <3>1. j \in Len(L[u]) + 1 .. Len(M[u])
        BY <1>2, <2>2
      <3> QED  BY <1>1, <1>3, <3>1
    <2> QED  BY <1>2, <2>1, <2>2
  <1>6. u < e
    BY <1>1
  <1> QED  BY <1>1, <1>4, <1>5, <1>6 DEF Lacks

LEMMA KeptStable ==
    ASSUME NEW L \in Logs, NEW A, NEW M \in Logs, NEW B, Grows(L, A, M, B),
           NEW a, a.term \in Nat, a.index \in Nat, a.index <= Len(L[a.term]),
           NEW b \in Nat, NEW e \in Nat, b <= e, NEW log \in Seq(Entry), NEW now \in Seq(Entry),
           Len(log) <= Len(now), \A j \in 1 .. Len(log) : now[j] = log[j],
           Kept(L, a, log, b)
    PROVE  Kept(M, a, now, e)
  <1> SUFFICES ASSUME NEW j \in 1 .. a.index, M[a.term][j].term = a.term
               PROVE  Has(now, a.term, j) \/ Lacks(M, a.term, j, e)
    BY DEF Kept
  <1>1. Len(L[a.term]) \in Nat /\ j \in Nat /\ j >= 1 /\ j \in 1 .. Len(L[a.term])
    BY LogsLen
  <1>2. L[a.term][j].term = a.term
    BY <1>1 DEF Grows, Extends
  <1>3. CASE Has(log, a.term, j)
    <2>1. j \in 1 .. Len(log) /\ j <= Len(now) /\ log[j].term = a.term
      BY <1>1, <1>3 DEF Has
    <2> QED  BY <2>1 DEF Has
  <1>4. CASE Lacks(L, a.term, j, b)
    BY <1>1, <1>4, LacksStable
  <1> QED  BY <1>2, <1>3, <1>4 DEF Kept

LEMMA SettledStable ==
    ASSUME NEW L \in Logs, NEW A, NEW M \in Logs, NEW B, Grows(L, A, M, B),
           NEW u, NEW j, Settled(L, A, u, j)
    PROVE  Settled(M, B, u, j) /\ Same(L[u], M[u], j)
  <1>1. u \in Nat /\ j \in 1 .. Len(L[u]) /\ L[u][j].term = u
    BY DEF Settled
  <1>2. Len(L[u]) \in Nat /\ Len(M[u]) \in Nat
    BY <1>1, LogsLen
  <1>3. Len(L[u]) <= Len(M[u]) /\ \A i \in 1 .. Len(L[u]) : M[u][i] = L[u][i]
    BY <1>1 DEF Grows, Extends
  <1>4. j \in 1 .. Len(M[u]) /\ M[u][j].term = u /\ Same(L[u], M[u], j)
    BY <1>1, <1>2, <1>3 DEF Same
  <1>5. A \subseteq B
    BY DEF Grows
  <1> QED  BY <1>1, <1>4, <1>5 DEF Settled

LEMMA ReachedStable ==
    ASSUME NEW L \in Logs, NEW A, NEW M \in Logs, NEW B, Grows(L, A, M, B),
           NEW log \in Seq(Entry), NEW now \in Seq(Entry), NEW i \in Nat,
           NEW t \in Nat, NEW s \in Nat, t <= s, Reached(L, A, log, i, t),
           i <= Len(log) => Same(log, now, i)
    PROVE  Reached(M, B, now, i, s)
  <1>1. CASE i = 0
    BY <1>1 DEF Reached
  <1>2. CASE i # 0
    <2>1. PICK u \in Nat, j \in Nat :
              u <= t /\ i <= j /\ Settled(L, A, u, j) /\ Same(log, L[u], i)
      BY <1>2 DEF Reached
    <2>2. Settled(M, B, u, j) /\ Same(L[u], M[u], j)
      BY <2>1, SettledStable
    <2>3. Same(log, now, i)
      BY <2>1 DEF Same
    <2>4. Len(log) \in Nat /\ Len(now) \in Nat /\ Len(L[u]) \in Nat /\ Len(M[u]) \in Nat
      BY LogsLen
    <2>5. Same(now, M[u], i)
      BY <2>1, <2>2, <2>3, <2>4 DEF Same
    <2>6. u <= s
      BY <2>1
    <2> QED  BY <2>1, <2>2, <2>5, <2>6 DEF Reached
  <1> QED  BY <1>1, <1>2
-----------------------------------------------------------------------------
(***************************************************************************)
(* A settled entry is in the log of every later leader.                    *)
(***************************************************************************)
LEMMA SettledStays ==
    ASSUME NEW L \in Logs, NEW A \in Acks, \A t \in Nat : L[t] # << >> => Elected(L, A, t),
           NEW u, NEW j, Settled(L, A, u, j), NEW t \in Nat, t > u, L[t] # << >>
    PROVE  Has(L[t], u, j)
  <1> DEFINE S == {s \in Nat : s > u /\ L[s] # << >> /\ ~Has(L[s], u, j)}
  <1>1. u \in Nat /\ j \in 1 .. Len(L[u]) /\ L[u][j].term = u
    BY DEF Settled
  <1>2. j \in Nat /\ j >= 1
    BY <1>1, LogsLen
  <1> SUFFICES ASSUME S # {} PROVE FALSE
    OBVIOUS
  <1>3. PICK s \in S : \A y \in S : s <= y
    <2>1. S \subseteq Nat
      OBVIOUS
    <2> HIDE DEF S
    <2> QED  BY <2>1, LeastNat
  <1>4. s \in Nat /\ s > u /\ L[s] # << >> /\ ~Has(L[s], u, j)
    OBVIOUS
  <1>5. PICK Q \in SUBSET Node :
            /\ 2 * Cardinality(Q) > Cardinality(Node)
            /\ \A q \in Q : \A a \in A : a.node = q /\ a.term < s => Kept(L, a, L[s], s)
    BY <1>4 DEF Elected
  <1>6. PICK R \in SUBSET Node :
            /\ 2 * Cardinality(R) > Cardinality(Node)
            /\ \A q \in R : \E k \in Nat : k >= j /\ Ack(u, q, k) \in A
    BY DEF Settled
  <1>7. PICK q : q \in Q /\ q \in R
    BY <1>5, <1>6, Majorities
  <1>8. PICK k \in Nat : k >= j /\ Ack(u, q, k) \in A
    BY <1>6, <1>7
  <1>9. Kept(L, Ack(u, q, k), L[s], s)
    BY <1>4, <1>5, <1>7, <1>8 DEF Ack
  <1>10. Has(L[s], u, j) \/ Lacks(L, u, j, s)
    <2>1. j \in 1 .. k
      BY <1>2, <1>8
    <2> QED  BY <1>1, <1>9, <2>1 DEF Kept, Ack
  <1>11. PICK v \in Nat : u < v /\ v < s /\ L[v] # << >> /\ ~Has(L[v], u, j)
    BY <1>4, <1>10 DEF Lacks
  <1>12. v \in S
    BY <1>1, <1>11
  <1>13. s <= v
    BY <1>3, <1>12
  <1> QED  BY <1>4, <1>11, <1>13

\* So the leaders of all terms from u on share the log up to it.
LEMMA SettledPrefix ==
    ASSUME NEW L \in Logs, NEW A \in Acks, \A t \in Nat : L[t] # << >> => Elected(L, A, t),
           \A t \in Nat : Agrees(L, L[t]),
           NEW u, NEW j, Settled(L, A, u, j), NEW t \in Nat, t >= u, L[t] # << >>
    PROVE  Same(L[u], L[t], j)
  <1>1. u \in Nat /\ j \in 1 .. Len(L[u]) /\ L[u][j].term = u
    BY DEF Settled
  <1>2. L[u] \in Seq(Entry) /\ Len(L[u]) \in Nat /\ L[t] \in Seq(Entry) /\ Len(L[t]) \in Nat
    BY <1>1, LogsLen
  <1>3. CASE t = u
    BY <1>1, <1>2, <1>3 DEF Same
  <1>4. CASE t > u
    <2>1. j <= Len(L[t]) /\ L[t][j].term = u
      BY <1>4, SettledStays DEF Has
    <2>2. \A i \in 1 .. j : L[u][i] = L[t][i]
      BY SMTT(30), <1>1, <1>2, <2>1, SameUpTo
    <2> QED  BY <1>1, <1>2, <2>1, <2>2 DEF Same
  <1> QED  BY <1>1, <1>3, <1>4

\* A log that agrees with the leaders' logs has rising terms.
LEMMA AgreesRising ==
    ASSUME NEW L \in Logs, \A t \in Nat : LogSafe(L, t), NEW log \in Seq(Entry),
           Agrees(L, log), NEW i \in 1 .. Len(log), NEW j \in 1 .. i
    PROVE  log[j].term <= log[i].term /\ L[log[i].term] # << >>
  <1> DEFINE t == log[i].term
  <1>1. t \in Nat
    BY TermOK
  <1>2. i <= Len(L[t]) /\ \A k \in 1 .. i : log[k] = L[t][k]
    BY DEF Agrees
  <1>3. L[t] \in Seq(Entry) /\ Len(L[t]) \in Nat /\ Rising(L[t], t)
    BY <1>1, LogsLen DEF LogSafe
  <1>4. i \in 1 .. Len(L[t]) /\ i \in 1 .. i /\ L[t] # << >>
    BY <1>2, <1>3
  <1>5. L[t][j].term <= L[t][i].term
    BY <1>3, <1>4 DEF Rising
  <1> QED  BY <1>2, <1>4, <1>5

-----------------------------------------------------------------------------
(***************************************************************************)
(* The log a follower accepts.                                             *)
(***************************************************************************)
\* What it shares with the leader, it does not lose.
LEMMA AcceptedKeeps ==
    ASSUME NEW L \in Logs, NEW c \in Core, Whole(c), NEW m, MessageOK(m),
           m.type = "AppendEntries", Agrees(L, c.log), Agrees(L, L[m.term]),
           Carries(L[m.term], m), NEW n, NEW r, r.core \in Core, Accepts(n, c, m, r),
           NEW j \in 1 .. Len(c.log), j <= Len(L[m.term]),
           c.log[j].term = L[m.term][j].term
    PROVE  j <= Len(r.core.log) /\ r.core.log[j] = c.log[j]
  <1> DEFINE prev == m.prev_log_index
             entries == m.entries
             old == c.log
             lead == L[m.term]
             now == r.core.log
             b == prev + Len(entries)
  <1>1. m.term \in Nat /\ prev \in Nat /\ entries \in Seq(Entry) /\ Len(entries) \in Nat
        /\ old \in Seq(Entry) /\ Len(old) \in Nat /\ now \in Seq(Entry) /\ Len(now) \in Nat
    <2>1. m.term \in Nat /\ prev \in Nat /\ entries \in Seq(Entry)
      BY DEF MessageOK
    <2>2. old \in Seq(Entry) /\ now \in Seq(Entry)
      BY DEF Core
    <2> QED  BY <2>1, <2>2
  <1>2. lead \in Seq(Entry) /\ Len(lead) \in Nat /\ j \in Nat /\ j >= 1 /\ j <= Len(old)
    BY <1>1, LogsLen
  <1>3. \A i \in 1 .. j : old[i] = lead[i]
    <2>1. Agrees(L, old) /\ Agrees(L, lead) /\ old[j].term = lead[j].term /\ j <= Len(lead)
      OBVIOUS
    <2> HIDE DEF old, lead, now, prev, entries, b
    <2> QED  BY SMTT(30), <1>1, <1>2, <2>1, SameUpTo
  <1>4. /\ b <= Len(now) /\ \A i \in 1 .. b : now[i] = lead[i]
        /\ now = old \/ Len(now) = b
    BY AcceptedLog
  <1>5. CASE j <= b
    <2>1. b \in Nat /\ j \in 1 .. b /\ j <= Len(now) /\ j \in 1 .. j
      BY <1>1, <1>2, <1>4, <1>5
    <2> QED  BY <1>3, <1>4, <2>1
  <1>6. CASE j > b
    <2>1. \A k \in 1 .. Len(entries) : log_term_at(c, prev + k) = entries[k].term
      <3> SUFFICES ASSUME NEW k \in 1 .. Len(entries)
                   PROVE  log_term_at(c, prev + k) = entries[k].term
        OBVIOUS
      <3>1. PICK i \in 1 .. j : i = prev + k /\ i \in 1 .. Len(old)
        BY <1>1, <1>2, <1>6
      <3>2. log_term_at(c, i) = old[i].term
        BY <3>1, WholeLog
      <3>3. entries[k] = lead[i]
        BY <3>1 DEF Carries
      <3> QED  BY <1>3, <3>1, <3>2, <3>3
    <2>2. now = old
      BY <2>1 DEF Overwrite, Accepts
    <2> QED  BY <1>1, <2>2
  <1> QED  BY <1>1, <1>2, <1>5, <1>6

\* All of it is the leader's.
LEMMA AcceptedIsLeaders ==
    ASSUME NEW L \in Logs, \A t \in Nat : LogSafe(L, t), \A t \in Nat : Agrees(L, L[t]),
           NEW c \in Core, Whole(c), NEW m, MessageOK(m),
           m.type = "AppendEntries", Agrees(L, c.log), Rising(c.log, c.current_term),
           Carries(L[m.term], m), m.prev_log_index + Len(m.entries) >= 1,
           L[m.term][m.prev_log_index + Len(m.entries)].term = m.term,
           NEW n, NEW r, r.core \in Core, Accepts(n, c, m, r)
    PROVE  /\ Same(r.core.log, L[m.term], Len(r.core.log)) /\ r.core.log # << >>
           /\ Rising(r.core.log, m.term) /\ L[m.term] # << >>
  <1> DEFINE old == c.log
             lead == L[m.term]
             now == r.core.log
             T == m.term
  <1>1. PICK b \in Nat : b = m.prev_log_index + Len(m.entries)
    BY DEF MessageOK
  <1>2. /\ T \in Nat /\ old \in Seq(Entry) /\ Len(old) \in Nat /\ now \in Seq(Entry)
        /\ Len(now) \in Nat /\ lead \in Seq(Entry) /\ Len(lead) \in Nat
        /\ c.current_term \in Nat /\ c.current_term <= T
    <2>1. T \in Nat /\ old \in Seq(Entry) /\ now \in Seq(Entry) /\ c.current_term \in Nat
      BY DEF MessageOK, Core
    <2> QED  BY <2>1, LogsLen DEF Accepts
  <1>3. /\ b <= Len(now) /\ b <= Len(lead) /\ (\A i \in 1 .. b : now[i] = lead[i])
        /\ (now = old \/ Len(now) = b) /\ Agrees(L, now)
    <2>1. Agrees(L, L[m.term])
      BY <1>2
    <2> QED  BY <1>1, <2>1, AcceptedLog
  <1>4. b >= 1 /\ lead[b].term = T
    BY <1>1
  <1> HIDE DEF lead, old, now, T
  <1>5. b \in 1 .. Len(now) /\ b \in 1 .. Len(lead) /\ now # << >> /\ lead # << >>
        /\ now[b].term = T
    BY <1>2, <1>3, <1>4
  <1>6. Same(now, lead, Len(now))
    <2>1. CASE Len(now) = b
      BY <1>2, <1>3, <2>1 DEF Same
    <2>2. CASE now = old
      <3> DEFINE i == Len(now)
      <3>1. i \in 1 .. Len(now) /\ b \in 1 .. i
        BY <1>2, <1>5
      <3>2. now[b].term <= now[i].term
        BY <1>2, <1>3, <3>1, AgreesRising
      <3>3. now[i].term <= c.current_term /\ now[i].term \in Nat
        BY <1>2, <2>2, <3>1, TermOK DEF Rising, old
      <3>4. now[i].term = T
        BY SMTT(30), <1>2, <1>5, <3>2, <3>3
      <3>5. i <= Len(L[T]) /\ \A j \in 1 .. i : now[j] = L[T][j]
        BY <1>3, <3>1, <3>4 DEF Agrees
      <3> QED  BY <1>2, <3>5 DEF Same, lead, T
    <2> QED  BY <1>3, <2>1, <2>2
  <1>7. Rising(now, T)
    <2> SUFFICES ASSUME NEW i \in 1 .. Len(now)
                 PROVE  now[i].term <= T /\ \A j \in 1 .. i : now[j].term <= now[i].term
      BY DEF Rising
    <2>1. i \in 1 .. Len(lead) /\ now[i] = lead[i]
      BY <1>2, <1>6 DEF Same
    <2>2. LogSafe(L, T)
      BY <1>2
    <2>3. now[i].term <= T
      BY <2>1, <2>2 DEF LogSafe, Rising, lead, T
    <2> QED  BY <1>2, <1>3, <2>3, AgreesRising
  <1> QED  BY <1>5, <1>6, <1>7 DEF lead, now, T
-----------------------------------------------------------------------------
(***************************************************************************)
(* What the handlers do to the tables of the peers and to the vote.        *)
(***************************************************************************)
SamePeers(c, d) == d.next_index = c.next_index /\ d.match_index = c.match_index

SameVote(c, r) ==
    /\ r.core.current_term = c.current_term /\ r.core.voted_for = c.voted_for
    /\ r.acts.meta = << >>

\* The only change to term and vote is that of check_msg_term.
StepsDown(c, m, r) ==
    /\ r.acts.meta = StepDownMeta(c, m.term)
    /\ r.core.current_term = check_msg_term(c, m.term).current_term
    /\ r.core.voted_for = check_msg_term(c, m.term).voted_for

Grants(c, m, r) ==
    /\ m.term >= c.current_term /\ log_check(c, m)
    /\ r.core.current_term = m.term /\ r.core.voted_for = m.from

\* The metadata that reach the disk on the way: no vote, or the result's.
MetaVotes(r) ==
    \A k \in 1 .. Len(r.acts.meta) :
        \/ r.acts.meta[k].voted_for = None
        \/ r.acts.meta[k] = [term |-> r.core.current_term, voted_for |-> r.core.voted_for]

LEMMA StepsDownVote ==
    ASSUME NEW c \in Core, NEW m, m.term \in Nat, NEW r, StepsDown(c, m, r)
    PROVE  /\ MetaVotes(r)
           /\ \/ r.core.voted_for = None
              \/ r.core.current_term = c.current_term /\ r.core.voted_for = c.voted_for
  <1>1. c.current_term \in Nat
    BY DEF Core
  <1>2. CASE m.term > c.current_term
    <2> DEFINE f == [term |-> m.term, voted_for |-> None]
    <2>1. r.acts.meta = <<f>> /\ f.voted_for = None /\ r.core.voted_for = None
      BY <1>2, CheckMsgTerm DEF StepsDown, StepDownMeta
    <2> HIDE DEF f
    <2> QED  BY <2>1 DEF MetaVotes
  <1>3. CASE ~(m.term > c.current_term)
    <2>1. check_msg_term(c, m.term) = c /\ r.acts.meta = << >>
      BY <1>3 DEF StepsDown, StepDownMeta, check_msg_term
    <2> QED  BY <2>1 DEF StepsDown, MetaVotes
  <1> QED  BY <1>2, <1>3

LEMMA HeartbeatResult ==
    ASSUME NEW n, NEW c
    PROVE  LET r == heartbeat(n, c) IN
           r.core = c /\ r.acts.meta = << >> /\ r.acts.send = append_entries(n, c)
  <1> DEFINE sent == append_entries(n, c)
             r == heartbeat(n, c)
  <1>1. r = Returns(c, [NoActions EXCEPT !.send = sent])
    BY DEF heartbeat
  <1> HIDE DEF sent, r
  <1>2. r.core = c /\ r.acts.meta = << >> /\ r.acts.send = sent
    BY <1>1 DEF Returns, NoActions
  <1> QED  BY <1>2 DEF sent, r

LEMMA ElectionTimeoutResult ==
    ASSUME NEW n \in Node, NEW c \in Core
    PROVE  LET r == election_timeout(n, c) IN SamePeers(c, r.core) /\ MetaVotes(r)
  <1> DEFINE elect == [c EXCEPT !.current_term = c.current_term + 1, !.state = Candidate,
                                !.current_leader = None, !.votes_received = {n},
                                !.voted_for = n]
             request(p) == [ type |-> "RequestVote", from |-> n, to |-> p,
                             term |-> elect.current_term,
                             last_log_index |-> last_log_index(c),
                             last_log_term |-> last_log_term(c) ]
             sent == {request(p) : p \in Peers(n)}
             f == [term |-> elect.current_term, voted_for |-> n]
             r == election_timeout(n, c)
  <1>1. r = Returns(elect, [NoActions EXCEPT !.meta = <<f>>, !.send = sent])
    BY Zenon DEF election_timeout
  <1>2. SamePeers(c, elect)
    BY DEF SamePeers, Core
  <1>3. f = [term |-> elect.current_term, voted_for |-> elect.voted_for]
    BY DEF Core
  <1> HIDE DEF sent, r, elect, f
  <1>4. r.core = elect /\ r.acts.meta = <<f>>
    BY <1>1 DEF Returns, NoActions
  <1>5. MetaVotes(r)
    BY <1>3, <1>4 DEF MetaVotes
  <1> QED  BY <1>2, <1>4, <1>5 DEF r

LEMMA ProposeResult ==
    ASSUME NEW n \in Node, NEW c \in Core, NEW command \in Command
    PROVE  LET r == propose(n, c, command) IN SamePeers(c, r.core) /\ SameVote(c, r)
  <1> DEFINE pushed == Push(c, command)
             persist == PersistLast(pushed)
             sent == append_entries(n, pushed)
             acts == [NoActions EXCEPT !.log = persist, !.send = sent]
             r == propose(n, c, command)
  <1>1. r = Returns(pushed, acts)
    BY Zenon DEF propose
  <1>2. pushed = [c EXCEPT !.log = pushed.log]
    BY PushOK
  <1> HIDE DEF sent, r, pushed, persist
  <1>3. r.core = pushed /\ r.acts.meta = << >>
    BY <1>1 DEF Returns, NoActions
  <1> QED  BY <1>2, <1>3 DEF SamePeers, SameVote, Core, r

LEMMA RequestVoteResult ==
    ASSUME NEW n \in Node, NEW c0 \in Core, NEW m, MessageOK(m)
    PROVE  LET r == handle_request_vote(n, c0, m) IN
           /\ SamePeers(c0, r.core) /\ MetaVotes(r)
           /\ \/ r.core.voted_for = None \/ Grants(c0, m, r)
              \/ r.core.current_term = c0.current_term /\ r.core.voted_for = c0.voted_for
  <1> DEFINE c == check_msg_term(c0, m.term)
             grant == m.term >= c.current_term /\ can_vote(c, m.from) /\ log_check(c, m)
             response == [ type |-> "RequestVoteResponse", from |-> n, to |-> m.from,
                           term |-> c.current_term, vote_granted |-> grant ]
             e == [term |-> c.current_term, voted_for |-> m.from]
             vote == IF grant THEN <<e>> ELSE << >>
             meta == StepDownMeta(c0, m.term) \o vote
             voted == [c EXCEPT !.voted_for = m.from]
             d == IF grant THEN voted ELSE c
             r == handle_request_vote(n, c0, m)
  <1>1. r = Returns(d, [NoActions EXCEPT !.meta = meta, !.send = {response}])
    BY Zenon DEF handle_request_vote
  <1>2. m.term \in Nat /\ m.from \in Node
    BY DEF MessageOK
  <1>3. c \in Core /\ SameLog(c0, c) /\ c.next_index = c0.next_index
        /\ c.match_index = c0.match_index /\ c.current_term >= m.term
        /\ c.current_term >= c0.current_term /\ c0.current_term \in Nat
        /\ c.current_term \in Nat
    <2>1. c \in Core /\ c0.current_term \in Nat
      BY <1>2, CheckMsgTerm DEF Core
    <2> QED  BY ZenonT(30), <1>2, <2>1, CheckMsgTerm, CheckMsgTermKeeps DEF Core
  <1>4. log_check(c, m) => log_check(c0, m)
    <2>1. last_log_index(c) = last_log_index(c0) /\ last_log_term(c) = last_log_term(c0)
      BY <1>3, SameLogTerms DEF last_log_term
    <2> QED  BY <2>1 DEF log_check
  <1>5. grant => m.term >= c.current_term /\ log_check(c, m)
    OBVIOUS
  <1>6. grant \in BOOLEAN
    BY DEF can_vote, log_check
  <1>7. c.voted_for = None \/ (c.current_term = c0.current_term /\ c.voted_for = c0.voted_for)
    BY <1>2, <1>3, CheckMsgTerm
  <1>8. StepDownMeta(c0, m.term) = << >>
        \/ StepDownMeta(c0, m.term) = <<[term |-> m.term, voted_for |-> None]>>
    BY DEF StepDownMeta
  <1> HIDE DEF c, grant
  <1>9. voted.next_index = c.next_index /\ voted.match_index = c.match_index
        /\ voted.current_term = c.current_term /\ voted.voted_for = m.from
    BY <1>3 DEF Core
  <1> HIDE DEF meta, response, voted
  <1>10. SamePeers(c0, d)
    BY <1>3, <1>9 DEF SamePeers
  <1>11. \A k \in 1 .. Len(meta) :
            meta[k].voted_for = None
            \/ meta[k] = [term |-> d.current_term, voted_for |-> d.voted_for]
    <2>1. CASE grant
      <3>1. e = [term |-> d.current_term, voted_for |-> d.voted_for] /\ vote = <<e>>
        BY <1>9, <2>1
      <3> HIDE DEF e, d, vote
      <3>2. CASE StepDownMeta(c0, m.term) = << >>
        <4>1. meta = <<e>>
          BY <3>1, <3>2 DEF meta
        <4> QED  BY <3>1, <4>1
      <3>3. CASE StepDownMeta(c0, m.term) = <<[term |-> m.term, voted_for |-> None]>>
        <4> DEFINE f == [term |-> m.term, voted_for |-> None]
                   S == {e, f}
        <4>1. f.voted_for = None /\ StepDownMeta(c0, m.term) = <<f>> /\ e \in S /\ f \in S
          BY <3>3
        <4> HIDE DEF f, S
        <4>2. meta = <<f>> \o <<e>>
          BY <3>1, <4>1, Zenon DEF meta
        <4>3. Len(meta) = 2 /\ meta[1] = f /\ meta[2] = e
          BY <4>1, <4>2, TwoElements
        <4> QED  BY <3>1, <4>1, <4>3
      <3> QED  BY <1>8, <3>2, <3>3
    <2>2. CASE ~grant
      <3>1. vote = << >>
        BY <2>2
      <3> DEFINE f == [term |-> m.term, voted_for |-> None]
                 S == {f}
      <3>2. f.voted_for = None /\ (StepDownMeta(c0, m.term) = << >>
                                   \/ StepDownMeta(c0, m.term) = <<f>>) /\ f \in S
        BY <1>8
      <3> HIDE DEF f, vote, S
      <3>3. StepDownMeta(c0, m.term) \in Seq(S)
        <4>1. << >> \in Seq(S) /\ <<f>> \in Seq(S)
          BY <3>2
        <4> QED  BY <3>2, <4>1, Zenon
      <3>4. meta = StepDownMeta(c0, m.term)
        BY <3>1, <3>3, ConcatEmptySeq DEF meta
      <3> QED  BY <3>2, <3>4
    <2> QED  BY <2>1, <2>2
  <1>12. grant => d.current_term = m.term /\ d.voted_for = m.from
    BY <1>2, <1>3, <1>5, <1>9
  <1>13. ~grant => d = c
    OBVIOUS
  <1> HIDE DEF d, r
  <1>14. r.core = d /\ r.acts.meta = meta
    BY <1>1 DEF Returns, NoActions
  <1>15. MetaVotes(r)
    BY <1>11, <1>14 DEF MetaVotes
  <1>16. grant => Grants(c0, m, r)
    BY <1>2, <1>3, <1>4, <1>5, <1>12, <1>14 DEF Grants
  <1> QED  BY <1>6, <1>7, <1>10, <1>13, <1>14, <1>15, <1>16 DEF r
\* A candidate that wins starts every peer behind its log, with nothing matched.
Wins(n, c, r) ==
    /\ c.state = Candidate /\ Pushes(n, c, r, Noop) /\ SameVote(c, r)
    /\ r.core.match_index[n] = c.match_index[n]
    /\ \A p \in Peers(n) : /\ r.core.next_index[p] = last_log_index(r.core) + 1
                           /\ r.core.match_index[p] = 0

LEMMA RequestVoteResponseResult ==
    ASSUME NEW n \in Node, NEW c0 \in Core, NEW m, MessageOK(m)
    PROVE  LET r == handle_request_vote_response(n, c0, m) IN
           \/ Wins(n, c0, r)
           \/ /\ Idle(c0, r) /\ r.acts.send = {} /\ SamePeers(c0, r.core)
              /\ StepsDown(c0, m, r)
  <1> DEFINE c == check_msg_term(c0, m.term)
             counted == [c EXCEPT !.votes_received = c.votes_received \cup {m.from}]
             won == 2 * Cardinality(counted.votes_received) > Cardinality(Node)
             winner == [counted EXCEPT !.state = Leader, !.current_leader = n]
             elected == initialize_leader_state(n, winner)
             acts == [NoActions EXCEPT !.meta = StepDownMeta(c0, m.term)]
             leads == [acts EXCEPT !.log = PersistLast(elected),
                                   !.send = append_entries(n, elected)]
             r == handle_request_vote_response(n, c0, m)
             plain == c.state # Candidate \/ ~m.vote_granted
  <1>0. m.from \in Node /\ m.term \in Nat
    BY DEF MessageOK
  <1>1. c \in Core /\ c.next_index = c0.next_index /\ c.match_index = c0.match_index
    BY <1>0, CheckMsgTerm
  <1>2. c.state # Follower => c = c0 /\ m.term <= c0.current_term
    BY <1>0, CheckMsgTermRole
  <1>3. r = IF plain THEN Returns(c, acts)
            ELSE IF ~won THEN Returns(counted, acts) ELSE Returns(elected, leads)
    BY Zenon DEF handle_request_vote_response
  <1>4. acts.meta = StepDownMeta(c0, m.term)
    BY DEF NoActions
  <1>5. leads.meta = StepDownMeta(c0, m.term)
    BY DEF NoActions
  <1>6. \/ Idle(c0, r) /\ r.acts.send = {}
        \/ c0.state = Candidate /\ Pushes(n, c0, r, Noop)
    BY RequestVoteResponseKeeps
  <1>7. c0.current_term \in Nat /\ c0.log \in Seq(Entry)
    BY DEF Core
  <1> HIDE DEF acts, leads, r
  <1>8. ASSUME NEW d, SamePeers(c, d), d.log = c0.log, d.current_term = c.current_term,
               d.voted_for = c.voted_for, r.core = d, r.acts = acts
        PROVE  /\ Idle(c0, r) /\ r.acts.send = {} /\ SamePeers(c0, r.core)
               /\ StepsDown(c0, m, r)
    <2>1. ~Pushes(n, c0, r, Noop)
      <3>1. c0.log # Append(c0.log, [term |-> c0.current_term, command |-> Noop])
        <4> DEFINE e == [term |-> c0.current_term, command |-> Noop]
        <4>1. e \in Entry
          BY <1>7 DEF Entry
        <4> HIDE DEF e
        <4>2. Len(Append(c0.log, e)) = Len(c0.log) + 1 /\ Len(c0.log) \in Nat
          BY <1>7, <4>1
        <4> QED  BY <4>2 DEF e
      <3> QED  BY <1>8, <3>1 DEF Pushes
    <2>2. SamePeers(c0, r.core)
      BY <1>1, <1>8 DEF SamePeers
    <2>3. StepsDown(c0, m, r)
      BY <1>4, <1>8 DEF StepsDown
    <2> QED  BY <1>6, <2>1, <2>2, <2>3
  <1>9. c.log = c0.log
    BY <1>0, CheckMsgTerm
  <1> HIDE DEF c
  <1>10. CASE plain
    <2>1. r.core = c /\ r.acts = acts
      BY <1>3, <1>10, Zenon DEF Returns
    <2>2. SamePeers(c, c)
      BY DEF SamePeers
    <2> QED  BY <1>8, <1>9, <2>1, <2>2 DEF r
  <1>11. CASE ~plain /\ ~won
    <2>1. SamePeers(c, counted) /\ counted.log = c0.log
          /\ counted.current_term = c.current_term /\ counted.voted_for = c.voted_for
      BY <1>1, <1>9 DEF Core, SamePeers
    <2> HIDE DEF counted
    <2>2. r.core = counted /\ r.acts = acts
      BY <1>3, <1>11, Zenon DEF Returns
    <2> QED  BY <1>8, <2>1, <2>2 DEF r
  <1>12. CASE ~plain /\ won
    <2> DEFINE noop == [term |-> c0.current_term, command |-> Noop]
               pushed == Push(winner, Noop)
               last == last_log_index(pushed)
               next == [p \in Node |-> IF p = n THEN pushed.next_index[p] ELSE last + 1]
               match == [p \in Node |-> IF p = n THEN pushed.match_index[p] ELSE 0]
    <2>1. c = c0 /\ c0.state = Candidate /\ m.term <= c0.current_term
      BY <1>2, <1>12 DEF Candidate, Follower
    <2>2. r.core = elected /\ r.acts = leads
      <3> HIDE DEF counted, elected
      <3> QED  BY <1>3, <1>12, Zenon DEF Returns
    <2>3. winner = [c0 EXCEPT !.votes_received = c.votes_received \cup {m.from},
                              !.state = Leader, !.current_leader = n]
      BY <2>1
    <2>4. winner.match_index = c0.match_index /\ winner.current_term = c0.current_term
          /\ winner.voted_for = c0.voted_for /\ DOMAIN winner = DOMAIN c0
          /\ winner.last_included_index = c0.last_included_index
      <3> HIDE DEF winner
      <3> QED  BY <2>3 DEF Core
    <2> HIDE DEF winner, counted
    <2>5. pushed = [winner EXCEPT !.log = pushed.log]
      <3>1. pushed = [winner EXCEPT !.log =
                          Append(winner.log, [term |-> winner.current_term, command |-> Noop])]
        BY DEF Push
      <3> HIDE DEF pushed
      <3>2. "log" \in DOMAIN winner
        BY <2>4 DEF Core
      <3> QED  BY <3>1, <3>2
    <2>6. elected = [pushed EXCEPT !.next_index = next, !.match_index = match]
      BY Zenon DEF initialize_leader_state
    <2> HIDE DEF pushed
    <2>7. pushed.match_index = c0.match_index /\ pushed.current_term = c0.current_term
          /\ pushed.voted_for = c0.voted_for /\ DOMAIN pushed = DOMAIN c0
      <3>1. {"match_index", "current_term", "voted_for"} \subseteq DOMAIN winner
        BY <2>4 DEF Core
      <3> QED  BY <2>4, <2>5, <3>1
    <2>8. match[n] = c0.match_index[n]
          /\ \A p \in Peers(n) : next[p] = last + 1 /\ match[p] = 0
      BY <2>7 DEF Peers
    <2> HIDE DEF next, match
    <2>9. elected.next_index = next /\ elected.match_index = match
          /\ elected.current_term = c0.current_term /\ elected.voted_for = c0.voted_for
          /\ elected.log = pushed.log
          /\ elected.last_included_index = pushed.last_included_index
      <3> HIDE DEF elected
      <3>1. {"next_index", "match_index"} \subseteq DOMAIN pushed
        BY <2>7 DEF Core
      <3> QED  BY <2>6, <2>7, <3>1
    <2>10. last_log_index(elected) = last
      BY <2>9 DEF last_log_index
    <2>11. StepDownMeta(c0, m.term) = << >>
      BY <1>0, <2>1 DEF StepDownMeta, Core
    <2> HIDE DEF elected, last
    <2>12. SameVote(c0, r)
      BY <1>5, <2>2, <2>9, <2>11 DEF SameVote
    <2>13. Pushes(n, c0, r, Noop)
      <3>1. ~Idle(c0, r)
        <4>1. r.core.log # c0.log
          <5> DEFINE log == winner.log
          <5>1. log = c0.log
            <6> HIDE DEF log
            <6> QED  BY <2>3 DEF Core, log
          <5>2. "log" \in DOMAIN winner
            BY <2>4 DEF Core
          <5>3. pushed.log = Append(c0.log, noop)
            BY <2>4, <5>1, <5>2 DEF Push, pushed
          <5>4. noop \in Entry
            BY <1>7 DEF Entry
          <5> HIDE DEF noop
          <5>5. Len(pushed.log) = Len(c0.log) + 1 /\ Len(c0.log) \in Nat
            BY <1>7, <5>3, <5>4
          <5> QED  BY <2>2, <2>9, <5>5
        <4> QED  BY <4>1 DEF Idle, SameLog
      <3> QED  BY <1>6, <3>1
    <2>14. \A p \in Peers(n) : /\ r.core.next_index[p] = last_log_index(r.core) + 1
                               /\ r.core.match_index[p] = 0
      BY <2>2, <2>8, <2>9, <2>10
    <2>15. Wins(n, c0, r)
      BY <2>1, <2>2, <2>8, <2>9, <2>12, <2>13, <2>14 DEF Wins
    <2> QED  BY <2>15 DEF r
  <1> QED  BY <1>10, <1>11, <1>12

LEMMA AppendEntriesResult ==
    ASSUME NEW n \in Node, NEW c0 \in Core, c0.last_applied = c0.commit_index,
           NEW m, MessageOK(m), m.type = "AppendEntries"
    PROVE  LET r == handle_append_entries(n, c0, m) IN
           SamePeers(c0, r.core) /\ StepsDown(c0, m, r)
  <1> DEFINE c1 == check_msg_term(c0, m.term)
             c2 == IF m.term = c1.current_term /\ c1.state = Candidate
                   THEN [c1 EXCEPT !.state = Follower] ELSE c1
             refused == c2.state # Follower \/ m.term < c2.current_term
             c3 == [c2 EXCEPT !.current_leader = m.from]
             c4 == Overwrite(c3, m.prev_log_index, m.entries)
             start == m.prev_log_index + 1
             persist == IF m.entries = << >> THEN None
                        ELSE [ start_index |-> start,
                               entries |-> log_slice(c4, start, last_log_index(c4) + 1) ]
             advance == m.leader_commit > c4.commit_index
             commit == IF advance THEN min(m.leader_commit, last_log_index(c4))
                       ELSE c4.commit_index
             c5 == IF advance
                   THEN [c4 EXCEPT !.commit_index = commit, !.last_applied = commit]
                   ELSE c4
             x(c, success, conflict) ==
                 [ type |-> "AppendEntriesResponse", from |-> n, to |-> m.from,
                   term |-> c1.current_term, success |-> success,
                   match_index |-> last_log_index(c), first_conflicting_index |-> conflict ]
             acts == [NoActions EXCEPT !.meta = StepDownMeta(c0, m.term)]
             refuses(y) == [acts EXCEPT !.send = {y}]
             slice == log_slice(c4, c4.commit_index + 1, commit + 1)
             apply == ApplyActions(c4.commit_index + 1, slice)
             accepts == [acts EXCEPT !.log = persist, !.apply = apply,
                                     !.send = {x(c5, TRUE, None)}]
             conflict == first_conflicting_index(c3, m.prev_log_index)
             bad == \/ OverwritePanics(c3, m.prev_log_index, m.entries)
                    \/ commit < c4.commit_index
             r == handle_append_entries(n, c0, m)
             Down(d) == /\ SamePeers(c0, d) /\ d.current_term = c1.current_term
                        /\ d.voted_for = c1.voted_for
  <1>0. m.from \in Node /\ m.term \in Nat
    BY DEF MessageOK
  <1>1. c1 \in Core /\ Down(c1)
    BY <1>0, CheckMsgTerm DEF SamePeers
  <1>2. r = IF refused THEN Returns(c2, refuses(x(c2, FALSE, None)))
            ELSE IF ~valid(c3, m) THEN Returns(c3, refuses(x(c3, FALSE, conflict)))
            ELSE ReturnsUnless(bad, c5, accepts)
    BY Zenon DEF handle_append_entries
  <1>3. ASSUME NEW d, Down(d), r.core = d, r.acts.meta = StepDownMeta(c0, m.term)
        PROVE  SamePeers(c0, r.core) /\ StepsDown(c0, m, r)
    BY <1>3 DEF StepsDown
  <1> HIDE DEF c1
  <1>4. c2 \in Core /\ Down(c2)
    <2>1. CASE m.term = c1.current_term /\ c1.state = Candidate
      <3>1. c2 = [c1 EXCEPT !.state = Follower]
        BY <2>1
      <3> HIDE DEF c2
      <3> QED  BY <1>1, <3>1 DEF Core, SamePeers
    <2>2. CASE ~ (m.term = c1.current_term /\ c1.state = Candidate)
      <3>1. c2 = c1
        BY <2>2
      <3> QED  BY <1>1, <3>1
    <2> QED  BY <2>1, <2>2
  <1> HIDE DEF c2
  <1>5. c3 \in Core /\ Down(c3)
    BY <1>0, <1>4 DEF Core, Option, SamePeers
  <1> HIDE DEF c3
  <1>6. Down(c4) /\ DOMAIN c4 = DOMAIN c3
    <2> DEFINE log == c4.log
    <2>1. SameLog(c3, c3)
      BY DEF SameLog
    <2>2. c4 = [c3 EXCEPT !.log = log]
      BY <1>5, <2>1, OverwriteSame
    <2> HIDE DEF log, c4
    <2> QED  BY <1>5, <2>2 DEF Core, SamePeers
  <1> HIDE DEF c4
  <1>7. Down(c5)
    <2>1. CASE advance
      <3>1. c5 = [c4 EXCEPT !.commit_index = commit, !.last_applied = commit]
        BY <2>1
      <3> HIDE DEF commit, c5, advance
      <3> QED  BY <1>5, <1>6, <3>1 DEF Core, SamePeers
    <2>2. CASE ~advance
      BY <1>6, <2>2
    <2> QED  BY <2>1, <2>2
  <1>8. ASSUME NEW y PROVE refuses(y).meta = StepDownMeta(c0, m.term)
    BY DEF NoActions
  <1>9. accepts.meta = StepDownMeta(c0, m.term)
    <2> HIDE DEF persist, apply, c5, x
    <2> QED  BY DEF NoActions
  <1> HIDE DEF refuses, accepts, r, conflict, x, c5, bad, Down
  <1>10. CASE refused
    <2>1. r.core = c2 /\ r.acts = refuses(x(c2, FALSE, None))
      BY <1>2, <1>10, Zenon DEF Returns
    <2> QED  BY <1>3, <1>4, <1>8, <2>1 DEF r
  <1>11. CASE ~refused /\ ~valid(c3, m)
    <2>1. r.core = c3 /\ r.acts = refuses(x(c3, FALSE, conflict))
      BY <1>2, <1>11, Zenon DEF Returns
    <2> QED  BY <1>3, <1>5, <1>8, <2>1 DEF r
  <1>12. CASE ~refused /\ valid(c3, m)
    <2>1. r = ReturnsUnless(bad, c5, accepts)
      BY <1>2, <1>12, Zenon
    <2>2. r.core = c5 /\ r.acts = accepts
      BY <2>1 DEF ReturnsUnless, Returns
    <2> QED  BY <1>3, <1>7, <1>9, <2>2 DEF r
  <1> QED  BY <1>10, <1>11, <1>12

\* A response of the current term.
LEMMA AppendEntriesResponseResult ==
    ASSUME NEW n \in Node, NEW c \in Core, c.last_applied = c.commit_index,
           NEW m, MessageOK(m), m.type = "AppendEntriesResponse", m.term = c.current_term
    PROVE  LET r == handle_append_entries_response(n, c, m) IN
           /\ SameVote(c, r)
           /\ m.success =>
                 r.core.next_index = [c.next_index EXCEPT ![m.from] = m.match_index + 1]
           /\ ~m.success =>
                 /\ r.core.match_index = c.match_index
                 /\ r.core.next_index = c.next_index
                    \/ r.core.next_index = [c.next_index EXCEPT ![m.from] =
                           IF m.first_conflicting_index = None THEN 0
                           ELSE m.first_conflicting_index]
  <1> DEFINE c1 == check_msg_term(c, m.term)
             retry == IF m.first_conflicting_index = None THEN 0
                      ELSE m.first_conflicting_index
             back == IF c1.next_index[m.from] = None THEN c1
                     ELSE [c1 EXCEPT !.next_index[m.from] = retry]
             counted == {[b EXCEPT !.count = b.count + 1] : b \in c1.read_barriers}
             c2 == [c1 EXCEPT !.match_index[m.from] = m.match_index,
                              !.next_index[m.from] = m.match_index + 1,
                              !.read_barriers = counted]
             replicated == replicated_index(c2)
             commit == new_commit(c2, replicated)
             done == {b \in c2.read_barriers : b.count >= Cardinality(Node) \div 2}
             c3 == [c2 EXCEPT !.commit_index = commit, !.last_applied = commit,
                              !.read_barriers = c2.read_barriers \ done]
             acts == [NoActions EXCEPT !.meta = StepDownMeta(c, m.term)]
             again == {build_append_entries_for_peer(n, back, m.from)}
             slice == log_slice(c2, c2.last_applied + 1, commit + 1)
             apply == ApplyActions(c2.last_applied + 1, slice)
             ready == {b.id : b \in done}
             retries == [acts EXCEPT !.send = again]
             succeeds == [acts EXCEPT !.apply = apply, !.ready = ready]
             bad == \/ \E i \in c2.commit_index + 1 .. replicated : log_term_at(c2, i) = None
                    \/ slice_panics(c2, c2.last_applied + 1, commit + 1)
             r == handle_append_entries_response(n, c, m)
  <1>0. m.success \in BOOLEAN
    BY DEF MessageOK
  <1>1. c1 = c /\ StepDownMeta(c, m.term) = << >>
    BY DEF check_msg_term, StepDownMeta, Core
  <1>2. r = IF ~m.success THEN Returns(back, retries)
            ELSE ReturnsUnless(bad, c3, succeeds)
    BY Zenon DEF handle_append_entries_response
  <1>3. retries.meta = << >>
    <2> HIDE DEF again
    <2> QED  BY <1>1 DEF NoActions
  <1>4. succeeds.meta = << >>
    <2> HIDE DEF apply, ready
    <2> QED  BY <1>1 DEF NoActions
  <1> HIDE DEF retries, succeeds, r, c1
  <1>5. CASE ~m.success
    <2>1. r.core = back /\ r.acts = retries
      <3>1. r = Returns(back, retries)
        BY <1>2, <1>5
      <3> HIDE DEF back
      <3> QED  BY <3>1 DEF Returns
    <2> DEFINE next == [c.next_index EXCEPT ![m.from] = retry]
    <2>2. back = c \/ back = [c EXCEPT !.next_index = next]
      BY <1>1
    <2> HIDE DEF next, back
    <2>3. /\ back.match_index = c.match_index /\ back.current_term = c.current_term
          /\ back.voted_for = c.voted_for
          /\ back.next_index = c.next_index \/ back.next_index = next
      BY <2>2 DEF Core
    <2> QED  BY <1>3, <1>5, <2>1, <2>3 DEF r, SameVote, next
  <1>6. CASE m.success
    <2> DEFINE next == [c.next_index EXCEPT ![m.from] = m.match_index + 1]
               match == [c.match_index EXCEPT ![m.from] = m.match_index]
    <2>1. r.core = c3 /\ r.acts = succeeds
      <3>1. r = ReturnsUnless(bad, c3, succeeds)
        BY <1>2, <1>6, Zenon
      <3> HIDE DEF bad, c3
      <3> QED  BY <3>1 DEF ReturnsUnless, Returns
    <2>2. c2 = [c EXCEPT !.match_index = match, !.next_index = next,
                         !.read_barriers = counted]
      BY <1>1 DEF Core
    <2> HIDE DEF next, counted, c2, match, commit, done
    <2>3. c2.next_index = next /\ c2.current_term = c.current_term
          /\ c2.voted_for = c.voted_for /\ DOMAIN c2 = DOMAIN c
      BY <2>2 DEF Core
    <2>4. c3.next_index = next /\ c3.current_term = c.current_term
          /\ c3.voted_for = c.voted_for
      BY <2>3 DEF Core
    <2> HIDE DEF c3
    <2> QED  BY <1>4, <1>6, <2>1, <2>4 DEF r, SameVote, next
  <1> QED  BY <1>0, <1>5, <1>6
-----------------------------------------------------------------------------
(***************************************************************************)
(* What a leader sends, what it commits, and what a vote vouches for.      *)
(***************************************************************************)
\* To a peer whose next index is within its log a leader sends the whole rest.
LEMMA BuildFull ==
    ASSUME NEW n \in Node, NEW c \in Core, Whole(c), NEW peer \in Node,
           c.next_index[peer] \in 1 .. Len(c.log) + 1
    PROVE  LET x == build_append_entries_for_peer(n, c, peer) IN
           /\ x.type = "AppendEntries"
           /\ x.prev_log_index + Len(x.entries) = Len(c.log)
  <1> DEFINE next == c.next_index[peer]
             prev == next - 1
             slice == log_slice(c, next, last_log_index(c) + 1)
             entries == [ type |-> "AppendEntries", from |-> n, to |-> peer,
                          term |-> c.current_term,
                          prev_log_index |-> prev, prev_log_term |-> log_term_at(c, prev),
                          entries |-> slice, leader_commit |-> c.commit_index ]
  <1>1. last_log_index(c) = Len(c.log) /\ Len(c.log) \in Nat /\ c.log \in Seq(Entry)
        /\ c.last_included_index = 0
    BY WholeLog DEF Core, Whole
  <1>2. next # None /\ next > 0 /\ next \in Nat \ {0} /\ prev \in Nat /\ prev <= Len(c.log)
    BY <1>1, CoreAssumption
  <1>3. log_term_at(c, prev) # None
    BY <1>1, <1>2, LogTermAt, CoreAssumption
  <1>4. build_append_entries_for_peer(n, c, peer) = entries
    <2> HIDE DEF entries
    <2> DEFINE later == IF c.next_index[peer] = None THEN last_log_index(c)
                        ELSE c.next_index[peer]
               before == IF later > 0 THEN later - 1 ELSE 0
    <2>1. build_append_entries_for_peer(n, c, peer) =
              IF log_term_at(c, before) = None
              THEN install_snapshot_for_peer(n, c, peer)
              ELSE [ type |-> "AppendEntries", from |-> n, to |-> peer,
                     term |-> c.current_term,
                     prev_log_index |-> before, prev_log_term |-> log_term_at(c, before),
                     entries |-> log_slice(c, later, last_log_index(c) + 1),
                     leader_commit |-> c.commit_index ]
      BY Zenon DEF build_append_entries_for_peer
    <2>2. later = next /\ before = prev
      BY <1>2
    <2> HIDE DEF later, before
    <2> QED  BY <1>3, <2>1, <2>2 DEF entries
  <1>5. slice = SubSeq(c.log, next, Len(c.log))
    BY <1>1, <1>2, WholeLog
  <1>6. Len(slice) = Len(c.log) + 1 - next
    BY <1>1, <1>5, TailOK
  <1> HIDE DEF slice
  <1>7. prev + Len(slice) = Len(c.log)
    BY SMTT(30), <1>1, <1>2, <1>6
  <1> QED  BY <1>4, <1>7

OddCluster == Cardinality(Node) % 2 = 1

\* The tables of a leader: its own entry is absent, the others acknowledged.
Tracks(A, n, c) ==
    /\ c.match_index[n] = None /\ Ack(c.current_term, n, Len(c.log)) \in A
    /\ \A p \in Peers(n) :
          /\ c.match_index[p] \in Nat /\ c.match_index[p] <= Len(c.log)
          /\ c.match_index[p] # 0 => Ack(c.current_term, p, c.match_index[p]) \in A

LEMMA ReplicatedByMajority ==
    ASSUME OddCluster, NEW A, NEW n \in Node, NEW c \in Core, Whole(c), Tracks(A, n, c)
    PROVE  LET i == replicated_index(c) IN
           /\ i \in Nat /\ i <= Len(c.log)
           /\ i > 0 => \E Q \in SUBSET Node :
                          /\ 2 * Cardinality(Q) > Cardinality(Node)
                          /\ \A q \in Q : \E k \in Nat :
                                k >= i /\ Ack(c.current_term, q, k) \in A
  <1> DEFINE tracked == {p \in Node : c.match_index[p] # None}
             last == last_log_index(c)
             len == Cardinality(tracked) + 1
             above(v) == {p \in tracked : c.match_index[p] >= v}
             reached(v) == Cardinality({p \in tracked : c.match_index[p] >= v})
                           + (IF last >= v THEN 1 ELSE 0)
             values == {c.match_index[p] : p \in tracked} \cup {last}
             high == {v \in {c.match_index[p] : p \in tracked} \cup {last} :
                          reached(v) >= len - len \div 2}
             i == replicated_index(c)
  <1>1. last = Len(c.log) /\ last \in Nat
    BY WholeLog DEF Core
  <1>2. tracked = Peers(n)
    BY CoreAssumption DEF Tracks, Peers
  <1>3. \A p \in tracked : c.match_index[p] \in Nat /\ c.match_index[p] <= last
    BY <1>1, <1>2 DEF Tracks
  <1>4. IsFiniteSet(tracked) /\ n \notin tracked /\ Node = tracked \cup {n}
        /\ Cardinality(tracked) \in Nat /\ len = Cardinality(Node)
    <2>1. n \notin tracked /\ Node = tracked \cup {n} /\ tracked \subseteq Node
      BY <1>2 DEF Peers
    <2> HIDE DEF tracked
    <2>2. IsFiniteSet(tracked)
      BY <2>1, FS_Subset, CoreAssumption
    <2> QED  BY <2>1, <2>2, FS_CardinalityType, FS_AddElement
  <1>5. i = Max(high)
    BY Zenon DEF replicated_index
  <1>6. values \subseteq 0 .. last /\ last \in values
    BY <1>1, <1>3
  <1> HIDE DEF tracked, last
  <1>7. PICK w \in values : \A v \in values : w <= v
    <2>1. values \subseteq Nat /\ values # {}
      BY <1>1, <1>6
    <2> HIDE DEF values
    <2> QED  BY <2>1, LeastNat
  <1>8. w \in high
    <2>1. {p \in tracked : c.match_index[p] >= w} = tracked
      BY <1>1, <1>3, <1>7
    <2>2. last >= w
      BY <1>1, <1>3, <1>7
    <2>3. reached(w) = len
      BY <2>1, <2>2
    <2>4. len \in Nat /\ len >= len - len \div 2
      BY <1>4
    <2> HIDE DEF reached, len
    <2> QED  BY <2>3, <2>4
  <1>9. i \in high
    <2>1. high \subseteq 0 .. last /\ high # {}
      BY <1>6, <1>8
    <2> HIDE DEF high, i
    <2> QED  BY <1>1, <1>5, <2>1, MaxNat
  <1> HIDE DEF i
  <1>10. i \in 0 .. last /\ reached(i) >= len - len \div 2
    BY <1>6, <1>9
  <1>11. i \in Nat /\ i <= last
    BY <1>1, <1>10
  <1>12. ASSUME i > 0
         PROVE  \E Q \in SUBSET Node :
                    /\ 2 * Cardinality(Q) > Cardinality(Node)
                    /\ \A q \in Q : \E k \in Nat :
                          k >= i /\ Ack(c.current_term, q, k) \in A
    <2> DEFINE S == above(i)
               Q == S \cup {n}
    <2>1. S \subseteq tracked /\ n \notin S /\ Q \in SUBSET Node
      BY <1>4
    <2>2. IsFiniteSet(S) /\ Cardinality(S) \in Nat /\ Cardinality(Q) = Cardinality(S) + 1
      <3> HIDE DEF S
      <3>1. IsFiniteSet(S)
        BY <1>4, <2>1, FS_Subset
      <3> QED  BY <2>1, <3>1, FS_CardinalityType, FS_AddElement
    <2>3. Cardinality(S) + 1 >= len - len \div 2
      BY <1>1, <1>10, <1>11
    <2>4. 2 * Cardinality(Q) > Cardinality(Node)
      <3>0. Cardinality(Node) \in Nat
        BY <1>4
      <3> HIDE DEF S, len, Q
      <3>1. PICK N \in Nat, s \in Nat : N = Cardinality(Node) /\ s = Cardinality(S)
        BY <2>2, <3>0
      <3>2. N % 2 = 1 /\ s + 1 >= N - N \div 2
        BY <1>4, <2>3, <3>1 DEF OddCluster
      <3>3. PICK h \in Nat : N = 2 * h + 1 /\ N \div 2 = h
        BY <3>2
      <3>4. 2 * (s + 1) > N
        BY <3>2, <3>3
      <3> QED  BY <2>2, <3>1, <3>4
    <2>5. ASSUME NEW q \in Q
          PROVE  \E k \in Nat : k >= i /\ Ack(c.current_term, q, k) \in A
      <3>1. CASE q = n
        BY <1>1, <1>11, <3>1 DEF Tracks
      <3>2. CASE q # n
        <4>1. q \in tracked /\ c.match_index[q] >= i
          BY <3>2
        <4>2. q \in Peers(n) /\ c.match_index[q] # 0 /\ c.match_index[q] \in Nat
          BY <1>2, <1>3, <1>11, <1>12, <4>1
        <4> QED  BY <4>1, <4>2 DEF Tracks
      <3> QED  BY <3>1, <3>2
    <2> HIDE DEF Q
    <2> QED  BY <2>1, <2>4, <2>5
  <1> QED  BY <1>1, <1>11, <1>12 DEF i

\* What a leader commits is settled.
LEMMA CommitReached ==
    ASSUME OddCluster, NEW L \in Logs, NEW A, NEW n \in Node, NEW c \in Core, Whole(c),
           Tracks(A, n, c), L[c.current_term] = c.log,
           Reached(L, A, c.log, c.commit_index, c.current_term)
    PROVE  LET i == replicated_index(c)
               k == new_commit(c, i)
           IN  /\ i \in Nat /\ i <= Len(c.log) /\ k \in Nat
               /\ k >= c.commit_index /\ k <= Len(c.log)
               /\ Reached(L, A, c.log, k, c.current_term)
  <1>1. PICK i \in Nat :
            /\ i = replicated_index(c) /\ i <= Len(c.log)
            /\ i > 0 => \E Q \in SUBSET Node :
                           /\ 2 * Cardinality(Q) > Cardinality(Node)
                           /\ \A q \in Q : \E k \in Nat :
                                 k >= i /\ Ack(c.current_term, q, k) \in A
    BY ReplicatedByMajority
  <1> DEFINE T == c.current_term
             current == {j \in c.commit_index + 1 .. last_log_index(c) :
                             j <= i /\ log_term_at(c, j) = T}
             k == new_commit(c, i)
  <1>2. T \in Nat /\ c.commit_index \in Nat /\ c.log \in Seq(Entry) /\ Len(c.log) \in Nat
        /\ last_log_index(c) = Len(c.log)
    BY WholeLog DEF Core
  <1>3. k = IF current = {} THEN c.commit_index ELSE Max(current)
    BY DEF new_commit
  <1>4. c.commit_index <= Len(c.log)
    BY <1>2 DEF Reached, Same
  <1>5. CASE current = {}
    BY <1>1, <1>2, <1>3, <1>4, <1>5
  <1>6. CASE current # {}
    <2>1. current \subseteq 0 .. Len(c.log)
      BY <1>2
    <2>2. k \in current
      <3> HIDE DEF current, k
      <3> QED  BY <1>2, <1>3, <1>6, <2>1, MaxNat
    <2> HIDE DEF k
    <2>3. k \in Nat /\ k >= 1 /\ k <= i /\ k >= c.commit_index /\ k \in 1 .. Len(c.log)
          /\ log_term_at(c, k) = T
      BY <1>2, <2>2
    <2>4. c.log[k].term = T
      BY <2>3, WholeLog
    <2>5. Settled(L, A, T, k)
      <3>1. PICK Q \in SUBSET Node :
                /\ 2 * Cardinality(Q) > Cardinality(Node)
                /\ \A q \in Q : \E j \in Nat : j >= i /\ Ack(T, q, j) \in A
        BY <1>1, <2>3
      <3>2. \A q \in Q : \E j \in Nat : j >= k /\ Ack(T, q, j) \in A
        BY <2>3, <3>1
      <3> QED  BY <1>2, <2>3, <2>4, <3>1, <3>2 DEF Settled
    <2>6. Same(c.log, L[T], k)
      BY <1>2, <2>3 DEF Same
    <2>7. Reached(L, A, c.log, k, T)
      BY <1>2, <2>3, <2>5, <2>6 DEF Reached
    <2> QED  BY <1>1, <2>3, <2>7 DEF k
  <1> QED  BY <1>5, <1>6
-----------------------------------------------------------------------------
(***************************************************************************)
(* One node's core changes.                                                *)
(***************************************************************************)
\* The vote the core holds was held before, is for itself, or goes to a
\* candidate whose log holds what the voter has acknowledged.
VoteOK(L, A, n, c) ==
    c.voted_for # None =>
        \/ Vote(c.current_term, n, c.voted_for) \in votes
        \/ c.voted_for = n
        \/ LET p == c.voted_for IN
           /\ p \in Node /\ p # n /\ core[p].current_term >= c.current_term
           /\ core[p].state = Candidate /\ core[p].current_term = c.current_term =>
                 \A a \in A : a.node = n /\ a.term < c.current_term =>
                     Kept(L, a, core[p].log, c.current_term + 1)

\* A candidate keeps its log until it stands again.
Stands(c, d) ==
    d.state = Candidate =>
        \/ c.state = Candidate /\ d.current_term = c.current_term /\ d.log = c.log
        \/ d.current_term > c.current_term

\* Node n may go on with core c, the leaders' logs being M and the
\* acknowledgements B from now on.
StepSafe(L, A, M, B, n, c) ==
    /\ Grows(L, A, M, B) /\ c.current_term >= core[n].current_term
    /\ \A t \in Nat : LogSafe(M, t)
    /\ \A t \in Nat : L[t] = << >> /\ M[t] # << >> => t = c.current_term /\ Elected(M, A, t)
    /\ \A a \in B : a \in A \/ (a.node = n /\ a.term = c.current_term
                               /\ a.index <= Len(M[a.term]))
    /\ NodeSafe(M, B, n, c) /\ Stands(core[n], c) /\ VoteOK(L, A, n, c)

\* A message of node n, with core c.
SentSafe(L, A, n, c, x) ==
    /\ x.from = n /\ x.to # n /\ x.type # "InstallSnapshot"
    /\ x.type = "AppendEntries" /\ c.state = Leader =>
          /\ x.term = c.current_term
          /\ x.prev_log_index + Len(x.entries) >= 1
          /\ L[x.term][x.prev_log_index + Len(x.entries)].term = x.term
          /\ Reached(L, A, L[x.term], x.leader_commit, x.term)
    /\ x.type = "AppendEntriesResponse" =>
          /\ x.success \/ x.first_conflicting_index # None => LedBy(x.term, x.to)
          /\ x.success => Ack(x.term, x.from, x.match_index) \in A
          /\ ~x.success /\ x.first_conflicting_index # None =>
                x.first_conflicting_index \in 1 .. Len(L[x.term])
    /\ x.type = "RequestVote" =>
          x.term = c.current_term /\ x.last_log_index = Len(c.log)
          /\ x.last_log_term = LastTerm(c.log)

LEMMA CoreTerms ==
    ASSUME IInv, Files
    PROVE  /\ core \in [Node -> Core]
           /\ \A k \in Node : /\ core[k] \in Core /\ core[k].current_term \in Nat
                              /\ core[k].log \in Seq(Entry) /\ core[k].commit_index \in Nat
           /\ \A v \in votes : v.voter \in Node /\ v.term \in Nat
                               /\ v.term <= core[v.voter].current_term
  <1>1. core \in [Node -> Core] /\ VotesOnDisk
    BY DEF IInv, TypeOK, VoteInv
  <1>2. \A k \in Node : /\ core[k] \in Core /\ core[k].current_term \in Nat
                        /\ core[k].log \in Seq(Entry) /\ core[k].commit_index \in Nat
    BY <1>1 DEF Core
  <1>3. \A k \in Node : core[k].current_term = DiskTerm(disk[k])
    BY DEF Files, NodeFiles, OnDisk
  <1> QED  BY <1>1, <1>2, <1>3 DEF VotesOnDisk

LEMMA AckOK ==
    ASSUME NEW A \in Acks, NEW a \in A
    PROVE  a.term \in Nat /\ a.node \in Node /\ a.index \in Nat
  BY DEF Acks

LEMMA ElectedStays ==
    ASSUME IInv, Files, NEW L \in Logs, NEW A \in Acks, SafetyInv(L, A), NEW M \in Logs,
           NEW B \in Acks, NEW n \in Node, NEW c \in Core, StepSafe(L, A, M, B, n, c),
           core' = [core EXCEPT ![n] = c], NEW t \in Nat, M[t] # << >>
    PROVE  Elected(M, B, t)'
  <1>1. core'[n] = c /\ (\A k \in Node : k # n => core'[k] = core[k])
        /\ (\A k \in Node : core[k].current_term \in Nat) /\ c.current_term \in Nat
        /\ c.current_term >= core[n].current_term
    BY CoreTerms DEF Core, StepSafe
  <1>2. \A q \in Node : core'[q].current_term \in Nat
                        /\ core'[q].current_term >= core[q].current_term
    BY <1>1
  <1>3. PICK Q \in SUBSET Node :
            /\ 2 * Cardinality(Q) > Cardinality(Node)
            /\ \A q \in Q : /\ core[q].current_term >= t
                            /\ \A a \in A : a.node = q /\ a.term < t => Kept(M, a, M[t], t)
    <2>1. CASE L[t] = << >>
      BY <2>1 DEF StepSafe, Elected
    <2>2. CASE L[t] # << >>
      <3>1. PICK Q \in SUBSET Node :
                /\ 2 * Cardinality(Q) > Cardinality(Node)
                /\ \A q \in Q : /\ core[q].current_term >= t
                                /\ \A a \in A : a.node = q /\ a.term < t => Kept(L, a, L[t], t)
        BY <2>2 DEF SafetyInv, Elected
      <3>2. ASSUME NEW a \in A, Kept(L, a, L[t], t) PROVE Kept(M, a, M[t], t)
        <4>1. a.term \in Nat /\ a.index \in Nat /\ a.index <= Len(L[a.term])
          BY AckOK DEF SafetyInv, AckSafe
        <4>2. L[t] \in Seq(Entry) /\ M[t] \in Seq(Entry)
          BY LogsLen
        <4>3. Grows(L, A, M, B) /\ Len(L[t]) <= Len(M[t])
              /\ \A j \in 1 .. Len(L[t]) : M[t][j] = L[t][j]
          BY DEF StepSafe, Grows, Extends
        <4>4. t <= t
          OBVIOUS
        <4> QED  BY <3>2, <4>1, <4>2, <4>3, <4>4, KeptStable
      <3> QED  BY <3>1, <3>2
    <2> QED  BY <2>1, <2>2
  <1>4. ASSUME NEW q \in Q
        PROVE  /\ core'[q].current_term >= t
               /\ \A a \in B : a.node = q /\ a.term < t => Kept(M, a, M[t], t)
    <2>1. core[q].current_term >= t /\ core'[q].current_term >= t
      BY <1>1, <1>2, <1>3
    <2>2. ASSUME NEW a \in B, a.node = q, a.term < t PROVE a \in A
      <3>1. a \in A \/ (q = n /\ a.term = c.current_term)
        BY <2>2 DEF StepSafe
      <3> QED  BY <1>1, <2>1, <2>2, <3>1
    <2> QED  BY <1>3, <2>1, <2>2
  <1> QED  BY <1>3, <1>4 DEF Elected

\* What the other nodes, the messages under way and the votes rest on stays.
LEMMA SafetyStep ==
    ASSUME IInv, Files, NEW L \in Logs, LogInv(L), NEW A \in Acks, SafetyInv(L, A),
           NEW M \in Logs, NEW B \in Acks, NEW n \in Node, NEW c \in Core,
           StepSafe(L, A, M, B, n, c), core' = [core EXCEPT ![n] = c],
           votes' = votes \cup VoteOf(n, c), leaders \subseteq leaders',
           \A a \in B : a \in A \/ Led(a.term)',
           \A x \in net' : x \in net \/ MessageSafe(M, B, x)',
           \A e \in committed' : e \in committed \/ Historic(M, B, e)
    PROVE  SafetyInv(M, B)'
  <1>1. core'[n] = c /\ (\A k \in Node : k # n => core'[k] = core[k])
        /\ (\A k \in Node : core[k].current_term \in Nat) /\ c.current_term \in Nat
        /\ c.current_term >= core[n].current_term
    BY CoreTerms DEF Core, StepSafe
  <1>2. \A q \in Node : core'[q].current_term \in Nat
                        /\ core'[q].current_term >= core[q].current_term
    BY <1>1
  <1>3. Grows(L, A, M, B) /\ Extends(L, M) /\ A \subseteq B /\ (\A t \in Nat : LogSafe(M, t))
    BY DEF StepSafe, Grows
  <1>4. \A t \in Nat : /\ L[t] \in Seq(Entry) /\ M[t] \in Seq(Entry)
                       /\ Len(L[t]) \in Nat /\ Len(M[t]) \in Nat /\ Len(L[t]) <= Len(M[t])
                       /\ \A i \in 1 .. Len(L[t]) : M[t][i] = L[t][i]
    BY <1>3, LogsLen DEF Extends
  <1>5. \A a \in B : /\ a.term \in Nat /\ a.node \in Node /\ a.index \in Nat
                     /\ a \in A => a.index <= Len(L[a.term]) /\ AckSafe(L, a)
                     /\ a \notin A => a.node = n /\ a.term = c.current_term
                                      /\ a.index <= Len(M[a.term])
    BY AckOK DEF SafetyInv, AckSafe, StepSafe
  <1>a. ASSUME NEW a \in A, NEW log \in Seq(Entry), NEW b \in Nat, Kept(L, a, log, b)
        PROVE  Kept(M, a, log, b)
    <2>1. Len(log) <= Len(log) /\ b <= b /\ a \in B
      BY <1>3
    <2> QED  BY <1>a, <1>3, <1>5, <2>1, KeptStable
  <1>b. \A t : (Led(t) => Led(t)') /\ \A k : LedBy(t, k) => LedBy(t, k)'
    BY DEF Led, LedBy
  <1>6. \A t \in Nat : LogSafe(M, t) /\ (M[t] # << >> => Elected(M, B, t)')
    BY <1>3, ElectedStays
  <1>7. ASSUME NEW a \in B PROVE AckSafe(M, a)'
    <2>1. CASE a \in A
      <3>1. a.index <= Len(L[a.term]) /\ a.term <= core[a.node].current_term /\ Led(a.term)
        BY <1>5, <2>1 DEF AckSafe
      <3>2. a.index <= Len(M[a.term])
        BY <1>4, <1>5, <3>1
      <3>3. a.term <= core'[a.node].current_term
        BY <1>1, <1>2, <1>5, <3>1
      <3> QED  BY <1>b, <3>1, <3>2, <3>3 DEF AckSafe
    <2>2. CASE a \notin A
      BY <1>1, <1>5, <2>2 DEF AckSafe
    <2> QED  BY <2>1, <2>2
  <1>8. ASSUME NEW k \in Node
        PROVE  NodeSafe(M, B, k, core'[k]) /\ VoteOf(k, core'[k]) \subseteq votes'
    <2>1. CASE k = n
      BY <1>1, <2>1 DEF StepSafe
    <2>2. CASE k # n
      <3> DEFINE d == core[k]
      <3>1. core'[k] = d /\ d \in Core /\ d.log \in Seq(Entry) /\ d.commit_index \in Nat
            /\ d.current_term \in Nat
        BY <1>1, <2>2, CoreTerms
      <3>2. NodeSafe(L, A, k, d) /\ VoteOf(k, d) \subseteq votes
        BY DEF SafetyInv
      <3> HIDE DEF d
      <3>3. \A a \in B : a.node = k => Kept(M, a, d.log, d.current_term + 1)
        <4>1. d.current_term + 1 \in Nat
          BY <3>1
        <4> QED  BY <1>a, <1>5, <2>2, <3>1, <3>2, <4>1 DEF NodeSafe
      <3>4. Reached(M, B, d.log, d.commit_index, d.current_term)
        <4>1. d.current_term <= d.current_term
              /\ (d.commit_index <= Len(d.log) => Same(d.log, d.log, d.commit_index))
          BY <3>1 DEF Same
        <4>2. Reached(L, A, d.log, d.commit_index, d.current_term)
          BY <3>2 DEF NodeSafe
        <4> QED  BY <1>3, <3>1, <4>1, <4>2, ReachedStable
      <3>5. d.state = Leader => LeaderSafe(B, k, d)
        BY <1>3, <3>2 DEF NodeSafe, LeaderSafe
      <3>6. NodeSafe(M, B, k, d)
        BY <3>2, <3>3, <3>4, <3>5 DEF NodeSafe
      <3> QED  BY <3>1, <3>2, <3>6
    <2> QED  BY <2>1, <2>2
  <1>9. ASSUME NEW x \in net' PROVE MessageSafe(M, B, x)'
    <2> SUFFICES ASSUME x \in net PROVE MessageSafe(M, B, x)'
      OBVIOUS
    <2>1. MessageSafe(L, A, x) /\ MessageOK(x)
      BY DEF SafetyInv, IInv, TypeOK
    <2>2. x.from \in Node /\ x.term \in Nat
      BY <2>1 DEF MessageOK
    <2>3. ASSUME x.type = "AppendEntries"
          PROVE  /\ LedBy(x.term, x.from)' /\ x.prev_log_index + Len(x.entries) >= 1
                 /\ M[x.term][x.prev_log_index + Len(x.entries)].term = x.term
                 /\ Reached(M, B, M[x.term], x.leader_commit, x.term)
      <3>1. /\ LedBy(x.term, x.from) /\ x.prev_log_index + Len(x.entries) >= 1
            /\ L[x.term][x.prev_log_index + Len(x.entries)].term = x.term
            /\ Reached(L, A, L[x.term], x.leader_commit, x.term)
        BY <2>1, <2>3 DEF MessageSafe
      <3>2. x.prev_log_index + Len(x.entries) <= Len(L[x.term])
        BY <2>3 DEF LogInv, Carries
      <3>3. x.prev_log_index \in Nat /\ Len(x.entries) \in Nat /\ x.leader_commit \in Nat
        BY <2>1, <2>3 DEF MessageOK
      <3>4. M[x.term][x.prev_log_index + Len(x.entries)].term = x.term
        BY SMTT(30), <1>4, <2>2, <3>1, <3>2, <3>3
      <3>5. x.leader_commit <= Len(L[x.term]) => Same(L[x.term], M[x.term], x.leader_commit)
        <4>1. PICK i \in Nat, t \in Nat : i = x.leader_commit /\ t = x.term
          BY <2>2, <3>3
        <4>2. Len(L[t]) \in Nat /\ Len(M[t]) \in Nat /\ Len(L[t]) <= Len(M[t])
              /\ \A j \in 1 .. Len(L[t]) : L[t][j] = M[t][j]
          BY <1>4
        <4>3. i <= Len(L[t]) => Same(L[t], M[t], i)
          BY <4>2 DEF Same
        <4> QED  BY <4>1, <4>3
      <3>6. Reached(M, B, M[x.term], x.leader_commit, x.term)
        BY <1>3, <1>4, <2>2, <3>1, <3>3, <3>5, ReachedStable
      <3> QED  BY <1>b, <3>1, <3>4, <3>6
    <2>4. ASSUME x.type = "AppendEntriesResponse"
          PROVE  /\ x.success \/ x.first_conflicting_index # None => LedBy(x.term, x.to)'
                 /\ x.success => Ack(x.term, x.from, x.match_index) \in B
                 /\ ~x.success /\ x.first_conflicting_index # None =>
                       x.first_conflicting_index \in 1 .. Len(M[x.term])
      <3>1. /\ x.success \/ x.first_conflicting_index # None => LedBy(x.term, x.to)
            /\ x.success => Ack(x.term, x.from, x.match_index) \in A
            /\ ~x.success /\ x.first_conflicting_index # None =>
                  x.first_conflicting_index \in 1 .. Len(L[x.term])
        BY <2>1, <2>4 DEF MessageSafe
      <3>2. x.success \/ x.first_conflicting_index # None => LedBy(x.term, x.to)'
        BY <1>b, <3>1
      <3>3. x.success => Ack(x.term, x.from, x.match_index) \in B
        BY <1>3, <3>1
      <3>4. ~x.success /\ x.first_conflicting_index # None =>
                x.first_conflicting_index \in 1 .. Len(M[x.term])
        BY <1>4, <2>2, <3>1
      <3> QED  BY <3>2, <3>3, <3>4
    <2>5. ASSUME x.type = "RequestVote"
          PROVE  /\ core'[x.from].current_term >= x.term
                 /\ core'[x.from].state = Candidate /\ core'[x.from].current_term = x.term =>
                       /\ x.last_log_index = Len(core'[x.from].log)
                       /\ x.last_log_term = LastTerm(core'[x.from].log)
      <3>1. /\ core[x.from].current_term >= x.term
            /\ core[x.from].state = Candidate /\ core[x.from].current_term = x.term =>
                  /\ x.last_log_index = Len(core[x.from].log)
                  /\ x.last_log_term = LastTerm(core[x.from].log)
        BY <2>1, <2>5 DEF MessageSafe
      <3>2. core'[x.from].current_term >= x.term
        BY <1>1, <1>2, <2>2, <3>1
      <3>3. CASE x.from # n
        BY <1>1, <2>2, <3>1, <3>2, <3>3
      <3>4. CASE x.from = n
        <4>1. Stands(core[n], c)
          BY DEF StepSafe
        <4>2. c.state = Candidate /\ c.current_term = x.term =>
                  core[n].state = Candidate /\ core[n].current_term = x.term
                  /\ c.log = core[n].log
          BY <1>1, <2>2, <3>1, <3>4, <4>1 DEF Stands
        <4> QED  BY <1>1, <3>1, <3>2, <3>4, <4>2
      <3> QED  BY <3>3, <3>4
    <2>6. x.from # x.to
      BY <2>1 DEF MessageSafe
    <2> QED  BY <2>3, <2>4, <2>5, <2>6 DEF MessageSafe
  <1>10. ASSUME NEW v \in votes PROVE VoteSafe(M, B, v)'
    <2> DEFINE p == v.candidate
    <2>1. VoteSafe(L, A, v)
      BY DEF SafetyInv
    <2>2. v.voter \in Node /\ v.term \in Nat /\ v.term <= core[v.voter].current_term
      BY CoreTerms
    <2>3. p \in Node /\ core[p].current_term >= v.term
      BY <2>1 DEF VoteSafe
    <2>4. core'[p].current_term >= v.term
      BY <1>1, <1>2, <2>2, <2>3
    <2>5. ASSUME core'[p].state = Candidate, core'[p].current_term = v.term,
                 NEW a \in B, a.node = v.voter, a.term < v.term
          PROVE  Kept(M, a, core'[p].log, v.term + 1)
      <3>1. core[p].state = Candidate /\ core[p].current_term = v.term
            /\ core'[p].log = core[p].log
        <4>1. CASE p # n
          BY <1>1, <2>3, <2>5, <4>1
        <4>2. CASE p = n
          <5>1. Stands(core[n], c)
            BY DEF StepSafe
          <5> QED  BY <1>1, <2>2, <2>3, <2>5, <4>2, <5>1 DEF Stands
        <4> QED  BY <4>1, <4>2
      <3>2. a \in A
        <4>1. a \notin A => v.voter = n /\ a.term = c.current_term
          BY <1>5, <2>5
        <4> QED  BY <1>1, <1>5, <2>2, <2>5, <4>1
      <3>3. Kept(L, a, core[p].log, v.term + 1)
        BY <2>1, <2>5, <3>1, <3>2 DEF VoteSafe
      <3>4. core[p].log \in Seq(Entry) /\ v.term + 1 \in Nat
        BY <2>2, <2>3, CoreTerms
      <3> QED  BY <1>a, <3>1, <3>2, <3>3, <3>4
    <2> QED  BY <2>3, <2>4, <2>5 DEF VoteSafe
  <1>11. ASSUME NEW v \in votes' PROVE VoteSafe(M, B, v)'
    <2> SUFFICES ASSUME v \notin votes PROVE VoteSafe(M, B, v)'
      BY <1>10
    <2> DEFINE p == c.voted_for
    <2>1. p # None /\ v = Vote(c.current_term, n, p)
      BY DEF VoteOf, Vote
    <2>2. v.term = c.current_term /\ v.voter = n /\ v.candidate = p
      BY <2>1 DEF Vote
    <2>3. CASE p = n
      <3>1. core'[p].current_term >= v.term
        BY <1>1, <2>2, <2>3
      <3>2. \A a \in B : a.node = n => Kept(M, a, c.log, c.current_term + 1)
        BY DEF StepSafe, NodeSafe
      <3> QED  BY <1>1, <2>2, <2>3, <3>1, <3>2 DEF VoteSafe
    <2>4. CASE p # n
      <3>1. /\ p \in Node /\ core[p].current_term >= c.current_term
            /\ core[p].state = Candidate /\ core[p].current_term = c.current_term =>
                  \A a \in A : a.node = n /\ a.term < c.current_term =>
                      Kept(L, a, core[p].log, c.current_term + 1)
        BY <2>1, <2>4 DEF StepSafe, VoteOK
      <3>2. core'[p] = core[p] /\ core[p].log \in Seq(Entry) /\ c.current_term + 1 \in Nat
        BY <1>1, <2>4, <3>1, CoreTerms
      <3>3. \A a \in B : a.term < c.current_term => a \in A
        BY <1>1, <1>5
      <3>4. ASSUME core[p].state = Candidate, core[p].current_term = c.current_term,
                   NEW a \in B, a.node = n, a.term < c.current_term
            PROVE  Kept(M, a, core[p].log, c.current_term + 1)
        BY <1>a, <3>1, <3>2, <3>3, <3>4
      <3> QED  BY <2>2, <3>1, <3>2, <3>4 DEF VoteSafe
    <2> QED  BY <2>3, <2>4
  <1>12. ASSUME NEW e \in committed' PROVE Historic(M, B, e)
    <2> SUFFICES ASSUME e \in committed PROVE Historic(M, B, e)
      OBVIOUS
    <2>1. PICK u \in Nat, j \in Nat :
              /\ Settled(L, A, u, j) /\ e.index \in 1 .. j
              /\ L[u][e.index] = [term |-> e.term, command |-> e.command]
      BY DEF SafetyInv, Historic
    <2>2. Settled(M, B, u, j) /\ Same(L[u], M[u], j)
      BY <1>3, <2>1, SettledStable
    <2>3. M[u][e.index] = L[u][e.index]
      BY <2>1, <2>2 DEF Same
    <2> QED  BY <2>1, <2>2, <2>3 DEF Historic
  <1> QED  BY <1>6, <1>7, <1>8, <1>9, <1>11, <1>12 DEF SafetyInv, NodeSafe, LogSafe, Historic

-----------------------------------------------------------------------------
(***************************************************************************)
(* What the inputs have in common.                                         *)
(***************************************************************************)
LEMMA GrowsSelf ==
    ASSUME NEW L \in Logs, NEW A, NEW B, A \subseteq B
    PROVE  Grows(L, A, L, B)
  <1>1. \A t \in Nat : Len(L[t]) \in Nat
    BY LogsLen
  <1>2. \A t \in Nat : Len(L[t]) <= Len(L[t]) /\ Len(L[t]) + 1 .. Len(L[t]) = {}
    BY <1>1
  <1> QED  BY <1>2 DEF Grows, Extends

LEMMA GrowSame ==
    ASSUME NEW L \in Logs, NEW r, r.core \in Core,
           r.core.state = Leader => L[r.core.current_term] = r.core.log
    PROVE  Grow(L, r) = L
  <1>1. L = [t \in Nat |-> L[t]] /\ r.core.current_term \in Nat
    BY DEF Logs, Core
  <1> QED  BY <1>1 DEF Grow

LEMMA KeptLonger ==
    ASSUME NEW L \in Logs, NEW a, a.term \in Nat, a.index \in Nat, a.index <= Len(L[a.term]),
           NEW log \in Seq(Entry), NEW b \in Nat, NEW e \in Nat, b <= e, Kept(L, a, log, b)
    PROVE  Kept(L, a, log, e)
  <1>1. Grows(L, {}, L, {}) /\ Len(log) <= Len(log)
    BY GrowsSelf
  <1> QED  BY <1>1, KeptStable

\* An election in a term that has no leader yet.
LEMMA KeptBefore ==
    ASSUME NEW L \in Logs, NEW a, a.term \in Nat, a.index \in Nat, NEW log,
           NEW t \in Nat, L[t] = << >>, Kept(L, a, log, t + 1)
    PROVE  Kept(L, a, log, t)
  <1>1. ASSUME NEW j, Lacks(L, a.term, j, t + 1) PROVE Lacks(L, a.term, j, t)
    <2>1. PICK u \in Nat : a.term < u /\ u < t + 1 /\ L[u] # << >> /\ ~Has(L[u], a.term, j)
      BY <1>1 DEF Lacks
    <2>2. u < t
      BY <2>1
    <2> QED  BY <2>1, <2>2 DEF Lacks
  <1> QED  BY <1>1 DEF Kept

\* The log check of handle_request_vote.
LEMMA VoteJustified ==
    ASSUME NEW L \in Logs, \A t \in Nat : LogSafe(L, t),
           NEW c \in Core, Whole(c), Agrees(L, c.log),
           NEW d \in Core, Agrees(L, d.log), Rising(d.log, d.current_term),
           NEW m, log_check(c, m), m.last_log_index = Len(d.log),
           m.last_log_term = LastTerm(d.log), c.current_term <= d.current_term,
           NEW a, a.term \in Nat, a.index \in Nat, a.index <= Len(L[a.term]),
           Kept(L, a, c.log, c.current_term + 1)
    PROVE  Kept(L, a, d.log, d.current_term + 1)
  <1> DEFINE t == a.term
             T == d.current_term
             ln == Len(c.log)
             lp == Len(d.log)
             tp == d.log[lp].term
             tn == c.log[ln].term
  <1>1. c.log \in Seq(Entry) /\ d.log \in Seq(Entry) /\ ln \in Nat /\ lp \in Nat
        /\ T \in Nat /\ c.current_term \in Nat /\ t \in Nat
    BY SMTT(30) DEF Core
  <1> SUFFICES ASSUME NEW j \in 1 .. a.index, L[t][j].term = t
               PROVE  Has(d.log, t, j) \/ Lacks(L, t, j, T + 1)
    BY DEF Kept
  <1>2. j \in Nat /\ j >= 1
    OBVIOUS
  <1>3. CASE Lacks(L, t, j, c.current_term + 1)
    <2>1. Grows(L, {}, L, {}) /\ c.current_term + 1 <= T + 1
          /\ c.current_term + 1 \in Nat /\ T + 1 \in Nat
      BY <1>1, GrowsSelf
    <2> HIDE DEF t, T
    <2> QED  BY <1>1, <1>2, <1>3, <2>1, LacksStable
  <1>4. CASE Has(c.log, t, j)
    <2>1. j \in 1 .. ln /\ ln \in 1 .. ln /\ c.log[j].term = t
      BY <1>1, <1>2, <1>4 DEF Has
    <2>2. t <= tn /\ tn \in Nat
      BY <1>1, <2>1, AgreesRising, TermOK
    <2>3. last_log_index(c) = ln /\ last_log_term(c) = tn
      <3>1. last_log_index(c) = ln /\ log_term_at(c, ln) = tn
        BY <2>1, WholeLog
      <3> QED  BY <3>1 DEF last_log_term
    <2>4. LastTerm(d.log) > tn \/ (LastTerm(d.log) = tn /\ lp >= ln)
      BY <2>3 DEF log_check
    <2>5. d.log # << >> /\ lp >= 1
      BY <1>1, <2>1, <2>2, <2>4 DEF LastTerm
    <2>6. LastTerm(d.log) = tp /\ lp \in 1 .. lp /\ tp \in Nat /\ tp <= T
      <3>1. lp \in 1 .. lp
        BY <1>1, <2>5
      <3>2. tp \in Nat
        BY <1>1, <3>1, TermOK
      <3>3. tp <= T
        BY <3>1 DEF Rising
      <3> QED  BY <2>5, <3>1, <3>2, <3>3 DEF LastTerm
    <2>7. lp <= Len(L[tp]) /\ \A k \in 1 .. lp : d.log[k] = L[tp][k]
      BY <2>6 DEF Agrees
    <2>8. \A k \in 1 .. ln : c.log[k] = L[tn][k]
      BY <2>1 DEF Agrees
    <2>9. CASE tp = tn /\ lp >= ln
      <3>1. j \in 1 .. lp /\ d.log[j] = c.log[j]
        BY <1>1, <2>1, <2>7, <2>8, <2>9
      <3> QED  BY <1>1, <2>1, <3>1 DEF Has
    <2>10. CASE tp > tn
      <3>1. L[tp] \in Seq(Entry) /\ Len(L[tp]) \in Nat /\ Rising(L[tp], tp)
        BY <2>6, LogsLen DEF LogSafe
      <3>2. CASE Has(L[tp], t, j)
        <4>1. j \in 1 .. Len(L[tp]) /\ L[tp][j].term = t
          BY <1>2, <3>1, <3>2 DEF Has
        <4>2. CASE j <= lp
          <5>1. j \in 1 .. lp /\ d.log[j].term = t
            BY <1>1, <1>2, <2>7, <4>1, <4>2
          <5> QED  BY <1>1, <5>1 DEF Has
        <4>3. CASE j > lp
          <5>1. lp \in 1 .. j
            BY <1>1, <1>2, <2>5, <4>3
          <5>2. L[tp][lp].term <= t
            BY <3>1, <4>1, <5>1 DEF Rising
          <5>3. tp <= t
            BY <2>6, <2>7, <5>2
          <5> HIDE DEF tp, tn, t
          <5> QED  BY <1>1, <2>2, <2>6, <2>10, <5>3
        <4> QED  BY <1>1, <1>2, <4>2, <4>3
      <3>3. CASE ~Has(L[tp], t, j)
        <4>1. L[tp] # << >>
          BY <2>5, <2>7, <3>1, <1>1
        <4>2. t < tp /\ tp < T + 1
          <5> HIDE DEF tp, tn, t, T
          <5> QED  BY <1>1, <2>2, <2>6, <2>10
        <4> QED  BY <2>6, <3>3, <4>1, <4>2 DEF Lacks
      <3> QED  BY <3>2, <3>3
    <2> QED  BY <2>4, <2>6, <2>9, <2>10
  <1> QED  BY <1>3, <1>4 DEF Kept

\* A node that keeps its log, and its commit index unless it starts anew.
LEMMA QuietSafe ==
    ASSUME IInv, Files, NEW L \in Logs, NEW A \in Acks, SafetyInv(L, A), NEW n \in Node,
           NEW d \in Core, d.log = core[n].log,
           d.commit_index = core[n].commit_index \/ d.commit_index = 0,
           d.current_term >= core[n].current_term, d.match_index[n] = None,
           d.state = Leader => LeaderSafe(A, n, d), Stands(core[n], d), VoteOK(L, A, n, d)
    PROVE  StepSafe(L, A, L, A, n, d)
  <1> DEFINE c == core[n]
  <1>1. NodeSafe(L, A, n, c) /\ c.current_term \in Nat /\ d.current_term \in Nat
        /\ c.log \in Seq(Entry) /\ c.commit_index \in Nat /\ d.commit_index \in Nat
    BY CoreTerms DEF SafetyInv, Core
  <1>2. d.log = c.log /\ d.current_term >= c.current_term
        /\ (d.commit_index = c.commit_index \/ d.commit_index = 0)
    OBVIOUS
  <1>3. Grows(L, A, L, A)
    BY GrowsSelf
  <1> HIDE DEF c
  <1>4. Rising(d.log, d.current_term)
    <2>1. \A i \in 1 .. Len(c.log) : c.log[i].term \in Nat
      BY <1>1, TermOK
    <2> QED  BY <1>1, <1>2, <2>1 DEF NodeSafe, Rising
  <1>5. \A a \in A : a.node = n => Kept(L, a, d.log, d.current_term + 1)
    <2>1. c.current_term + 1 \in Nat /\ d.current_term + 1 \in Nat
          /\ c.current_term + 1 <= d.current_term + 1
      BY <1>1, <1>2
    <2>2. \A a \in A : a.term \in Nat /\ a.index \in Nat /\ a.index <= Len(L[a.term])
      BY AckOK DEF SafetyInv, AckSafe
    <2> QED  BY <1>1, <1>2, <2>1, <2>2, KeptLonger DEF NodeSafe
  <1>6. Reached(L, A, d.log, d.commit_index, d.current_term)
    <2>1. CASE d.commit_index = 0
      BY <2>1 DEF Reached
    <2>2. CASE d.commit_index = c.commit_index
      <3>1. Reached(L, A, c.log, c.commit_index, c.current_term)
        BY <1>1 DEF NodeSafe
      <3>2. c.commit_index <= Len(c.log) => Same(c.log, c.log, c.commit_index)
        BY DEF Same
      <3>3. c.current_term <= d.current_term
        BY <1>1, <1>2
      <3> QED  BY <1>1, <1>2, <1>3, <2>2, <3>1, <3>2, <3>3, ReachedStable
    <2> QED  BY <1>2, <2>1, <2>2
  <1>7. NodeSafe(L, A, n, d)
    BY <1>4, <1>5, <1>6 DEF NodeSafe
  <1> QED  BY <1>2, <1>3, <1>7 DEF StepSafe, SafetyInv, c

\* The AppendEntries of a leader.
LEMMA SentAppend ==
    ASSUME NEW L \in Logs, NEW A, NEW n \in Node, NEW c \in Core, Whole(c), c.state = Leader,
           L[c.current_term] = c.log, LogSafe(L, c.current_term), LeaderSafe(A, n, c),
           Reached(L, A, c.log, c.commit_index, c.current_term), NEW peer \in Peers(n),
           NEW x, x = build_append_entries_for_peer(n, c, peer)
    PROVE  SentSafe(L, A, n, c, x)
  <1>1. peer \in Node /\ peer # n /\ c.next_index[peer] \in 1 .. Len(c.log) + 1
    BY DEF Peers, LeaderSafe
  <1>2. x.type = "AppendEntries" /\ x.prev_log_index + Len(x.entries) = Len(c.log)
    BY <1>1, BuildFull
  <1>3. x.from = n /\ x.to = peer /\ x.term = c.current_term
    BY BuildShape
  <1>4. x.leader_commit = c.commit_index
    BY <1>1, <1>2, BuildCarries
  <1>5. c.log # << >> /\ c.log \in Seq(Entry)
    BY DEF LeaderSafe, Core
  <1>6. Len(c.log) >= 1 /\ c.log[Len(c.log)].term = c.current_term
    BY <1>5 DEF LogSafe
  <1> QED  BY <1>1, <1>2, <1>3, <1>4, <1>6 DEF SentSafe

-----------------------------------------------------------------------------
(***************************************************************************)
(* The inputs, one by one.                                                 *)
(***************************************************************************)
\* Everything that the input commits is applied.
Applies(c, r) ==
    \A i \in c.commit_index + 1 .. r.core.commit_index :
        \E k \in 1 .. Len(r.acts.apply) : r.acts.apply[k].index = i

\* The invariant survives the input's result r.
Safely(L, A, n, r) ==
    \E B \in Acks :
        /\ StepSafe(L, A, Grow(L, r), B, n, r.core)
        /\ \A a \in B : \/ a \in A \/ Led(a.term)
                        \/ r.core.state = Leader /\ a.term = r.core.current_term
        /\ \A x \in r.acts.send : SentSafe(Grow(L, r), B, n, r.core, x)
        /\ \A e \in Committed(r) : Historic(Grow(L, r), B, e)
        /\ Applies(core[n], r)

\* Only what is settled is applied.
LEMMA AppliesSettled ==
    ASSUME NEW L \in Logs, NEW B, NEW r, r.core \in Core, Whole(r.core), NEW d \in Core,
           Whole(d), d.log = r.core.log, NEW i \in Nat, NEW k \in Nat, i <= k,
           k <= Len(r.core.log), NEW t, Reached(L, B, r.core.log, k, t),
           r.acts.apply = ApplyActions(i + 1, log_slice(d, i + 1, k + 1)),
           NEW e \in Committed(r)
    PROVE  Historic(L, B, e)
  <1> DEFINE slice == log_slice(d, i + 1, k + 1)
             apply == ApplyActions(i + 1, slice)
             log == r.core.log
  <1>1. slice \in Seq(Entry)
    BY LogSlice
  <1>2. Len(apply) = Len(slice) /\ DOMAIN apply = 1 .. Len(slice)
    <2> HIDE DEF slice
    <2> QED  BY <1>1 DEF ApplyActions
  <1>3. log \in Seq(Entry) /\ Len(log) \in Nat /\ last_log_index(d) = Len(log)
        /\ d.last_included_index = 0
    BY SMTT(30), WholeLog DEF Core, Whole
  <1>4. /\ \A j \in i + 1 .. k : apply[j - i].command = log_entry_at(d, j).command
        /\ \A q \in 1 .. Len(apply) : i + q \in i + 1 .. k /\ apply[q].index = i + q
    <2>1. d.last_included_index <= i /\ k <= last_log_index(d)
      BY <1>3
    <2> QED  BY <2>1, AppliedSlice, Zenon
  <1>5. r.acts.apply = apply
    OBVIOUS
  <1> HIDE DEF slice, apply
  <1>6. PICK q \in 1 .. Len(apply) :
            e = [ index |-> apply[q].index, command |-> apply[q].command,
                  term |-> log_term_at(r.core, apply[q].index) ]
    <2>1. PICK x \in Range(apply) :
              e = [ index |-> x.index, command |-> x.command,
                    term |-> log_term_at(r.core, x.index) ]
      BY <1>5 DEF Committed
    <2> QED  BY <1>2, <2>1 DEF Range
  <1>7. PICK j \in Nat : j = i + q
    BY <1>1, <1>2
  <1>8. j \in i + 1 .. k /\ apply[q].index = j /\ j - i = q /\ q \in Nat
    BY <1>1, <1>2, <1>4, <1>7
  <1>9. j \in 1 .. Len(log) /\ apply[q].command = log[j].command
    <2>1. j \in 1 .. Len(log)
      BY <1>3, <1>8
    <2>2. log_entry_at(d, j) = log[j]
      BY <2>1, WholeLog
    <2>3. apply[j - i].command = log_entry_at(d, j).command
      BY <1>4, <1>8
    <2> QED  BY <1>8, <2>1, <2>2, <2>3
  <1>10. log_term_at(r.core, j) = log[j].term
    BY <1>9, WholeLog
  <1>11. e.index = j /\ log[j] = [term |-> e.term, command |-> e.command]
    <2>1. log[j] \in Entry
      BY <1>3, <1>9
    <2> QED  BY <1>6, <1>8, <1>9, <1>10, <2>1 DEF Entry
  <1>12. PICK u \in Nat, s \in Nat : k <= s /\ Settled(L, B, u, s) /\ Same(log, L[u], k)
    BY <1>8 DEF Reached
  <1>13. j \in 1 .. s /\ L[u][j] = log[j]
    BY <1>8, <1>12 DEF Same
  <1> QED  BY <1>11, <1>12, <1>13 DEF Historic

LEMMA AppliesAll ==
    ASSUME NEW c, NEW r, NEW d \in Core, Whole(d), c.commit_index \in Nat,
           r.core.commit_index \in Nat, r.core.commit_index <= Len(d.log),
           r.acts.apply = ApplyActions(c.commit_index + 1,
                              log_slice(d, c.commit_index + 1, r.core.commit_index + 1))
    PROVE  Applies(c, r)
  <1>1. PICK i \in Nat, k \in Nat : i = c.commit_index /\ k = r.core.commit_index
    OBVIOUS
  <1>2. d.log \in Seq(Entry) /\ Len(d.log) \in Nat /\ d.last_included_index = 0
    BY DEF Core, Whole
  <1> SUFFICES ASSUME NEW j \in i + 1 .. k
               PROVE  \E q \in 1 .. Len(r.acts.apply) : r.acts.apply[q].index = j
    BY <1>1 DEF Applies
  <1> DEFINE slice == log_slice(d, i + 1, k + 1)
             tail == SubSeq(d.log, i + 1, k)
  <1>3. slice = tail
    <2>1. ~ (i + 1 <= d.last_included_index) /\ (i + 1) - d.last_included_index = i + 1
          /\ (k + 1) - d.last_included_index - 1 = k /\ min(k, Len(d.log)) = k
      BY <1>1, <1>2 DEF min
    <2> QED  BY <2>1 DEF log_slice
  <1>4. slice \in Seq(Entry) /\ Len(slice) = k - i
    <2>1. tail \in Seq(Entry) /\ Len(tail) = k - i
      BY SMTT(30), <1>1, <1>2
    <2> QED  BY <1>3, <2>1
  <1> HIDE DEF slice
  <1>5. r.acts.apply = ApplyActions(i + 1, slice)
    BY <1>1 DEF slice
  <1>6. PICK q \in 1 .. Len(slice) : i + 1 + q - 1 = j
    <2>1. j - i \in 1 .. Len(slice)
      BY <1>4
    <2>2. i + 1 + (j - i) - 1 = j
      OBVIOUS
    <2> QED  BY <2>1, <2>2
  <1>7. Len(ApplyActions(i + 1, slice)) = Len(slice)
    BY <1>4 DEF ApplyActions
  <1>8. ApplyActions(i + 1, slice)[q].index = i + 1 + q - 1
    BY <1>6 DEF ApplyActions
  <1> QED  BY <1>5, <1>6, <1>7, <1>8

LEMMA NothingNew ==
    ASSUME NEW c, NEW r, c.commit_index \in Nat, r.core.commit_index = c.commit_index
    PROVE  Applies(c, r)
  BY DEF Applies

LEMMA NothingApplied ==
    ASSUME NEW r, r.acts.apply = << >>
    PROVE  Committed(r) = {}
  <1>1. DOMAIN << >> = {}
    OBVIOUS
  <1> QED  BY <1>1 DEF Committed, Range

\* An input that changes neither the log nor the commit index.
LEMMA IdleSafe ==
    ASSUME IInv, Files, NEW L \in Logs, LogInv(L), NEW A \in Acks, SafetyInv(L, A),
           NEW n \in Node, NEW r, r.core \in Core, Idle(core[n], r),
           r.core.current_term >= core[n].current_term, r.core.match_index[n] = None,
           r.core.state = Leader =>
               /\ core[n].state = Leader /\ r.core.current_term = core[n].current_term
               /\ LeaderSafe(A, n, r.core),
           Stands(core[n], r.core), VoteOK(L, A, n, r.core),
           \A x \in r.acts.send : SentSafe(L, A, n, r.core, x)
    PROVE  Safely(L, A, n, r)
  <1>1. r.core.log = core[n].log /\ r.core.commit_index = core[n].commit_index
        /\ r.acts.apply = << >>
    BY DEF Idle, SameLog
  <1>2. r.core.state = Leader => L[r.core.current_term] = r.core.log
    BY <1>1 DEF LogInv, is_leader
  <1>3. Grow(L, r) = L
    BY <1>2, GrowSame
  <1>4. StepSafe(L, A, L, A, n, r.core)
    BY <1>1, QuietSafe
  <1>5. Committed(r) = {}
    BY <1>1, NothingApplied
  <1>6. Applies(core[n], r)
    BY <1>1, CoreTerms, NothingNew
  <1> QED  BY <1>3, <1>4, <1>5, <1>6 DEF Safely

\* The same, when the role changes at most to follower.
LEMMA RoleSafe ==
    ASSUME IInv, Files, NEW L \in Logs, LogInv(L), NEW A \in Acks, SafetyInv(L, A),
           NEW n \in Node, NEW r, r.core \in Core, Idle(core[n], r),
           r.core.current_term >= core[n].current_term, SamePeers(core[n], r.core),
           r.core.state # Follower =>
               r.core.state = core[n].state /\ r.core.current_term = core[n].current_term,
           VoteOK(L, A, n, r.core), \A x \in r.acts.send : SentSafe(L, A, n, r.core, x)
    PROVE  Safely(L, A, n, r)
  <1>1. r.core.log = core[n].log
    BY DEF Idle, SameLog
  <1>2. NodeSafe(L, A, n, core[n])
    BY DEF SafetyInv
  <1>3. r.core.match_index[n] = None
    BY <1>2 DEF NodeSafe, SamePeers
  <1>4. r.core.state = Leader =>
            /\ core[n].state = Leader /\ r.core.current_term = core[n].current_term
            /\ LeaderSafe(A, n, r.core)
    BY <1>1, <1>2 DEF NodeSafe, LeaderSafe, SamePeers, Leader, Follower
  <1>5. Stands(core[n], r.core)
    BY <1>1 DEF Stands, Candidate, Follower
  <1> QED  BY <1>3, <1>4, <1>5, IdleSafe

\* A vote that is not new.
LEMMA OldVote ==
    ASSUME NEW L, NEW A, SafetyInv(L, A), NEW n \in Node, NEW c,
           \/ c.voted_for = None
           \/ c.current_term = core[n].current_term /\ c.voted_for = core[n].voted_for
    PROVE  VoteOK(L, A, n, c)
  <1>1. VoteOf(n, core[n]) \subseteq votes
    BY DEF SafetyInv
  <1> QED  BY <1>1 DEF VoteOK, VoteOf, Vote

\* A leader's messages to all its peers.
LEMMA SentToAll ==
    ASSUME NEW L \in Logs, NEW A, NEW n \in Node, NEW c \in Core, Whole(c), c.state = Leader,
           L[c.current_term] = c.log, LogSafe(L, c.current_term), NodeSafe(L, A, n, c)
    PROVE  \A x \in append_entries(n, c) : SentSafe(L, A, n, c, x)
  <1>1. LeaderSafe(A, n, c) /\ Reached(L, A, c.log, c.commit_index, c.current_term)
    BY DEF NodeSafe
  <1> QED  BY <1>1, SentAppend DEF append_entries

\* What holds of a node before an input.
LEMMA BeforeInput ==
    ASSUME IInv, Files, NEW L \in Logs, LogInv(L), NEW A \in Acks, SafetyInv(L, A),
           NEW n \in Node
    PROVE  LET c == core[n] IN
           /\ c \in Core /\ Whole(c) /\ c.last_applied = c.commit_index
           /\ c.current_term \in Nat /\ c.log \in Seq(Entry) /\ c.commit_index \in Nat
           /\ Agrees(L, c.log) /\ NodeSafe(L, A, n, c)
           /\ (c.state = Leader => L[c.current_term] = c.log)
           /\ LogSafe(L, c.current_term)
           /\ \A t \in Nat : Agrees(L, L[t]) /\ LogSafe(L, t)
           /\ \A x \in net : MessageOK(x) /\ MessageSafe(L, A, x) /\ PlainMessage(x)
           /\ \A x \in net : x.type = "AppendEntries" => Carries(L[x.term], x)
           /\ \A a \in A : /\ a.term \in Nat /\ a.index \in Nat
                           /\ a.index <= Len(L[a.term]) /\ AckSafe(L, a)
  <1>1. core[n] \in Core /\ core[n].last_applied = core[n].commit_index
        /\ core[n].current_term \in Nat /\ core[n].log \in Seq(Entry)
        /\ core[n].commit_index \in Nat
    BY StateOK, CoreTerms
  <1>2. \A x \in net : MessageOK(x)
    BY DEF IInv, TypeOK
  <1>3. Whole(core[n]) /\ \A x \in net : PlainMessage(x)
    BY DEF Files, NodeFiles
  <1>4. Agrees(L, core[n].log) /\ (core[n].state = Leader => L[core[n].current_term] = core[n].log)
        /\ (\A t \in Nat : Agrees(L, L[t]))
        /\ \A x \in net : x.type = "AppendEntries" => Carries(L[x.term], x)
    BY DEF LogInv, is_leader
  <1>5. NodeSafe(L, A, n, core[n]) /\ (\A t \in Nat : LogSafe(L, t))
        /\ (\A x \in net : MessageSafe(L, A, x))
        /\ \A a \in A : AckSafe(L, a)
    BY DEF SafetyInv
  <1>6. \A a \in A : a.term \in Nat /\ a.index \in Nat /\ a.index <= Len(L[a.term])
    BY <1>5, AckOK DEF AckSafe
  <1> QED  BY <1>1, <1>2, <1>3, <1>4, <1>5, <1>6

LEMMA HeartbeatSafe ==
    ASSUME IInv, Files, NEW L \in Logs, LogInv(L), NEW A \in Acks, SafetyInv(L, A),
           NEW n \in Node, is_leader(core[n]), NEW r, r = heartbeat(n, core[n])
    PROVE  Safely(L, A, n, r)
  <1>1. r.core = core[n] /\ r.acts.send = append_entries(n, core[n]) /\ Idle(core[n], r)
    BY HeartbeatResult, HeartbeatIdle, BeforeInput
  <1>2. \A x \in r.acts.send : SentSafe(L, A, n, r.core, x)
    BY <1>1, BeforeInput, SentToAll DEF is_leader
  <1>3. VoteOK(L, A, n, r.core)
    BY <1>1, OldVote
  <1>4. SamePeers(core[n], r.core) /\ r.core \in Core
        /\ r.core.current_term >= core[n].current_term
    BY <1>1, BeforeInput DEF SamePeers
  <1> QED  BY <1>1, <1>2, <1>3, <1>4, RoleSafe

LEMMA TimeoutSafe ==
    ASSUME IInv, Files, NEW L \in Logs, LogInv(L), NEW A \in Acks, SafetyInv(L, A),
           NEW n \in Node, ~is_leader(core[n]), NEW r, r = election_timeout(n, core[n])
    PROVE  Safely(L, A, n, r)
  <1> DEFINE c == core[n]
  <1>1. c \in Core /\ Whole(c) /\ c.last_applied = c.commit_index /\ c.current_term \in Nat
        /\ NodeSafe(L, A, n, c) /\ c.state # Leader
    BY BeforeInput DEF is_leader
  <1>2. r.core \in Core /\ r.core.state = Candidate
        /\ r.core.current_term = c.current_term + 1 /\ r.core.voted_for = n
    BY <1>1, ElectionTimeoutOK DEF StepOK, ResultOK
  <1>3. Idle(c, r) /\ SamePeers(c, r.core)
        /\ \A x \in r.acts.send : /\ x.type = "RequestVote" /\ x.from = n /\ x.to # n
                                  /\ x.term = r.core.current_term
                                  /\ x.last_log_index = last_log_index(c)
                                  /\ x.last_log_term = last_log_term(c)
    BY <1>1, ElectionTimeoutIdle, ElectionTimeoutResult
  <1>4. r.core.log = c.log /\ r.core.match_index[n] = None
    BY <1>1, <1>3 DEF Idle, SameLog, SamePeers, NodeSafe
  <1>5. last_log_index(c) = Len(c.log) /\ last_log_term(c) = LastTerm(c.log)
    <2>1. last_log_index(c) = Len(c.log) /\ log_term_at(c, 0) = 0
          /\ \A i \in 1 .. Len(c.log) : log_term_at(c, i) = c.log[i].term
      BY <1>1, WholeLog
    <2>2. c.log \in Seq(Entry) /\ Len(c.log) \in Nat
      BY <1>1 DEF Core
    <2>3. CASE c.log = << >>
      <3>1. Len(c.log) = 0
        BY <2>3
      <3> QED  BY <2>1, <2>3, <3>1 DEF last_log_term, LastTerm
    <2>4. CASE c.log # << >>
      <3>1. Len(c.log) \in 1 .. Len(c.log)
        BY <2>2, <2>4
      <3> QED  BY <2>1, <2>4, <3>1 DEF last_log_term, LastTerm
    <2> QED  BY <2>3, <2>4
  <1>6. \A x \in r.acts.send : SentSafe(L, A, n, r.core, x)
    BY <1>3, <1>4, <1>5 DEF SentSafe
  <1>7. r.core.current_term > c.current_term /\ r.core.current_term >= c.current_term
    BY <1>1, <1>2
  <1>8. VoteOK(L, A, n, r.core) /\ Stands(c, r.core) /\ r.core.state # Leader
    BY <1>2, <1>7 DEF VoteOK, Stands, Leader, Candidate
  <1> QED  BY <1>2, <1>3, <1>4, <1>6, <1>7, <1>8, IdleSafe

LEMMA RequestVoteSafe ==
    ASSUME IInv, Files, NEW L \in Logs, LogInv(L), NEW A \in Acks, SafetyInv(L, A),
           NEW n \in Node, NEW m \in net, m.to = n, m.type = "RequestVote", NEW r,
           r = handle_request_vote(n, core[n], m)
    PROVE  Safely(L, A, n, r)
  <1> DEFINE c == core[n]
  <1>1. c \in Core /\ Whole(c) /\ c.last_applied = c.commit_index /\ c.current_term \in Nat
        /\ NodeSafe(L, A, n, c) /\ Agrees(L, c.log) /\ MessageOK(m) /\ MessageSafe(L, A, m)
    BY BeforeInput
  <1>2. StepOK(n, c, r) /\ RoleOK(c, r) /\ Idle(c, r) /\ Answers(n, m, r, "RequestVoteResponse")
    BY <1>1, RequestVoteOK, RequestVoteIdle
  <1>3. SamePeers(c, r.core)
        /\ \/ r.core.voted_for = None \/ Grants(c, m, r)
           \/ r.core.current_term = c.current_term /\ r.core.voted_for = c.voted_for
    BY <1>1, RequestVoteResult
  <1>4. r.core \in Core /\ r.core.current_term >= c.current_term
    BY <1>1, <1>2, TermGrows DEF StepOK, ResultOK
  <1>5. \A x \in r.acts.send : SentSafe(L, A, n, r.core, x)
    BY <1>1, <1>2 DEF Answers, SentSafe, MessageSafe
  <1>6. ASSUME Grants(c, m, r) PROVE VoteOK(L, A, n, r.core)
    <2> DEFINE p == m.from
               d == core[p]
    <2>1. p \in Node /\ p # n /\ d.current_term >= m.term /\ m.term \in Nat
          /\ (d.state = Candidate /\ d.current_term = m.term =>
                m.last_log_index = Len(d.log) /\ m.last_log_term = LastTerm(d.log))
      BY <1>1 DEF MessageOK, MessageSafe
    <2>2. m.term >= c.current_term /\ log_check(c, m) /\ r.core.current_term = m.term
          /\ r.core.voted_for = p
      BY <1>6 DEF Grants
    <2>3. d \in Core /\ Agrees(L, d.log) /\ Rising(d.log, d.current_term)
          /\ (\A t \in Nat : LogSafe(L, t))
          /\ \A a \in A : a.term \in Nat /\ a.index \in Nat /\ a.index <= Len(L[a.term])
      BY <2>1, BeforeInput DEF NodeSafe
    <2>4. ASSUME d.state = Candidate, d.current_term = m.term, NEW a \in A, a.node = n
          PROVE  Kept(L, a, d.log, m.term + 1)
      <3>1. Kept(L, a, c.log, c.current_term + 1)
        BY <1>1, <2>4 DEF NodeSafe
      <3>2. c.current_term <= d.current_term
        BY <1>1, <2>1, <2>2, <2>4
      <3>3. Kept(L, a, d.log, d.current_term + 1)
        <4> HIDE DEF c, d
        <4> QED  BY <1>1, <2>1, <2>2, <2>3, <2>4, <3>1, <3>2, VoteJustified
      <3> QED  BY <2>4, <3>3
    <2> QED  BY <2>1, <2>2, <2>4 DEF VoteOK
  <1>7. VoteOK(L, A, n, r.core)
    BY <1>3, <1>6, OldVote
  <1> QED  BY <1>2, <1>3, <1>4, <1>5, <1>7, RoleSafe DEF RoleOK

\* A leader, or a candidate that has won, appends an entry.
LEMMA PushSafe ==
    ASSUME InSessionOnly, IInv, ElectionInv, Files, NEW L \in Logs, LogInv(L),
           NEW A \in Acks, SafetyInv(L, A), NEW n \in Node, NEW r, NEW pending,
           Input(n, r, pending), NEW command \in Command \cup {Noop},
           Pushes(n, core[n], r, command), SameVote(core[n], r),
           \/ core[n].state = Leader /\ SamePeers(core[n], r.core)
           \/ Wins(n, core[n], r)
    PROVE  Safely(L, A, n, r)
  <1> DEFINE c == core[n]
             T == c.current_term
             e == [term |-> T, command |-> command]
             k == Len(c.log) + 1
             B == A \cup {Ack(T, n, k)}
  <1>1. c \in Core /\ Whole(c) /\ T \in Nat /\ c.log \in Seq(Entry) /\ c.commit_index \in Nat
        /\ Agrees(L, c.log) /\ NodeSafe(L, A, n, c) /\ (c.state = Leader => L[T] = c.log)
        /\ (\A t \in Nat : LogSafe(L, t))
        /\ \A a \in A : /\ a.term \in Nat /\ a.index \in Nat /\ a.index <= Len(L[a.term])
    BY BeforeInput
  <1>2. PICK M \in Logs : M = Grow(L, r)
    BY InputGrows
  <1>3. Extends(L, M) /\ r.core \in Core /\ M[T] = r.core.log
        /\ (\A t \in Nat : t # T => M[t] = L[t]) /\ ByMajority(T, n)
    <2>1. r.core.state = Leader /\ r.core.current_term = T
      BY DEF Pushes
    <2> QED  BY <1>2, <2>1, InputGrows, GrowLogs DEF Acts
  <1>4. r.core.log = Append(c.log, e) /\ r.core.current_term = T /\ r.core.state = Leader
        /\ r.core.commit_index = c.commit_index /\ r.core.voted_for = c.voted_for
        /\ r.acts.apply = << >> /\ r.acts.send = append_entries(n, r.core)
    BY <1>1 DEF Pushes, SameLog, SameVote, Core
  <1>5. e \in Entry /\ k \in Nat /\ k >= 1 /\ Len(r.core.log) = k /\ r.core.log \in Seq(Entry)
        /\ r.core.log # << >> /\ r.core.log[k].term = T
        /\ Len(c.log) <= k /\ (\A i \in 1 .. Len(c.log) : r.core.log[i] = c.log[i])
    BY SMTT(30), <1>1, <1>3, <1>4 DEF Entry
  <1>6. B \in Acks /\ A \subseteq B
    BY <1>1, <1>5 DEF Acks, Ack
  <1> HIDE DEF e, k
  <1>7. c.state = Leader \/ (c.state = Candidate /\ L[T] = << >>)
    <2> SUFFICES ASSUME Wins(n, c, r), L[T] # << >> PROVE FALSE
      BY DEF Wins
    <2>1. PICK w \in Node : Won(T, w)
      BY <1>1 DEF LogInv
    <2>2. w = n
      BY <1>3, <2>1, OneWinner DEF Won, IInv, VoteInv
    <2> QED  BY <1>1, <2>1, <2>2 DEF Won, Wins
  <1>8. Grows(L, A, M, B)
    <2>1. ASSUME NEW t \in Nat, L[t] # << >>, NEW i \in Len(L[t]) + 1 .. Len(M[t])
          PROVE  M[t][i].term = t
      <3>1. CASE t # T
        BY <1>3, <2>1, <3>1, LogsLen
      <3>2. CASE t = T
        <4>1. L[t] = c.log /\ M[t] = r.core.log
          BY <1>1, <1>3, <1>7, <2>1, <3>2
        <4>2. i = k
          BY <1>1, <1>5, <2>1, <4>1 DEF k
        <4> QED  BY <1>5, <3>2, <4>1, <4>2
      <3> QED  BY <3>1, <3>2
    <2> QED  BY <1>3, <1>6, <2>1 DEF Grows
  <1>9. Rising(r.core.log, T)
    <2>1. \A i \in 1 .. k : i = k \/ i \in 1 .. Len(c.log)
      BY <1>1 DEF k
    <2>2. Rising(c.log, T)
      BY <1>1 DEF NodeSafe
    <2>3. ASSUME NEW i \in 1 .. k
          PROVE  r.core.log[i].term <= T /\ \A j \in 1 .. i : r.core.log[j].term <= r.core.log[i].term
      <3>1. CASE i \in 1 .. Len(c.log)
        <4>1. \A j \in 1 .. i : j \in 1 .. Len(c.log)
          BY <1>1, <3>1
        <4> QED  BY <1>5, <2>2, <3>1, <4>1 DEF Rising
      <3>2. CASE i = k
        BY <1>1, <1>5, <2>1, <2>2, <3>2 DEF Rising
      <3> QED  BY <2>1, <3>1, <3>2
    <2> QED  BY <1>5, <2>3 DEF Rising
  <1>10. \A t \in Nat : LogSafe(M, t)
    <2>1. LogSafe(M, T)
      BY <1>3, <1>5, <1>9 DEF LogSafe
    <2>2. \A t \in Nat : t # T => LogSafe(M, t)
      BY <1>1, <1>3 DEF LogSafe
    <2> QED  BY <2>1, <2>2
  <1>a. ASSUME NEW a \in A, NEW b \in Nat, Kept(L, a, c.log, b)
        PROVE  Kept(M, a, r.core.log, b)
    <2>1. b <= b /\ Len(c.log) <= Len(r.core.log)
      BY <1>1, <1>5
    <2> HIDE DEF c
    <2> QED  BY <1>a, <1>1, <1>5, <1>8, <2>1, KeptStable
  <1>11. ASSUME NEW t \in Nat, L[t] = << >>, M[t] # << >>
         PROVE  t = r.core.current_term /\ Elected(M, A, t)
    <2>1. t = T
      BY <1>3, <1>11
    <2>2. c.state = Candidate
      <3>1. c.state = Leader => c.log # << >>
        BY <1>1 DEF NodeSafe, LeaderSafe
      <3> QED  BY <1>1, <1>7, <1>11, <2>1, <3>1
    <2>3. PICK Q \in SUBSET Node : /\ 2 * Cardinality(Q) > Cardinality(Node)
                                   /\ \A q \in Q : Vote(T, q, n) \in votes
      BY <1>3 DEF ByMajority
    <2>4. ASSUME NEW q \in Q
          PROVE  /\ core[q].current_term >= t
                 /\ \A a \in A : a.node = q /\ a.term < t => Kept(M, a, M[t], t)
      <3> DEFINE v == Vote(T, q, n)
      <3>1. v \in votes /\ v.term = T /\ v.voter = q /\ v.candidate = n
        BY <2>3 DEF Vote
      <3>2. core[q].current_term >= T
        BY <1>1, <3>1, CoreTerms
      <3>3. VoteSafe(L, A, v)
        BY <3>1 DEF SafetyInv
      <3> HIDE DEF v
      <3>4. ASSUME NEW a \in A, a.node = q, a.term < T PROVE Kept(M, a, M[T], T)
        <4>1. Kept(L, a, c.log, T + 1)
          BY <2>2, <3>1, <3>3, <3>4 DEF VoteSafe
        <4>2. Kept(L, a, c.log, T)
          BY <1>1, <1>11, <2>1, <4>1, KeptBefore
        <4> QED  BY <1>1, <1>3, <1>a, <4>2
      <3> QED  BY <2>1, <3>2, <3>4
    <2> QED  BY <1>4, <2>1, <2>3, <2>4 DEF Elected
  <1>12. NodeSafe(M, B, n, r.core)
    <2>1. ASSUME NEW a \in B, a.node = n PROVE Kept(M, a, r.core.log, T + 1)
      <3>1. CASE a \in A
        BY <1>1, <1>a, <2>1, <3>1 DEF NodeSafe
      <3>2. CASE a = Ack(T, n, k)
        <4>1. a.term = T /\ a.index = k
          BY <3>2 DEF Ack
        <4> QED  BY <1>3, <1>5, <4>1 DEF Kept, Has
      <3> QED  BY <3>1, <3>2
    <2>2. Reached(M, B, r.core.log, c.commit_index, T)
      <3>1. Reached(L, A, c.log, c.commit_index, T)
        BY <1>1 DEF NodeSafe
      <3>2. c.commit_index <= Len(c.log) => Same(c.log, r.core.log, c.commit_index)
        BY <1>1, <1>5 DEF Same
      <3>3. T <= T
        BY <1>1
      <3> HIDE DEF T, c
      <3> QED  BY <1>1, <1>5, <1>8, <3>1, <3>2, <3>3, ReachedStable
    <2>3. r.core.match_index[n] = None
      BY <1>1 DEF NodeSafe, SamePeers, Wins
    <2>4. LeaderSafe(B, n, r.core)
      <3>1. Ack(r.core.current_term, n, Len(r.core.log)) \in B
        BY <1>4, <1>5
      <3>2. ASSUME NEW p \in Peers(n)
            PROVE  /\ r.core.next_index[p] \in 1 .. Len(r.core.log) + 1
                   /\ r.core.match_index[p] \in Nat
                   /\ r.core.match_index[p] # 0 =>
                         Ack(r.core.current_term, p, r.core.match_index[p]) \in B
        <4>1. CASE c.state = Leader /\ SamePeers(c, r.core)
          <5>1. /\ c.next_index[p] \in 1 .. Len(c.log) + 1 /\ c.match_index[p] \in Nat
                /\ c.match_index[p] # 0 => Ack(T, p, c.match_index[p]) \in A
            BY <1>1, <4>1 DEF NodeSafe, LeaderSafe
          <5>2. c.next_index[p] \in 1 .. Len(r.core.log) + 1
            BY <1>1, <1>5, <5>1
          <5> QED  BY <1>4, <1>6, <4>1, <5>1, <5>2 DEF SamePeers
        <4>2. CASE Wins(n, c, r)
          <5>1. r.core.next_index[p] = last_log_index(r.core) + 1 /\ r.core.match_index[p] = 0
            BY <4>2 DEF Wins
          <5>2. last_log_index(r.core) = k
            BY <1>1, <1>4, <1>5 DEF last_log_index, Whole, Pushes, SameLog, Core
          <5>3. k + 1 \in 1 .. k + 1
            BY <1>5
          <5> QED  BY <1>5, <5>1, <5>2, <5>3
        <4> QED  BY <4>1, <4>2
      <3> QED  BY <1>5, <3>1, <3>2 DEF LeaderSafe
    <2> QED  BY <1>4, <1>9, <2>1, <2>2, <2>3, <2>4 DEF NodeSafe
  <1>13. Stands(c, r.core) /\ VoteOK(L, A, n, r.core) /\ r.core.current_term >= c.current_term
    <2>1. VoteOK(L, A, n, r.core)
      BY <1>4, OldVote
    <2> QED  BY <1>1, <1>4, <2>1 DEF Stands, Leader, Candidate
  <1>14. \A a \in B : a \in A \/ (/\ a.node = n /\ a.term = r.core.current_term
                                 /\ a.index <= Len(M[a.term]))
    BY <1>3, <1>4, <1>5 DEF Ack
  <1> HIDE DEF B
  <1>15. StepSafe(L, A, M, B, n, r.core)
    BY <1>8, <1>10, <1>11, <1>12, <1>13, <1>14 DEF StepSafe
  <1>16. \A x \in r.acts.send : SentSafe(M, B, n, r.core, x)
    <2>1. Whole(r.core)
      BY InputPlain DEF Plainly
    <2> QED  BY <1>1, <1>3, <1>4, <1>10, <1>12, <2>1, SentToAll
  <1>17. Committed(r) = {}
    BY <1>4, NothingApplied
  <1>18. Applies(c, r)
    <2>1. r.core.commit_index = c.commit_index
      BY <1>1, <1>4 DEF Pushes, SameLog, Core
    <2> QED  BY <2>1, CoreTerms, NothingNew
  <1> QED  BY <1>2, <1>4, <1>6, <1>14, <1>15, <1>16, <1>17, <1>18 DEF Safely

\* A follower refuses entries: it may say where the leader shall resume.
LEMMA RefuseSafe ==
    ASSUME IInv, Files, NEW L \in Logs, LogInv(L), NEW A \in Acks, SafetyInv(L, A),
           NEW n \in Node, NEW m \in net, m.to = n, m.type = "AppendEntries", NEW r,
           r = handle_append_entries(n, core[n], m), Refuses(n, core[n], m, r)
    PROVE  Safely(L, A, n, r)
  <1> DEFINE c == core[n]
  <1>1. c \in Core /\ c.last_applied = c.commit_index /\ MessageOK(m) /\ MessageSafe(L, A, m)
        /\ Carries(L[m.term], m) /\ m.term \in Nat
    BY BeforeInput DEF MessageOK
  <1>2. StepOK(n, c, r) /\ RoleOK(c, r) /\ SamePeers(c, r.core) /\ StepsDown(c, m, r)
    BY <1>1, AppendEntriesOK, AppendEntriesResult
  <1>3. r.core \in Core /\ r.core.current_term >= c.current_term
    BY <1>1, <1>2, TermGrows DEF StepOK, ResultOK
  <1>4. Idle(c, r)
    BY DEF Refuses
  <1>5. ASSUME NEW x \in r.acts.send PROVE SentSafe(L, A, n, r.core, x)
    <2>1. x.type = "AppendEntriesResponse" /\ x.from = n /\ x.to = m.from /\ ~x.success
          /\ (x.first_conflicting_index # None =>
                 x.term = m.term /\ x.first_conflicting_index \in 1 .. m.prev_log_index)
      BY <1>5 DEF Refuses, Answers
    <2>2. x.to # n /\ LedBy(m.term, x.to)
      BY <1>1, <2>1 DEF MessageSafe
    <2>3. m.prev_log_index \in Nat /\ Len(m.entries) \in Nat /\ Len(L[m.term]) \in Nat
          /\ m.prev_log_index + Len(m.entries) <= Len(L[m.term])
      BY <1>1, LogsLen DEF MessageOK, Carries
    <2>4. x.first_conflicting_index # None =>
              x.first_conflicting_index \in 1 .. Len(L[x.term])
      BY <2>1, <2>3
    <2> QED  BY <2>1, <2>2, <2>4 DEF SentSafe
  <1>6. VoteOK(L, A, n, r.core)
    BY <1>1, <1>2, StepsDownVote, OldVote
  <1> QED  BY <1>2, <1>3, <1>4, <1>5, <1>6, RoleSafe DEF RoleOK

\* A follower accepts entries: it keeps what it has acknowledged and what it
\* has applied.
LEMMA AcceptSafe ==
    ASSUME IInv, Files, NEW L \in Logs, LogInv(L), NEW A \in Acks, SafetyInv(L, A),
           NEW n \in Node, NEW m \in net, m.to = n, m.type = "AppendEntries", NEW r,
           r = handle_append_entries(n, core[n], m), Accepts(n, core[n], m, r)
    PROVE  Safely(L, A, n, r) /\ ~r.panic
  <1> DEFINE c == core[n]
             T == m.term
             k == Len(r.core.log)
             B == A \cup {Ack(T, n, k)}
  <1>1. c \in Core /\ Whole(c) /\ c.last_applied = c.commit_index /\ c.current_term \in Nat
        /\ c.log \in Seq(Entry) /\ c.commit_index \in Nat /\ Agrees(L, c.log)
        /\ NodeSafe(L, A, n, c) /\ MessageOK(m) /\ MessageSafe(L, A, m)
        /\ Carries(L[T], m) /\ T \in Nat /\ m.leader_commit \in Nat
        /\ (\A t \in Nat : Agrees(L, L[t])) /\ (\A t \in Nat : LogSafe(L, t))
        /\ m.prev_log_index \in Nat /\ m.entries \in Seq(Entry)
    BY BeforeInput DEF MessageOK
  <1>2. StepOK(n, c, r) /\ SamePeers(c, r.core) /\ StepsDown(c, m, r)
    BY <1>1, AppendEntriesOK, AppendEntriesResult
  <1>3. r.core \in Core /\ r.core.log \in Seq(Entry) /\ k \in Nat
    BY <1>2 DEF StepOK, ResultOK, Core
  <1>4. T >= c.current_term /\ r.core.current_term = T /\ r.core.state = Follower
        /\ r.core.last_applied = r.core.commit_index
        /\ r.acts.apply = ApplyActions(c.commit_index + 1,
                              log_slice(r.core, c.commit_index + 1, r.core.commit_index + 1))
    BY DEF Accepts
  <1>5. Whole(r.core) /\ last_log_index(r.core) = k
    BY <1>1, <1>3, AcceptWrites, WholeLog
  <1>6. /\ LedBy(T, m.from) /\ Led(T) /\ m.prev_log_index + Len(m.entries) >= 1
        /\ L[T][m.prev_log_index + Len(m.entries)].term = T
        /\ Reached(L, A, L[T], m.leader_commit, T) /\ m.from # n
    BY <1>1 DEF MessageSafe, LedBy, Led
  <1>7. Same(r.core.log, L[T], k) /\ r.core.log # << >> /\ Rising(r.core.log, T)
        /\ L[T] # << >>
    <2>1. Rising(c.log, c.current_term)
      BY <1>1 DEF NodeSafe
    <2> HIDE DEF c
    <2> QED  BY <1>1, <1>3, <1>6, <2>1, AcceptedIsLeaders DEF c
  <1>8. Len(L[T]) \in Nat /\ k <= Len(L[T]) /\ \A j \in 1 .. k : r.core.log[j] = L[T][j]
    BY <1>1, <1>7, LogsLen DEF Same
  <1>9. ASSUME NEW j \in 1 .. Len(c.log), j <= Len(L[T]), c.log[j].term = L[T][j].term
        PROVE  j <= k /\ r.core.log[j] = c.log[j]
    <2>1. Agrees(L, L[T])
      BY <1>1
    <2>2. PICK b \in Core : b = core[n]
      BY <1>1
    <2> QED  BY <1>1, <1>3, <1>9, <2>1, <2>2, AcceptedKeeps
  <1>10. B \in Acks /\ A \subseteq B
    BY <1>1, <1>3 DEF Acks, Ack
  <1>11. Grows(L, A, L, B)
    BY <1>10, GrowsSelf
  <1>12. ASSUME NEW a \in A, a.node = n PROVE Kept(L, a, r.core.log, T + 1)
    <2>1. a.term \in Nat /\ a.index \in Nat /\ a.index <= Len(L[a.term])
          /\ a.term <= c.current_term
      BY <1>12, BeforeInput DEF AckSafe
    <2>2. Kept(L, a, c.log, c.current_term + 1)
      BY <1>1, <1>12 DEF NodeSafe
    <2> SUFFICES ASSUME NEW j \in 1 .. a.index, L[a.term][j].term = a.term
                 PROVE  Has(r.core.log, a.term, j) \/ Lacks(L, a.term, j, T + 1)
      BY DEF Kept
    <2>3. j \in Nat /\ j >= 1
      OBVIOUS
    <2>4. CASE Lacks(L, a.term, j, c.current_term + 1)
      <3>1. c.current_term + 1 \in Nat /\ T + 1 \in Nat /\ c.current_term + 1 <= T + 1
        BY <1>1, <1>4
      <3> HIDE DEF c, T
      <3> QED  BY <1>11, <2>1, <2>3, <2>4, <3>1, LacksStable
    <2>5. CASE Has(c.log, a.term, j)
      <3>1. j \in 1 .. Len(c.log) /\ c.log[j].term = a.term
        BY <1>1, <2>3, <2>5 DEF Has
      <3>2. CASE Has(L[T], a.term, j)
        BY <1>9, <3>1, <3>2 DEF Has
      <3>3. CASE ~Has(L[T], a.term, j)
        <4>1. a.term # T
          BY <1>8, <2>1, <3>3 DEF Has
        <4>2. a.term < T /\ T < T + 1
          BY <1>1, <1>4, <2>1, <4>1
        <4> QED  BY <1>1, <1>7, <3>3, <4>2 DEF Lacks
      <3> QED  BY <3>2, <3>3
    <2> QED  BY <2>2, <2>4, <2>5 DEF Kept
  <1>13. \A a \in B : a.node = n => Kept(L, a, r.core.log, T + 1)
    <2>1. Kept(L, Ack(T, n, k), r.core.log, T + 1)
      BY <1>8 DEF Kept, Ack, Has
    <2> QED  BY <1>12, <2>1
  <1>14. c.commit_index <= k /\ Reached(L, A, r.core.log, c.commit_index, T)
    <2>1. CASE c.commit_index = 0
      BY <1>3, <2>1 DEF Reached
    <2>2. CASE c.commit_index # 0
      <3>1. PICK u \in Nat, j \in Nat :
                /\ u <= c.current_term /\ c.commit_index <= j /\ Settled(L, A, u, j)
                /\ Same(c.log, L[u], c.commit_index)
        BY <1>1, <2>2 DEF NodeSafe, Reached
      <3>2. u <= T /\ T >= u
        BY <1>1, <1>4, <3>1
      <3>3. Same(L[u], L[T], j)
        <4>1. \A t \in Nat : L[t] # << >> => Elected(L, A, t)
          BY DEF SafetyInv
        <4> HIDE DEF T
        <4> QED  BY <1>1, <1>7, <3>1, <3>2, <4>1, SettledPrefix
      <3>4. \A i \in 1 .. c.commit_index : i <= k /\ r.core.log[i] = c.log[i]
        <4>1. ASSUME NEW i \in 1 .. c.commit_index
              PROVE  i \in 1 .. Len(c.log) /\ i <= Len(L[T]) /\ c.log[i].term = L[T][i].term
          <5>1. i \in Nat /\ i >= 1 /\ i <= c.commit_index /\ i <= j
            BY <1>1, <3>1, <4>1
          <5>2. i <= Len(c.log) /\ i <= Len(L[u]) /\ c.log[i] = L[u][i]
            <6>1. Len(c.log) \in Nat /\ Len(L[u]) \in Nat
              BY <1>1, LogsLen
            <6>2. c.commit_index <= Len(c.log) /\ c.commit_index <= Len(L[u])
                  /\ c.log[i] = L[u][i]
              BY <3>1, <4>1 DEF Same
            <6> QED  BY <1>1, <5>1, <6>1, <6>2
          <5>3. i <= Len(L[T]) /\ L[u][i] = L[T][i]
            BY <1>8, <3>1, <3>3, <5>1 DEF Same
          <5>4. i \in 1 .. Len(c.log)
            BY <1>1, <5>1, <5>2
          <5> QED  BY <5>2, <5>3, <5>4
        <4> QED  BY <1>9, <4>1
      <3>5. c.commit_index <= k
        BY <1>1, <2>2, <3>4
      <3>6. Same(r.core.log, L[u], c.commit_index)
        BY <1>3, <3>1, <3>4, <3>5 DEF Same
      <3> QED  BY <3>1, <3>2, <3>5, <3>6 DEF Reached
    <2> QED  BY <2>1, <2>2
  <1>15. /\ r.core.commit_index \in Nat /\ c.commit_index <= r.core.commit_index
         /\ r.core.commit_index <= k
         /\ Reached(L, A, r.core.log, r.core.commit_index, T)
    <2>1. CASE m.leader_commit > c.commit_index
      <3>1. r.core.commit_index = min(m.leader_commit, k)
        BY <1>5, <2>1 DEF Accepts
      <3>2. r.core.commit_index \in Nat /\ r.core.commit_index <= k
            /\ r.core.commit_index <= m.leader_commit /\ c.commit_index <= r.core.commit_index
        BY <1>1, <1>3, <1>14, <2>1, <3>1 DEF min
      <3>3. PICK u \in Nat, j \in Nat :
                /\ u <= T /\ m.leader_commit <= j /\ Settled(L, A, u, j)
                /\ Same(L[T], L[u], m.leader_commit)
        BY <1>1, <1>6, <2>1 DEF Reached
      <3> HIDE DEF c, T, k
      <3>4. r.core.commit_index <= j
        BY <1>1, <3>2, <3>3
      <3>5. Same(r.core.log, L[u], r.core.commit_index)
        <4>1. PICK i \in Nat : i = r.core.commit_index
          BY <3>2
        <4>2. Same(L[T], L[u], i)
          BY SMTT(30), <1>1, <1>8, <3>2, <3>3, <4>1, LogsLen DEF Same
        <4>3. i <= k /\ \A q \in 1 .. i : q \in 1 .. k
          BY <1>3, <3>2, <4>1
        <4>4. Same(r.core.log, L[u], i)
          BY <1>8, <4>2, <4>3 DEF Same, k
        <4> QED  BY <4>1, <4>4
      <3> QED  BY <3>2, <3>3, <3>4, <3>5 DEF Reached
    <2>2. CASE ~ (m.leader_commit > c.commit_index)
      <3>1. r.core.commit_index = c.commit_index
        BY <2>2 DEF Accepts
      <3> QED  BY <1>1, <1>14, <3>1
    <2> QED  BY <2>1, <2>2
  <1>16. ~r.panic
    <2>1. ~OverwritePanics(c, m.prev_log_index, m.entries)
      BY <1>1 DEF OverwritePanics, Whole
    <2>2. ~ (r.core.commit_index < c.commit_index)
      BY <1>1, <1>15
    <2> QED  BY <2>1, <2>2 DEF Accepts
  <1>17. NodeSafe(L, B, n, r.core)
    <2>1. r.core.match_index[n] = None
      BY <1>1, <1>2 DEF NodeSafe, SamePeers
    <2>2. r.core.state # Leader
      BY <1>4 DEF Leader, Follower
    <2>3. Reached(L, B, r.core.log, r.core.commit_index, T)
      <3>1. r.core.commit_index <= Len(r.core.log) =>
                Same(r.core.log, r.core.log, r.core.commit_index)
        BY DEF Same
      <3>2. T <= T
        BY <1>1
      <3> HIDE DEF T
      <3> QED  BY <1>1, <1>3, <1>11, <1>15, <3>1, <3>2, ReachedStable
    <2> QED  BY <1>4, <1>7, <1>13, <2>1, <2>2, <2>3 DEF NodeSafe
  <1>18. Stands(c, r.core) /\ VoteOK(L, A, n, r.core)
    <2>1. VoteOK(L, A, n, r.core)
      BY <1>1, <1>2, StepsDownVote, OldVote
    <2> QED  BY <1>4, <2>1 DEF Stands, Follower, Candidate
  <1>19. \A a \in B : a \in A \/ (/\ a.node = n /\ a.term = T /\ a.index <= Len(L[a.term]))
    BY <1>8 DEF Ack
  <1>20. Ack(T, n, k) \in B
    OBVIOUS
  <1> HIDE DEF B
  <1>21. StepSafe(L, A, L, B, n, r.core)
    BY <1>1, <1>4, <1>11, <1>17, <1>18, <1>19 DEF StepSafe
  <1>22. \A x \in r.acts.send : SentSafe(L, B, n, r.core, x)
    <2>1. r.acts.send = {[ type |-> "AppendEntriesResponse", from |-> n, to |-> m.from,
                           term |-> T, success |-> TRUE, match_index |-> k,
                           first_conflicting_index |-> None ]}
      BY <1>5 DEF Accepts
    <2> QED  BY <1>6, <1>20, <2>1 DEF SentSafe
  <1>23. \A e \in Committed(r) : Historic(L, B, e)
    <2>1. Reached(L, B, r.core.log, r.core.commit_index, r.core.current_term)
      BY <1>17 DEF NodeSafe
    <2> QED  BY <1>1, <1>3, <1>4, <1>5, <1>15, <2>1, AppliesSettled
  <1>24. Grow(L, r) = L
    BY <1>3, <1>4, GrowSame DEF Leader, Follower
  <1>25. \A a \in B : a \in A \/ Led(a.term)
    BY <1>6, <1>19
  <1>26. Applies(c, r)
    <2> HIDE DEF c
    <2> QED  BY <1>1, <1>3, <1>4, <1>5, <1>15, AppliesAll
  <1>27. Safely(L, A, n, r)
    BY <1>10, <1>21, <1>22, <1>23, <1>24, <1>25, <1>26 DEF Safely
  <1> QED  BY <1>16, <1>27

\* What a leader's counters become.
LEMMA ResponseResult ==
    ASSUME NEW n \in Node, NEW c \in Core, c.last_applied = c.commit_index, NEW m,
           MessageOK(m), m.type = "AppendEntriesResponse", m.term = c.current_term, NEW r,
           r = handle_append_entries_response(n, c, m)
    PROVE  /\ SameVote(c, r)
           /\ \A p \in Node : p # m.from => r.core.next_index[p] = c.next_index[p]
           /\ m.success => r.core.next_index[m.from] = m.match_index + 1
           /\ ~m.success /\ m.first_conflicting_index # None =>
                 /\ r.core.match_index = c.match_index
                 /\ r.core.next_index[m.from] \in
                       {c.next_index[m.from], m.first_conflicting_index}
  <1>1. LET q == handle_append_entries_response(n, c, m) IN
        /\ SameVote(c, q)
        /\ m.success =>
              q.core.next_index = [c.next_index EXCEPT ![m.from] = m.match_index + 1]
        /\ ~m.success =>
              /\ q.core.match_index = c.match_index
              /\ q.core.next_index = c.next_index
                 \/ q.core.next_index = [c.next_index EXCEPT ![m.from] =
                      IF m.first_conflicting_index = None THEN 0
                      ELSE m.first_conflicting_index]
    BY AppendEntriesResponseResult
  <1>2. DOMAIN c.next_index = Node /\ m.from \in Node /\ m.success \in BOOLEAN
    BY DEF Core, MessageOK
  <1>3. \/ r.core.next_index = c.next_index
        \/ \E k : r.core.next_index = [c.next_index EXCEPT ![m.from] = k]
    BY <1>1, <1>2
  <1>4. \A p \in Node : p # m.from => r.core.next_index[p] = c.next_index[p]
    BY <1>2, <1>3
  <1>5. m.success => r.core.next_index[m.from] = m.match_index + 1
    BY <1>1, <1>2
  <1>6. ~m.success /\ m.first_conflicting_index # None =>
            /\ r.core.match_index = c.match_index
            /\ r.core.next_index[m.from] \in
                  {c.next_index[m.from], m.first_conflicting_index}
    BY <1>1, <1>2
  <1> QED  BY <1>1, <1>4, <1>5, <1>6

\* A leader whose follower refuses resumes where the follower says.
LEMMA RetrySafe ==
    ASSUME IInv, Files, NEW L \in Logs, LogInv(L), NEW A \in Acks, SafetyInv(L, A),
           NEW n \in Node, NEW m \in net, m.to = n, m.type = "AppendEntriesResponse",
           m.term = core[n].current_term, core[n].state = Leader, ~m.success,
           m.first_conflicting_index # None, NEW r,
           r = handle_append_entries_response(n, core[n], m)
    PROVE  Safely(L, A, n, r) /\ ~r.panic
  <1> DEFINE c == core[n]
             i == m.first_conflicting_index
  <1>1. c \in Core /\ Whole(c) /\ c.last_applied = c.commit_index /\ c.current_term \in Nat
        /\ NodeSafe(L, A, n, c) /\ MessageOK(m) /\ MessageSafe(L, A, m) /\ m.from \in Node
        /\ (c.state = Leader => L[c.current_term] = c.log) /\ LogSafe(L, c.current_term)
        /\ c.log \in Seq(Entry)
    BY BeforeInput DEF MessageOK
  <1>2. m.term = c.current_term /\ c.state = Leader /\ i # None
    OBVIOUS
  <1>3. ~ (m.term > c.current_term)
    BY <1>1, <1>2
  <1>4. check_msg_term(c, m.term) = c
    BY <1>3 DEF check_msg_term
  <1>5. StepOK(n, c, r) /\ Idle(c, r) /\ ~r.panic /\ r.core.state = Leader
        /\ r.core.current_term = c.current_term
        /\ r.acts.send = {build_append_entries_for_peer(n, r.core, m.from)}
    <2> HIDE DEF c
    <2> QED  BY <1>1, <1>2, <1>4, AppendEntriesResponseOK, AppendEntriesResponseKeeps DEF c
  <1>6. /\ SameVote(c, r) /\ r.core.match_index = c.match_index
        /\ \A p \in Node : p # m.from => r.core.next_index[p] = c.next_index[p]
        /\ r.core.next_index[m.from] \in {c.next_index[m.from], i}
    <2> HIDE DEF c
    <2>1. r = handle_append_entries_response(n, c, m)
      BY DEF c
    <2>2. m.term = c.current_term /\ c.last_applied = c.commit_index /\ c \in Core
          /\ MessageOK(m)
      BY <1>1, <1>2
    <2> QED  BY <1>2, <2>1, <2>2, ResponseResult
  <1>7. i \in 1 .. Len(c.log) /\ m.from \in Peers(n)
    BY <1>1, <1>2 DEF MessageSafe, Peers
  <1>8. r.core \in Core /\ r.core.log = c.log /\ r.core.commit_index = c.commit_index
        /\ Whole(r.core) /\ r.core.match_index[n] = None
        /\ r.core.current_term >= c.current_term
    BY <1>1, <1>5, <1>6 DEF StepOK, ResultOK, Idle, SameLog, Whole, NodeSafe
  <1>9. LeaderSafe(A, n, r.core)
    <2>1. LeaderSafe(A, n, c)
      BY <1>1, <1>2 DEF NodeSafe
    <2>2. ASSUME NEW p \in Peers(n) PROVE r.core.next_index[p] \in 1 .. Len(c.log) + 1
      <3>1. c.next_index[p] \in 1 .. Len(c.log) + 1
        BY <2>1 DEF LeaderSafe
      <3>2. i \in 1 .. Len(c.log) + 1
        BY <1>1, <1>7
      <3>3. p \in Node
        BY DEF Peers
      <3> HIDE DEF c, i
      <3> QED  BY <1>6, <3>1, <3>2, <3>3
    <2> QED  BY <1>5, <1>6, <1>8, <2>1, <2>2 DEF LeaderSafe
  <1>10. VoteOK(L, A, n, r.core)
    BY <1>6, OldVote DEF SameVote
  <1>11. Reached(L, A, r.core.log, r.core.commit_index, r.core.current_term)
    BY <1>1, <1>5, <1>8 DEF NodeSafe
  <1>12. \A x \in r.acts.send : SentSafe(L, A, n, r.core, x)
    BY <1>1, <1>2, <1>5, <1>7, <1>8, <1>9, <1>11, SentAppend
  <1>13. Stands(c, r.core)
    BY <1>5 DEF Stands, Leader, Candidate
  <1> QED  BY <1>2, <1>5, <1>8, <1>9, <1>10, <1>12, <1>13, IdleSafe

\* A node that does not lead, or that learns of a later term from the refusal.
LEMMA OutdatedResult ==
    ASSUME NEW n \in Node, NEW c \in Core, Whole(c), NEW m, MessageOK(m), NEW r,
           m.type = "AppendEntriesResponse", ~m.success, m.first_conflicting_index = None,
           r = handle_append_entries_response(n, c, m)
    PROVE  /\ StepsDown(c, m, r) /\ r.core.match_index = c.match_index
           /\ \A x \in r.acts.send : x.type # "InstallSnapshot"
  <1> DEFINE b == check_msg_term(c, m.term)
             back == IF b.next_index[m.from] = None THEN b
                     ELSE [b EXCEPT !.next_index[m.from] = 0]
             x == build_append_entries_for_peer(n, back, m.from)
             acts == [NoActions EXCEPT !.meta = StepDownMeta(c, m.term)]
             retries == [acts EXCEPT !.send = {x}]
  <1>1. r = Returns(back, retries)
    BY Zenon DEF handle_append_entries_response
  <1>2. retries.meta = StepDownMeta(c, m.term) /\ retries.send = {x}
    <2> HIDE DEF x
    <2> QED  BY DEF NoActions
  <1>3. m.from \in Node /\ m.term \in Nat
    BY DEF MessageOK
  <1>4. b \in Core /\ SameLog(c, b) /\ b.match_index = c.match_index
    BY <1>3, CheckMsgTerm, CheckMsgTermKeeps
  <1> HIDE DEF b
  <1> DEFINE next == [b.next_index EXCEPT ![m.from] = 0]
  <1>5. (back = b /\ b.next_index[m.from] = None) \/ back = [b EXCEPT !.next_index = next]
    BY <1>4 DEF Core
  <1>6. DOMAIN b.next_index = Node
    BY <1>4 DEF Core
  <1>7. back.match_index = b.match_index /\ back.current_term = b.current_term
        /\ back.voted_for = b.voted_for /\ back.log = b.log
        /\ back.last_included_index = b.last_included_index
        /\ back.last_included_term = b.last_included_term
        /\ back.next_index[m.from] \in {None, 0}
    BY <1>3, <1>4, <1>5, <1>6 DEF Core
  <1>8. back \in Core
    <2>1. next \in [Node -> Option(Nat)]
      BY <1>3, <1>4 DEF Core, Option
    <2> HIDE DEF next
    <2> QED  BY <1>4, <1>5, <2>1 DEF Core
  <1> HIDE DEF back, retries, x
  <1>9. r.core = back /\ r.acts = retries
    BY <1>1 DEF Returns
  <1>10. Whole(back)
    BY <1>4, <1>7 DEF Whole, SameLog
  <1>11. x.type # "InstallSnapshot"
    <2> DEFINE later == IF back.next_index[m.from] = None THEN last_log_index(back)
                        ELSE back.next_index[m.from]
               before == IF later > 0 THEN later - 1 ELSE 0
               entries == [ type |-> "AppendEntries", from |-> n, to |-> m.from,
                            term |-> back.current_term, prev_log_index |-> before,
                            prev_log_term |-> log_term_at(back, before),
                            entries |-> log_slice(back, later, last_log_index(back) + 1),
                            leader_commit |-> back.commit_index ]
    <2>1. x = IF log_term_at(back, before) = None
              THEN install_snapshot_for_peer(n, back, m.from) ELSE entries
      BY Zenon DEF x, build_append_entries_for_peer
    <2>2. last_log_index(back) = Len(back.log) /\ Len(back.log) \in Nat
          /\ back.last_included_index = 0
      <3>1. last_log_index(back) = Len(back.log) /\ back.last_included_index = 0
        BY <1>8, <1>10, WholeLog DEF Whole
      <3>2. back.log \in Seq(Entry)
        BY <1>8 DEF Core
      <3> QED  BY <3>1, <3>2
    <2>3. later \in 0 .. Len(back.log)
      BY <1>7, <2>2
    <2> HIDE DEF later
    <2>4. before \in Nat /\ before <= Len(back.log)
      BY <2>2, <2>3
    <2> HIDE DEF before
    <2>5. log_term_at(back, before) # None
      BY <1>8, <2>2, <2>4, LogTermAt, CoreAssumption
    <2>6. entries.type # "InstallSnapshot"
      OBVIOUS
    <2> QED  BY <2>1, <2>5, <2>6
  <1> QED  BY <1>2, <1>4, <1>7, <1>9, <1>11 DEF StepsDown, b

\* Such a node is not, or no longer, leader when it answers with a request.
LEMMA OutdatedSafe ==
    ASSUME IInv, Files, NEW L \in Logs, LogInv(L), NEW A \in Acks, SafetyInv(L, A),
           NEW n \in Node, NEW m \in net, m.to = n, m.type = "AppendEntriesResponse",
           core[n].state # Leader \/ m.term > core[n].current_term, ~m.success,
           m.first_conflicting_index = None, NEW r,
           r = handle_append_entries_response(n, core[n], m)
    PROVE  Safely(L, A, n, r) /\ ~r.panic /\ MetaVotes(r)
  <1> DEFINE c == core[n]
             b == check_msg_term(c, m.term)
  <1>1. c \in Core /\ Whole(c) /\ c.last_applied = c.commit_index /\ NodeSafe(L, A, n, c)
        /\ MessageOK(m) /\ MessageSafe(L, A, m) /\ m.from \in Node /\ m.term \in Nat
    BY BeforeInput DEF MessageOK
  <1>2. StepsDown(c, m, r) /\ r.core.match_index = c.match_index
        /\ \A x \in r.acts.send : x.type # "InstallSnapshot"
    <2> HIDE DEF c
    <2> QED  BY <1>1, OutdatedResult DEF c
  <1>3. /\ StepOK(n, c, r) /\ Idle(c, r) /\ ~r.panic /\ r.core.state = b.state
        /\ r.core.current_term = b.current_term
        /\ r.acts.send = {build_append_entries_for_peer(n, r.core, m.from)}
    <2> HIDE DEF c
    <2> QED  BY <1>1, AppendEntriesResponseOK, AppendEntriesResponseKeeps DEF c
  <1>4. r.core.state # Leader
        /\ (r.core.state = Candidate =>
               c.state = Candidate /\ r.core.current_term = c.current_term)
    BY <1>1, <1>3 DEF check_msg_term, Core, Leader, Candidate, Follower
  <1>5. r.core \in Core /\ r.core.current_term >= c.current_term /\ r.core.log = c.log
    BY <1>1, <1>3, TermGrows DEF StepOK, ResultOK, Idle, SameLog
  <1>6. MetaVotes(r) /\ VoteOK(L, A, n, r.core)
    BY <1>1, <1>2, StepsDownVote, OldVote
  <1>7. Stands(c, r.core) /\ r.core.match_index[n] = None
    BY <1>1, <1>2, <1>4, <1>5 DEF Stands, NodeSafe
  <1>8. ASSUME NEW x \in r.acts.send PROVE SentSafe(L, A, n, r.core, x)
    <2>1. x.from = n /\ x.to = m.from /\ x.type \in {"AppendEntries", "InstallSnapshot"}
      BY <1>3, <1>8, BuildShape
    <2>2. x.to # n
      BY <1>1, <2>1 DEF MessageSafe
    <2> QED  BY <1>2, <1>4, <1>8, <2>1, <2>2 DEF SentSafe
  <1>9. Safely(L, A, n, r)
    BY <1>3, <1>4, <1>5, <1>6, <1>7, <1>8, IdleSafe
  <1> QED  BY <1>3, <1>6, <1>9

\* What is in session and of the request's term reaches the leader of that term.
LEMMA InItsTerm ==
    ASSUME IInv, ElectionInv, Files, NEW L \in Logs, NEW A \in Acks, SafetyInv(L, A),
           NEW n \in Node, NEW m \in net, m.to = n, m.type = "AppendEntriesResponse",
           InSession(m), m.success \/ m.first_conflicting_index # None
    PROVE  m.term = core[n].current_term /\ core[n].state = Leader
  <1>1. LedBy(m.term, n) /\ m.term \in Nat
    BY DEF SafetyInv, MessageSafe, IInv, TypeOK, MessageOK
  <1>2. m.term >= core[n].current_term /\ core[n].state = Leader
    BY <1>1 DEF InSession, LedBy, is_leader
  <1>3. PICK Q \in SUBSET Node :
            /\ 2 * Cardinality(Q) > Cardinality(Node)
            /\ \A q \in Q : Vote(m.term, q, n) \in votes
    BY <1>1 DEF ElectionInv, LeadersAreElected, ByMajority, LedBy
  <1>4. PICK q : q \in Q
    BY <1>3, Majorities
  <1>5. VoteSafe(L, A, Vote(m.term, q, n))
    BY <1>3, <1>4 DEF SafetyInv
  <1>6. core[n].current_term >= m.term
    BY <1>5 DEF VoteSafe, Vote
  <1>7. core[n].current_term \in Nat
    BY CoreTerms
  <1> QED  BY <1>1, <1>2, <1>6, <1>7

\* A leader counts an acknowledgement, and commits what a majority has
\* acknowledged.
LEMMA CommitSafe ==
    ASSUME OddCluster, IInv, Files, NEW L \in Logs, LogInv(L), NEW A \in Acks,
           SafetyInv(L, A), NEW n \in Node, NEW m \in net, m.to = n,
           m.type = "AppendEntriesResponse", m.term = core[n].current_term,
           core[n].state = Leader, m.success, NEW r,
           r = handle_append_entries_response(n, core[n], m)
    PROVE  Safely(L, A, n, r) /\ ~r.panic
  <1> DEFINE c == core[n]
  <1>1. c \in Core /\ Whole(c) /\ c.last_applied = c.commit_index /\ c.current_term \in Nat
        /\ c.commit_index \in Nat /\ c.log \in Seq(Entry) /\ NodeSafe(L, A, n, c)
        /\ MessageOK(m) /\ MessageSafe(L, A, m) /\ m.from \in Node /\ m.match_index \in Nat
        /\ (c.state = Leader => L[c.current_term] = c.log) /\ LogSafe(L, c.current_term)
        /\ (\A t \in Nat : LogSafe(L, t))
        /\ \A a \in A : a.index <= Len(L[a.term])
    BY BeforeInput DEF MessageOK
  <1>2. m.term = c.current_term /\ c.state = Leader /\ L[c.current_term] = c.log
    BY <1>1
  <1>3. ~ (m.term > c.current_term)
    BY <1>1, <1>2
  <1>4. check_msg_term(c, m.term) = c
    BY <1>3 DEF check_msg_term
  <1>5. StepOK(n, c, r) /\ Commits(c, m, r)
    <2> HIDE DEF c
    <2> QED  BY <1>1, AppendEntriesResponseOK, AppendEntriesResponseKeeps DEF c
  <1>6. /\ SameVote(c, r) /\ r.core.next_index[m.from] = m.match_index + 1
        /\ \A p \in Node : p # m.from => r.core.next_index[p] = c.next_index[p]
    <2> HIDE DEF c
    <2>1. r = handle_append_entries_response(n, c, m)
      BY DEF c
    <2>2. m.term = c.current_term /\ c.last_applied = c.commit_index /\ c \in Core
          /\ MessageOK(m)
      BY <1>1, <1>2
    <2> QED  BY <2>1, <2>2, ResponseResult
  <1>7. Ack(c.current_term, m.from, m.match_index) \in A /\ m.match_index <= Len(c.log)
        /\ m.from \in Peers(n)
    BY <1>1, <1>2 DEF MessageSafe, Peers, Ack
  <1>8. LeaderSafe(A, n, c) /\ c.match_index[n] = None
        /\ Reached(L, A, c.log, c.commit_index, c.current_term)
    BY <1>1, <1>2 DEF NodeSafe
  <1>9. PICK d \in Core :
            /\ SameLog(c, d) /\ d.current_term = c.current_term
            /\ d.match_index = [c.match_index EXCEPT ![m.from] = m.match_index]
            /\ LET commit == new_commit(d, replicated_index(d)) IN
               /\ SameLog([d EXCEPT !.commit_index = commit, !.last_applied = commit], r.core)
               /\ r.core.state = c.state
               /\ r.core.current_term = d.current_term /\ r.core.match_index = d.match_index
               /\ r.acts.log = None /\ r.acts.install = None /\ r.acts.send = {}
               /\ r.acts.apply = ApplyActions(c.last_applied + 1,
                                     log_slice(d, c.last_applied + 1, commit + 1))
               /\ r.panic <=>
                     \/ \E i \in c.commit_index + 1 .. replicated_index(d) :
                           log_term_at(d, i) = None
                     \/ slice_panics(d, c.last_applied + 1, commit + 1)
    BY <1>4, <1>5, Zenon DEF Commits
  <1> DEFINE k == new_commit(d, replicated_index(d))
  <1>10. d.log = c.log /\ d.commit_index = c.commit_index /\ Whole(d)
         /\ d.last_included_index = 0
    BY <1>1, <1>9 DEF SameLog, Whole
  <1>11. DOMAIN c.match_index = Node /\ DOMAIN c.next_index = Node
    BY <1>1 DEF Core
  <1>12. ASSUME NEW p \in Peers(n)
         PROVE  /\ d.match_index[p] \in Nat /\ d.match_index[p] <= Len(c.log)
                /\ d.match_index[p] # 0 => Ack(c.current_term, p, d.match_index[p]) \in A
    <2>1. CASE p = m.from
      BY <1>1, <1>7, <1>9, <1>11, <2>1
    <2>2. CASE p # m.from
      <3>1. d.match_index[p] = c.match_index[p] /\ c.match_index[p] \in Nat
            /\ (c.match_index[p] # 0 => Ack(c.current_term, p, c.match_index[p]) \in A)
        BY <1>8, <1>9, <1>11, <2>2 DEF LeaderSafe, Peers
      <3>2. c.match_index[p] # 0 => c.match_index[p] <= Len(c.log)
        BY <1>1, <1>2, <3>1 DEF Ack
      <3>3. Len(c.log) \in Nat
        BY <1>1
      <3> QED  BY <3>1, <3>2, <3>3
    <2> QED  BY <2>1, <2>2
  <1>13. d.match_index[n] = None
    BY <1>7, <1>8, <1>9, <1>11 DEF Peers
  <1>14. Tracks(A, n, d)
    BY <1>8, <1>9, <1>10, <1>12, <1>13 DEF Tracks, LeaderSafe
  <1>15. /\ replicated_index(d) \in Nat /\ replicated_index(d) <= Len(c.log)
         /\ k \in Nat /\ k >= c.commit_index /\ k <= Len(c.log)
         /\ Reached(L, A, c.log, k, c.current_term)
    BY <1>2, <1>8, <1>9, <1>10, <1>14, CommitReached
  <1>16. /\ r.core.log = c.log /\ r.core.commit_index = k /\ Whole(r.core)
         /\ r.core.state = Leader /\ r.core.current_term = c.current_term
         /\ r.core.match_index = d.match_index /\ r.acts.send = {}
         /\ r.acts.apply = ApplyActions(c.commit_index + 1,
                               log_slice(d, c.commit_index + 1, k + 1))
    <2>1. SameLog([d EXCEPT !.commit_index = k, !.last_applied = k], r.core)
      BY <1>9
    <2> HIDE DEF k
    <2>2. r.core.log = d.log /\ r.core.commit_index = k
          /\ r.core.last_included_index = d.last_included_index
          /\ r.core.last_included_term = d.last_included_term
      BY <2>1 DEF SameLog, Core
    <2> QED  BY <1>1, <1>2, <1>9, <1>10, <2>2 DEF Whole, k
  <1>17. ~r.panic
    <2>1. ~ \E i \in c.commit_index + 1 .. replicated_index(d) : log_term_at(d, i) = None
      <3> SUFFICES ASSUME NEW i \in c.commit_index + 1 .. replicated_index(d)
                   PROVE  log_term_at(d, i) # None
        OBVIOUS
      <3>1. i \in 1 .. Len(d.log)
        BY <1>1, <1>10, <1>15
      <3>2. log_term_at(d, i) = d.log[i].term /\ d.log[i].term \in Nat
        BY <1>1, <1>10, <3>1, WholeLog, TermOK
      <3> QED  BY <3>2, CoreAssumption
    <2>2. ~slice_panics(d, c.last_applied + 1, k + 1)
      <3>1. last_log_index(d) = Len(c.log) /\ Len(c.log) \in Nat
        BY <1>1, <1>10, WholeLog
      <3> HIDE DEF k
      <3> QED  BY <1>1, <1>15, <3>1 DEF slice_panics, min
    <2> QED  BY <1>9, <2>1, <2>2
  <1> HIDE DEF k
  <1>18. r.core \in Core
    BY <1>5 DEF StepOK, ResultOK
  <1>19. LeaderSafe(A, n, r.core)
    <2>1. ASSUME NEW p \in Peers(n) PROVE r.core.next_index[p] \in 1 .. Len(c.log) + 1
      <3>1. c.next_index[p] \in 1 .. Len(c.log) + 1
        BY <1>8 DEF LeaderSafe
      <3>2. m.match_index + 1 \in 1 .. Len(c.log) + 1
        BY <1>1, <1>7
      <3>3. p \in Node
        BY DEF Peers
      <3> HIDE DEF c
      <3> QED  BY <1>6, <1>11, <3>1, <3>2, <3>3
    <2> QED  BY <1>8, <1>12, <1>16, <2>1 DEF LeaderSafe
  <1>20. NodeSafe(L, A, n, r.core)
    BY <1>1, <1>13, <1>15, <1>16, <1>19 DEF NodeSafe
  <1>21. Grow(L, r) = L
    BY <1>2, <1>16, <1>18, GrowSame
  <1>22. StepSafe(L, A, L, A, n, r.core)
    <2>1. Grows(L, A, L, A)
      BY GrowsSelf
    <2>2. VoteOK(L, A, n, r.core)
      BY <1>6, OldVote DEF SameVote
    <2>3. Stands(c, r.core) /\ r.core.current_term >= c.current_term
      BY <1>1, <1>16 DEF Stands, Leader, Candidate
    <2> QED  BY <1>1, <1>20, <2>1, <2>2, <2>3 DEF StepSafe
  <1>23. \A e \in Committed(r) : Historic(L, A, e)
    <2>1. Reached(L, A, r.core.log, k, c.current_term) /\ k <= Len(r.core.log)
          /\ c.commit_index <= k /\ d.log = r.core.log
      BY <1>1, <1>10, <1>15, <1>16
    <2>2. PICK i \in Nat : i = c.commit_index
      BY <1>1
    <2> TAKE e \in Committed(r)
    <2>3. /\ r.core \in Core /\ Whole(r.core) /\ Whole(d) /\ d.log = r.core.log
          /\ k \in Nat /\ i <= k /\ k <= Len(r.core.log)
          /\ Reached(L, A, r.core.log, k, c.current_term)
          /\ r.acts.apply = ApplyActions(i + 1, log_slice(d, i + 1, k + 1))
      BY <1>10, <1>15, <1>16, <1>18, <2>1, <2>2
    <2> HIDE DEF c
    <2> QED  BY <2>3, AppliesSettled
  <1>24. Applies(c, r)
    <2>1. k <= Len(d.log)
      BY <1>10, <1>15
    <2> HIDE DEF c
    <2> QED  BY <1>1, <1>10, <1>15, <1>16, <2>1, AppliesAll
  <1>25. Safely(L, A, n, r)
    BY <1>16, <1>21, <1>22, <1>23, <1>24 DEF Safely
  <1> QED  BY <1>17, <1>25

\* Only the two handlers of entries and of acknowledgements can panic.
LEMMA NeverPanics ==
    ASSUME NEW n, NEW c, NEW m, NEW command
    PROVE  /\ ~heartbeat(n, c).panic /\ ~election_timeout(n, c).panic
           /\ ~propose(n, c, command).panic /\ ~handle_request_vote(n, c, m).panic
           /\ ~handle_request_vote_response(n, c, m).panic
  <1>1. \A d, acts : Returns(d, acts).panic = FALSE
    BY DEF Returns
  <1>2. ~heartbeat(n, c).panic /\ ~election_timeout(n, c).panic
        /\ ~propose(n, c, command).panic
    BY <1>1, Zenon DEF heartbeat, election_timeout, propose
  <1>3. ~handle_request_vote(n, c, m).panic
    BY <1>1, Zenon DEF handle_request_vote
  <1>4. \E d, acts : handle_request_vote_response(n, c, m) = Returns(d, acts)
    <2> DEFINE b == check_msg_term(c, m.term)
               counted == [b EXCEPT !.votes_received = @ \cup {m.from}]
               won == 2 * Cardinality(counted.votes_received) > Cardinality(Node)
               elected == initialize_leader_state(n,
                              [counted EXCEPT !.state = Leader, !.current_leader = n])
               acts == [NoActions EXCEPT !.meta = StepDownMeta(c, m.term)]
    <2>1. handle_request_vote_response(n, c, m) =
              IF b.state # Candidate \/ ~m.vote_granted THEN Returns(b, acts)
              ELSE IF ~won THEN Returns(counted, acts)
              ELSE Returns(elected, [acts EXCEPT !.log = PersistLast(elected),
                                                 !.send = append_entries(n, elected)])
      BY Zenon DEF handle_request_vote_response
    <2> HIDE DEF b, counted, won, elected, acts
    <2> QED  BY <2>1
  <1> QED  BY <1>1, <1>2, <1>3, <1>4

LEMMA VoteResponseSafe ==
    ASSUME InSessionOnly, IInv, ElectionInv, Files, NEW L \in Logs, LogInv(L),
           NEW A \in Acks, SafetyInv(L, A), NEW n \in Node, NEW r, NEW pending,
           Input(n, r, pending), NEW m \in net, m.to = n,
           r = handle_request_vote_response(n, core[n], m)
    PROVE  Safely(L, A, n, r) /\ MetaVotes(r)
  <1> DEFINE c == core[n]
  <1>1. c \in Core /\ c.last_applied = c.commit_index /\ MessageOK(m) /\ m.term \in Nat
    BY BeforeInput DEF MessageOK
  <1>2. StepOK(n, c, r) /\ ElectOK(c, m, r)
    BY <1>1, RequestVoteResponseOK
  <1>3. r.core \in Core /\ r.core.current_term >= c.current_term
    BY <1>1, <1>2, TermGrows DEF StepOK, ResultOK
  <1>4. \/ Wins(n, c, r)
        \/ Idle(c, r) /\ r.acts.send = {} /\ SamePeers(c, r.core) /\ StepsDown(c, m, r)
    BY <1>1, RequestVoteResponseResult
  <1>5. CASE Wins(n, c, r)
    <2>1. Pushes(n, c, r, Noop) /\ SameVote(c, r) /\ Noop \in Command \cup {Noop}
      BY <1>5 DEF Wins
    <2>2. MetaVotes(r)
      BY <2>1 DEF SameVote, MetaVotes
    <2> QED  BY <1>5, <2>1, <2>2, PushSafe
  <1>6. CASE Idle(c, r) /\ r.acts.send = {} /\ SamePeers(c, r.core) /\ StepsDown(c, m, r)
    <2>1. r.core.state # Follower =>
              r.core.state = c.state /\ r.core.current_term = c.current_term
      <3>1. r.core.state \in {Follower, Candidate, Leader}
        BY <1>3 DEF Core
      <3>2. r.core.state = Leader => c.state = Leader
        BY <1>6 DEF Idle, SameReads
      <3> QED  BY <1>2, <3>1, <3>2 DEF ElectOK
    <2>2. MetaVotes(r) /\ VoteOK(L, A, n, r.core)
      BY <1>1, <1>6, StepsDownVote, OldVote
    <2>3. \A x \in r.acts.send : SentSafe(L, A, n, r.core, x)
      BY <1>6
    <2> QED  BY <1>3, <1>6, <2>1, <2>2, <2>3, RoleSafe
  <1> QED  BY <1>4, <1>5, <1>6

\* Every input keeps what is committed, and none makes the core panic.
LEMMA InputSafe ==
    ASSUME InSessionOnly, OddCluster, IInv, ElectionInv, Files, NEW L \in Logs, LogInv(L),
           NEW A \in Acks, SafetyInv(L, A), NEW n \in Node, NEW r, NEW pending,
           Input(n, r, pending)
    PROVE  Safely(L, A, n, r) /\ ~r.panic /\ MetaVotes(r)
  <1> DEFINE c == core[n]
  <1>1. c \in Core /\ c.last_applied = c.commit_index /\ c.current_term \in Nat
        /\ \A x \in net : MessageOK(x) /\ PlainMessage(x)
    BY BeforeInput
  <1>2. ASSUME is_leader(c), r = heartbeat(n, c)
        PROVE  Safely(L, A, n, r) /\ ~r.panic /\ MetaVotes(r)
    <2>1. MetaVotes(r)
      BY <1>2, HeartbeatResult DEF MetaVotes
    <2> QED  BY <1>2, <2>1, HeartbeatSafe, NeverPanics
  <1>3. ASSUME ~is_leader(c), r = election_timeout(n, c)
        PROVE  Safely(L, A, n, r) /\ ~r.panic /\ MetaVotes(r)
    <2>1. MetaVotes(r)
      BY <1>1, <1>3, ElectionTimeoutResult
    <2> QED  BY <1>3, <2>1, TimeoutSafe, NeverPanics
  <1>4. ASSUME NEW command \in Command, is_leader(c), r = propose(n, c, command)
        PROVE  Safely(L, A, n, r) /\ ~r.panic /\ MetaVotes(r)
    <2>1. c.state = Leader
      BY <1>4 DEF is_leader
    <2>2. Pushes(n, c, r, command) /\ SamePeers(c, r.core) /\ SameVote(c, r)
          /\ command \in Command \cup {Noop}
      BY <1>1, <1>4, <2>1, ProposePushes, ProposeResult
    <2>3. MetaVotes(r)
      BY <2>2 DEF SameVote, MetaVotes
    <2> QED  BY <1>4, <2>1, <2>2, <2>3, PushSafe, NeverPanics
  <1>5. ASSUME NEW m \in net, Message(n, m, r)
        PROVE  Safely(L, A, n, r) /\ ~r.panic /\ MetaVotes(r)
    <2>1. m.to = n /\ InSession(m) /\ MessageOK(m) /\ m.term \in Nat
          /\ m.type \notin {"InstallSnapshot", "InstallSnapshotResponse"}
      BY <1>1, <1>5 DEF Message, PlainMessage, MessageOK
    <2>2. CASE m.type = "RequestVote" /\ r = handle_request_vote(n, c, m)
      <3>1. MetaVotes(r)
        BY <1>1, <2>1, <2>2, RequestVoteResult
      <3> QED  BY <2>1, <2>2, <3>1, RequestVoteSafe, NeverPanics
    <2>3. CASE m.type = "RequestVoteResponse" /\ r = handle_request_vote_response(n, c, m)
      BY <2>1, <2>3, VoteResponseSafe, NeverPanics
    <2>4. CASE m.type = "AppendEntries" /\ r = handle_append_entries(n, c, m)
      <3>1. StepsDown(c, m, r)
        BY <1>1, <2>1, <2>4, AppendEntriesResult
      <3>2. MetaVotes(r)
        BY <1>1, <2>1, <3>1, StepsDownVote
      <3>3. Refuses(n, c, m, r) \/ Accepts(n, c, m, r)
        BY <1>1, <2>1, <2>4, AppendEntriesKeeps
      <3>4. CASE Refuses(n, c, m, r)
        <4>1. ~r.panic
          BY <3>4 DEF Refuses
        <4> QED  BY <2>1, <2>4, <3>2, <3>4, <4>1, RefuseSafe
      <3>5. CASE Accepts(n, c, m, r)
        BY <2>1, <2>4, <3>2, <3>5, AcceptSafe
      <3> QED  BY <3>3, <3>4, <3>5
    <2>5. CASE m.type = "AppendEntriesResponse" /\ r = handle_append_entries_response(n, c, m)
      <3>1. m.success \in BOOLEAN
        BY <2>1, <2>5 DEF MessageOK
      <3>2. CASE m.success \/ m.first_conflicting_index # None
        <4>1. m.term = c.current_term /\ c.state = Leader
          BY <2>1, <2>5, <3>2, InItsTerm
        <4>2. SameVote(c, r)
          BY <1>1, <2>1, <2>5, <4>1, ResponseResult
        <4>3. MetaVotes(r)
          BY <4>2 DEF SameVote, MetaVotes
        <4>4. CASE m.success
          BY <2>1, <2>5, <4>1, <4>3, <4>4, CommitSafe
        <4>5. CASE ~m.success
          BY <2>1, <2>5, <3>2, <4>1, <4>3, <4>5, RetrySafe
        <4> QED  BY <4>4, <4>5
      <3>3. CASE ~m.success /\ m.first_conflicting_index = None
        <4>1. c.state # Leader \/ m.term > c.current_term
          BY <2>1, <2>5, <3>3 DEF InSession, is_leader
        <4> QED  BY <2>1, <2>5, <3>3, <4>1, OutdatedSafe
      <3> QED  BY <3>1, <3>2, <3>3
    <2> QED  BY <1>5, <2>1, <2>2, <2>3, <2>4, <2>5 DEF Message
  <1> QED  BY <1>2, <1>3, <1>4, <1>5 DEF Input

-----------------------------------------------------------------------------
(***************************************************************************)
(* The steps.                                                              *)
(***************************************************************************)
\* What was safe to send is safe in flight.
LEMMA SentInFlight ==
    ASSUME NEW L, NEW A, NEW n \in Node, NEW c \in Core, core'[n] = c,
           leaders \subseteq leaders', c.state = Leader => LedBy(c.current_term, n)',
           NEW x, FromLeader(c, x), SentSafe(L, A, n, c, x)
    PROVE  MessageSafe(L, A, x)'
  <1>1. c.current_term \in Nat /\ c.current_term >= c.current_term
    BY DEF Core
  <1>2. x.from = n /\ x.from # x.to
    BY DEF SentSafe
  <1>3. x.type = "AppendEntries" =>
            /\ LedBy(x.term, x.from)' /\ x.prev_log_index + Len(x.entries) >= 1
            /\ L[x.term][x.prev_log_index + Len(x.entries)].term = x.term
            /\ Reached(L, A, L[x.term], x.leader_commit, x.term)
    BY DEF SentSafe, FromLeader, is_leader
  <1>4. x.type = "AppendEntriesResponse" =>
            /\ x.success \/ x.first_conflicting_index # None => LedBy(x.term, x.to)'
            /\ x.success => Ack(x.term, x.from, x.match_index) \in A
            /\ ~x.success /\ x.first_conflicting_index # None =>
                  x.first_conflicting_index \in 1 .. Len(L[x.term])
    BY DEF SentSafe, LedBy
  <1>5. x.type = "RequestVote" =>
            /\ core'[x.from].current_term >= x.term
            /\ x.last_log_index = Len(core'[x.from].log)
            /\ x.last_log_term = LastTerm(core'[x.from].log)
    BY <1>1, <1>2 DEF SentSafe
  <1> QED  BY <1>2, <1>3, <1>4, <1>5 DEF MessageSafe

LEMMA PerformedSafe ==
    ASSUME InSessionOnly, LeadersOnly, OddCluster, IInv, ElectionInv, Files,
           NEW L \in Logs, LogInv(L), NEW A \in Acks, SafetyInv(L, A), NEW n \in Node,
           NEW r, NEW pending, Input(n, r, pending), Performed(n, r, pending)
    PROVE  \E M \in Logs, B \in Acks : LogInv(M)' /\ SafetyInv(M, B)'
  <1>1. r.core \in Core
    BY InputGrows
  <1>2. PICK M \in Logs : M = Grow(L, r)
    BY InputGrows
  <1>3. LogInv(M)'
    BY <1>2, PerformedLogs
  <1>4. PICK B \in Acks :
            /\ StepSafe(L, A, M, B, n, r.core)
            /\ \A a \in B : \/ a \in A \/ Led(a.term)
                            \/ r.core.state = Leader /\ a.term = r.core.current_term
            /\ \A x \in r.acts.send : SentSafe(M, B, n, r.core, x)
            /\ \A e \in Committed(r) : Historic(M, B, e)
    BY <1>2, InputSafe DEF Safely
  <1>5. /\ core' = [core EXCEPT ![n] = r.core]
        /\ net' \subseteq net \cup {x \in r.acts.send : FromLeader(r.core, x)}
        /\ votes' = votes \cup VoteOf(n, r.core) /\ leaders' = leaders \cup LeaderOf(n, r.core)
        /\ committed' = committed \cup Committed(r)
    BY DEF Performed, Heard, Recorded
  <1>6. core'[n] = r.core /\ leaders \subseteq leaders'
        /\ (r.core.state = Leader =>
               LedBy(r.core.current_term, n)' /\ Led(r.core.current_term)')
    <2>1. r.core.state = Leader => [term |-> r.core.current_term, node |-> n] \in leaders'
      BY <1>5 DEF LeaderOf, is_leader
    <2>2. core'[n] = r.core
      BY <1>5, CoreTerms
    <2> QED  BY <1>5, <2>1, <2>2 DEF Led, LedBy
  <1>7. \A a \in B : a \in A \/ Led(a.term)'
    BY <1>4, <1>6 DEF Led
  <1>8. \A x \in net' : x \in net \/ MessageSafe(M, B, x)'
    <2>1. ASSUME NEW x \in r.acts.send, FromLeader(r.core, x) PROVE MessageSafe(M, B, x)'
      BY <1>1, <1>4, <1>6, <2>1, SentInFlight
    <2> QED  BY <1>5, <2>1
  <1>9. \A e \in committed' : e \in committed \/ Historic(M, B, e)
    BY <1>4, <1>5
  <1>10. SafetyInv(M, B)'
    BY <1>1, <1>4, <1>5, <1>6, <1>7, <1>8, <1>9, SafetyStep
  <1> QED  BY <1>3, <1>10

\* A node starts on a disk: nothing is sent, applied or acknowledged.
LEMMA StartedSafe ==
    ASSUME IInv, Files, NEW L \in Logs, LogInv(L), NEW A \in Acks, SafetyInv(L, A),
           NEW n \in Node, NEW d, Started(n, d), Restored(d) \in Core, NEW M \in Logs,
           StepSafe(L, A, M, A, n, Restored(d))
    PROVE  SafetyInv(M, A)'
  <1>1. /\ core' = [core EXCEPT ![n] = Restored(d)] /\ net' \subseteq net
        /\ votes' = votes \cup VoteOf(n, Restored(d)) /\ leaders \subseteq leaders'
        /\ committed' = committed
    BY DEF Started, Recorded
  <1>2. PICK c \in Core : c = Restored(d)
    OBVIOUS
  <1> QED  BY <1>1, <1>2, SafetyStep

\* The vote that is on disk after a crash.
LEMMA CrashVote ==
    ASSUME IInv, Files, NEW L, NEW A, SafetyInv(L, A), NEW n \in Node, NEW r,
           StepOK(n, core[n], r), MetaVotes(r), VoteOK(L, A, n, r.core),
           NEW d \in CrashDisks(n, r), NEW c, OnDisk(c, d)
    PROVE  VoteOK(L, A, n, c)
  <1>1. r.acts.meta \in Seq(Metadata) /\ ResultOK(r) /\ TypeOK
    BY DEF StepOK, MetaOK, IInv
  <1>2. OnDisk(core[n], disk[n])
    BY DEF Files, NodeFiles
  <1>3. \/ d.metadata = disk[n].metadata
        \/ \E k \in 1 .. Len(r.acts.meta) : d.metadata = r.acts.meta[k]
    BY <1>1, CrashDisksOK
  <1>4. CASE d.metadata = disk[n].metadata
    <2>1. c.current_term = core[n].current_term /\ c.voted_for = core[n].voted_for
      BY <1>2, <1>4 DEF OnDisk, DiskTerm, DiskVote
    <2> QED  BY <2>1, OldVote
  <1>5. ASSUME NEW k \in 1 .. Len(r.acts.meta), d.metadata = r.acts.meta[k]
        PROVE  VoteOK(L, A, n, c)
    <2>1. d.metadata \in Metadata
      BY <1>1, <1>5
    <2>2. d.metadata # None
      BY <2>1, ClusterAssumption
    <2>3. c.current_term = d.metadata.term /\ c.voted_for = d.metadata.voted_for
      BY <2>2 DEF OnDisk, DiskTerm, DiskVote
    <2>4. CASE d.metadata.voted_for = None
      BY <2>3, <2>4, OldVote
    <2>5. CASE d.metadata = [term |-> r.core.current_term, voted_for |-> r.core.voted_for]
      <3>1. c.current_term = r.core.current_term /\ c.voted_for = r.core.voted_for
        BY <2>3, <2>5
      <3> QED  BY <3>1 DEF VoteOK
    <2> QED  BY <1>5, <2>4, <2>5 DEF MetaVotes
  <1> QED  BY <1>3, <1>4, <1>5

LEMMA CrashSafe ==
    ASSUME InSessionOnly, OddCluster, ~TornWrites, IInv, ElectionInv, Files,
           NEW L \in Logs, LogInv(L), NEW A \in Acks, SafetyInv(L, A), NEW n \in Node,
           NEW r, NEW pending, Input(n, r, pending), NEW d \in CrashDisks(n, r),
           Leaves(n, r, d), Started(n, d)
    PROVE  \E M \in Logs, B \in Acks : LogInv(M)' /\ SafetyInv(M, B)'
  <1> DEFINE c == Restored(d)
  <1>1. ~r.panic /\ MetaVotes(r) /\ StepOK(n, core[n], r)
    BY InputSafe, InputOK
  <1>2. r.core \in Core /\ r.core.log \in Seq(Entry) /\ core[n].log \in Seq(Entry)
        /\ core[n].current_term \in Nat
    BY <1>1, CoreTerms DEF StepOK, ResultOK, Core
  <1>3. PICK M \in Logs : M = Grow(L, r)
    BY InputGrows
  <1>4. PICK B \in Acks : StepSafe(L, A, M, B, n, r.core)
    BY <1>3, InputSafe DEF Safely
  <1>5. DiskOK(d) /\ DiskFollows(disk[n], d)
    BY DEF Leaves
  <1>6. VoteOK(L, A, n, r.core)
    BY <1>4 DEF StepSafe
  <1>7. CASE Holds(d, core[n].log)
    <2>1. c \in Core /\ c.log = core[n].log /\ c.commit_index = 0 /\ c.state = Follower
          /\ OnDisk(c, d) /\ c.match_index = [p \in Node |-> None]
      BY <1>2, <1>5, <1>7, RestoredWhole
    <2>2. c.current_term >= core[n].current_term
      BY <1>5, <2>1 DEF Files, NodeFiles, OnDisk, DiskFollows
    <2>3. VoteOK(L, A, n, c)
      BY <1>1, <1>6, <2>1, CrashVote
    <2>4. Stands(core[n], c) /\ c.state # Leader /\ c.match_index[n] = None
      BY <2>1 DEF Stands, Follower, Candidate, Leader
    <2> HIDE DEF c
    <2>5. StepSafe(L, A, L, A, n, c)
      BY <2>1, <2>2, <2>3, <2>4, QuietSafe
    <2>6. SafetyInv(L, A)'
      BY <2>1, <2>5, StartedSafe DEF c
    <2>7. LogInv(L)'
      BY <1>1, <1>3, <1>7, CrashLogs
    <2> QED  BY <2>6, <2>7
  <1>8. CASE /\ OnDisk(r.core, d)
             /\ \E i \in 0 .. Len(r.core.log) : /\ Holds(d, SubSeq(r.core.log, 1, i))
                                                /\ i = Len(r.core.log) \/ TornWrites
    <2>1. Holds(d, r.core.log)
      BY <1>2, <1>8, WholeEntries
    <2>2. c \in Core /\ c.log = r.core.log /\ c.commit_index = 0 /\ c.state = Follower
          /\ OnDisk(c, d) /\ c.match_index = [p \in Node |-> None]
      BY <1>2, <1>5, <2>1, RestoredWhole
    <2>3. c.current_term = r.core.current_term /\ c.voted_for = r.core.voted_for
      BY <1>8, <2>2 DEF OnDisk
    <2> HIDE DEF c
    <2>4. NodeSafe(M, A, n, c)
      <3>1. NodeSafe(M, B, n, r.core) /\ A \subseteq B
        BY <1>4 DEF StepSafe, Grows
      <3>2. c.match_index[n] = None /\ c.state # Leader
        BY <2>2 DEF Follower, Leader
      <3>3. Reached(M, A, c.log, c.commit_index, c.current_term)
        BY <2>2 DEF Reached
      <3> QED  BY <2>2, <2>3, <3>1, <3>2, <3>3 DEF NodeSafe
    <2>5. StepSafe(L, A, M, A, n, c)
      <3>1. Grows(L, A, M, A)
        BY <1>4 DEF StepSafe, Grows
      <3>2. Stands(core[n], c)
        BY <2>2 DEF Stands, Follower, Candidate
      <3>3. VoteOK(L, A, n, c)
        BY <1>6, <2>3 DEF VoteOK
      <3>4. /\ c.current_term >= core[n].current_term /\ (\A t \in Nat : LogSafe(M, t))
            /\ \A t \in Nat : L[t] = << >> /\ M[t] # << >> =>
                  t = c.current_term /\ Elected(M, A, t)
        BY <1>4, <2>3 DEF StepSafe
      <3> QED  BY <2>4, <3>1, <3>2, <3>3, <3>4 DEF StepSafe
    <2>6. SafetyInv(M, A)'
      BY <2>2, <2>5, StartedSafe DEF c
    <2>7. LogInv(M)'
      BY <1>1, <1>3, <1>8, CrashLogs
    <2> QED  BY <2>6, <2>7
  <1> QED  BY <1>7, <1>8 DEF Leaves

LEMMA RestartSafe ==
    ASSUME IInv, ElectionInv, Files, NEW L \in Logs, LogInv(L), NEW A \in Acks,
           SafetyInv(L, A), NEW n \in Node, Started(n, disk[n])
    PROVE  LogInv(L)' /\ SafetyInv(L, A)'
  <1> DEFINE c == Restored(disk[n])
  <1>1. c \in Core /\ c.log = core[n].log /\ c.commit_index = 0 /\ c.state = Follower
        /\ OnDisk(c, disk[n]) /\ c.match_index = [p \in Node |-> None]
    BY RestartFiles, RestoredWhole
  <1>2. c.current_term = core[n].current_term /\ c.voted_for = core[n].voted_for
    BY <1>1 DEF Files, NodeFiles, OnDisk
  <1>3. c.current_term >= core[n].current_term
    BY <1>2, CoreTerms
  <1>4. VoteOK(L, A, n, c) /\ Stands(core[n], c) /\ c.state # Leader /\ c.match_index[n] = None
    <2>1. VoteOK(L, A, n, c)
      BY <1>2, OldVote
    <2> QED  BY <1>1, <2>1 DEF Stands, Follower, Candidate, Leader
  <1> HIDE DEF c
  <1>5. StepSafe(L, A, L, A, n, c)
    BY <1>1, <1>3, <1>4, QuietSafe
  <1>6. SafetyInv(L, A)'
    BY <1>1, <1>5, StartedSafe DEF c
  <1> QED  BY <1>6, RestartLogs

LEMMA AskedSafe ==
    ASSUME IInv, ElectionInv, Files, NEW L \in Logs, LogInv(L), NEW A \in Acks,
           SafetyInv(L, A), NEW n \in Node, Asked(n)
    PROVE  LogInv(L)' /\ SafetyInv(L, A)'
  <1> DEFINE c == request_read_barrier(core[n])
  <1>1. core[n] \in Core /\ core[n].current_term \in Nat /\ NodeSafe(L, A, n, core[n])
    BY BeforeInput
  <1>2. /\ c \in Core /\ c.log = core[n].log /\ c.state = core[n].state
        /\ c.current_term = core[n].current_term /\ c.commit_index = core[n].commit_index
        /\ c.match_index = core[n].match_index /\ c.next_index = core[n].next_index
        /\ c.voted_for = core[n].voted_for
    BY <1>1, AskedCore
  <1>3. /\ core' = [core EXCEPT ![n] = c] /\ net' = net /\ votes' = votes
        /\ leaders' = leaders /\ committed' = committed
    BY DEF Asked
  <1> HIDE DEF c
  <1>4. VoteOf(n, core[n]) \subseteq votes
    BY DEF SafetyInv
  <1>5. votes' = votes \cup VoteOf(n, c)
    BY <1>2, <1>3, <1>4 DEF VoteOf
  <1>6. VoteOK(L, A, n, c)
    BY <1>2, OldVote
  <1>7. /\ c.match_index[n] = None /\ (c.state = Leader => LeaderSafe(A, n, c))
        /\ Stands(core[n], c) /\ c.current_term >= core[n].current_term
    BY <1>1, <1>2 DEF NodeSafe, LeaderSafe, Stands
  <1>8. StepSafe(L, A, L, A, n, c)
    BY <1>2, <1>6, <1>7, QuietSafe
  <1>9. SafetyInv(L, A)'
    BY <1>2, <1>3, <1>5, <1>8, SafetyStep
  <1> QED  BY <1>9, AskedLogs

-----------------------------------------------------------------------------
(***************************************************************************)
(* Proposals that wait.                                                    *)
(***************************************************************************)
\* Proposal p waits at a leader with core c: in its log, and not applied.
Held(c, p) ==
    /\ c.state = Leader /\ p.index > c.commit_index /\ p.index <= Len(c.log)
    /\ c.log[p.index].command = p.command

Waits == \A n \in Node : \A p \in pending_proposals[n] : Held(core[n], p)

\* What a node has committed is in its log.
LEMMA CommittedInLog ==
    ASSUME IInv, Files, NEW L \in Logs, LogInv(L), NEW A \in Acks, SafetyInv(L, A),
           NEW n \in Node
    PROVE  core[n].commit_index \in Nat /\ core[n].commit_index <= Len(core[n].log)
  <1>1. core[n].commit_index \in Nat /\ core[n].log \in Seq(Entry)
        /\ Reached(L, A, core[n].log, core[n].commit_index, core[n].current_term)
    BY BeforeInput DEF NodeSafe
  <1>2. Len(core[n].log) \in Nat
    BY <1>1
  <1> QED  BY <1>1, <1>2 DEF Reached, Same

\* A proposal that was not answered still waits.
LEMMA StillHeld ==
    ASSUME NEW c \in Core, NEW r, r.core \in Core, r.core.state = Leader, Applies(c, r),
           KeepsLog(c, r.core), NEW p, p.index \in Nat, Held(c, p),
           ~ \E k \in 1 .. Len(r.acts.apply) : r.acts.apply[k].index = p.index
    PROVE  Held(r.core, p)
  <1>1. c.commit_index \in Nat /\ r.core.commit_index \in Nat /\ c.log \in Seq(Entry)
        /\ Len(c.log) \in Nat
    BY DEF Core
  <1>2. p.index > c.commit_index /\ p.index <= Len(c.log)
        /\ c.log[p.index].command = p.command
    BY DEF Held
  <1>3. p.index > r.core.commit_index
    BY <1>1, <1>2 DEF Applies
  <1>4. p.index \in 1 .. Len(c.log)
    BY <1>1, <1>2
  <1>5. p.index <= Len(r.core.log) /\ r.core.log[p.index] = c.log[p.index]
    BY <1>1, <1>2, <1>4 DEF KeepsLog
  <1> QED  BY <1>2, <1>3, <1>5 DEF Held

LEMMA PerformedWaits ==
    ASSUME InSessionOnly, OddCluster, IInv, ElectionInv, Files, NEW L \in Logs, LogInv(L),
           NEW A \in Acks, SafetyInv(L, A), Waits, NEW n \in Node, NEW r, NEW pending,
           Input(n, r, pending), Performed(n, r, pending)
    PROVE  Waits'
  <1> DEFINE c == core[n]
  <1>1. c \in Core /\ r.core \in Core /\ pending \in Proposals
    BY InputGrows, InputOK
  <1>2. pending_proposals[n] \in Proposals /\ DOMAIN pending_proposals = Node
    BY DEF IInv, TypeOK, Proposals
  <1>3. Applies(c, r) /\ ~r.panic
    BY InputSafe DEF Safely
  <1>4. c.state = Leader /\ r.core.state = Leader => KeepsLog(c, r.core)
    BY <1>3, InputKeeps
  <1>5. ASSUME NEW p \in pending_proposals[n], p \notin Answered(n, r.acts),
               r.core.state = Leader
        PROVE  Held(r.core, p)
    <2>1. Held(c, p) /\ p.index \in Nat
      BY <1>2, <1>5 DEF Waits, Proposals
    <2>2. c.state = Leader
      BY <2>1 DEF Held
    <2>3. ~ \E k \in 1 .. Len(r.acts.apply) : r.acts.apply[k].index = p.index
      BY <1>5 DEF Answered
    <2> HIDE DEF c
    <2> QED  BY <1>1, <1>3, <1>4, <1>5, <2>1, <2>2, <2>3, StillHeld
  <1>6. ASSUME pending = ProposalsAfter(n, r), NEW p \in pending PROVE Held(r.core, p)
    <2>1. ~LosesLeadership(n, r) /\ p \in pending_proposals[n]
          /\ p \notin Answered(n, r.acts)
      BY <1>6 DEF ProposalsAfter
    <2>2. c.state = Leader
      BY <2>1 DEF Waits, Held
    <2>3. r.core.state = Leader
      BY <2>1, <2>2 DEF LosesLeadership, is_leader
    <2> QED  BY <1>5, <2>1, <2>3
  <1>7. ASSUME NEW command \in Command, is_leader(c), r = propose(n, c, command),
               pending = Waiting(n, r, command), NEW p \in pending
        PROVE  Held(r.core, p)
    <2>1. Pushes(n, c, r, command) /\ c.state = Leader
      BY <1>1, <1>7, ProposePushes DEF is_leader
    <2>2. /\ r.core.log = Append(c.log, [term |-> c.current_term, command |-> command])
          /\ r.core.commit_index = c.commit_index /\ r.core.state = Leader
          /\ r.acts.log = PersistLast(r.core) /\ r.acts.apply = << >>
      BY <1>1, <2>1 DEF Pushes, SameLog, Core
    <2>3. CASE p \in pending_proposals[n]
      <3>1. p \notin Answered(n, r.acts)
        BY <2>2 DEF Answered
      <3> QED  BY <1>5, <2>2, <2>3, <3>1
    <2>4. CASE p = [index |-> r.acts.log.start_index, command |-> command]
      <3>1. Whole(r.core)
        BY InputPlain DEF Plainly
      <3>2. r.acts.log.start_index = Len(r.core.log)
        <4>1. last_log_index(r.core) = Len(r.core.log)
          BY <1>1, <3>1, WholeLog
        <4> QED  BY <2>2, <4>1 DEF PersistLast
      <3>3. c.log \in Seq(Entry) /\ c.commit_index \in Nat /\ c.commit_index <= Len(c.log)
        <4>1. c.log \in Seq(Entry)
          BY <1>1 DEF Core
        <4> QED  BY <4>1, CommittedInLog
      <3>4. Len(r.core.log) = Len(c.log) + 1 /\ Len(c.log) \in Nat
            /\ r.core.log[Len(c.log) + 1].command = command
        BY <2>2, <3>3
      <3> HIDE DEF c
      <3>5. p.index = Len(c.log) + 1 /\ p.command = command
        BY <2>4, <3>2, <3>4
      <3> QED  BY <2>2, <3>3, <3>4, <3>5 DEF Held
    <2> QED  BY <1>7, <2>3, <2>4 DEF Waiting
  <1>8. \A p \in pending : Held(r.core, p)
    BY <1>6, <1>7 DEF Input
  <1>9. core' = [core EXCEPT ![n] = r.core]
        /\ pending_proposals' = [pending_proposals EXCEPT ![n] = pending]
        /\ DOMAIN core = Node
    BY CoreTerms DEF Performed
  <1> QED  BY <1>2, <1>8, <1>9 DEF Waits

\* A node starts without waiting proposals, and a read request leaves them.
LEMMA OtherWaits ==
    ASSUME IInv, Waits, NEW n \in Node
    PROVE  /\ \A d : Started(n, d) => Waits'
           /\ Asked(n) => Waits'
  <1>1. DOMAIN core = Node /\ DOMAIN pending_proposals = Node /\ core[n] \in Core
    BY DEF IInv, TypeOK
  <1>2. ASSUME NEW d, Started(n, d) PROVE Waits'
    BY <1>1, <1>2 DEF Started, Waits
  <1>3. ASSUME Asked(n) PROVE Waits'
    <2> DEFINE c == request_read_barrier(core[n])
    <2>1. c.log = core[n].log /\ c.state = core[n].state
          /\ c.commit_index = core[n].commit_index
      BY <1>1, AskedCore
    <2>2. core' = [core EXCEPT ![n] = c] /\ pending_proposals' = pending_proposals
      BY <1>3 DEF Asked
    <2> HIDE DEF c
    <2> QED  BY <1>1, <2>1, <2>2 DEF Waits, Held
  <1> QED  BY <1>2, <1>3

-----------------------------------------------------------------------------
(***************************************************************************)
(* The theorems.  InSessionOnly: late responses are not delivered; the     *)
(* prompt refusal that tells a leader of a later term is.  LeadersOnly:    *)
(* the AppendEntries with which that leader answers the refusal, after it  *)
(* has stepped down and with the new term in it, is lost.  The code has no *)
(* such guard: without LeadersOnly the theorems are false (DeposedLeader), *)
(* and without InSessionOnly two nodes lead in one term (LateVote).        *)
(***************************************************************************)
SafeInv ==
    NoSnapshot =>
        /\ panicked = {} /\ Waits
        /\ \E L \in Logs, A \in Acks : LogInv(L) /\ SafetyInv(L, A)

LEMMA InitSafe == Init => SafeInv
  <1> SUFFICES ASSUME Init
               PROVE  /\ panicked = {} /\ Waits
                      /\ \E L \in Logs, A \in Acks : LogInv(L) /\ SafetyInv(L, A)
    BY DEF SafeInv
  <1> DEFINE L == [t \in Nat |-> << >>]
  <1>1. << >> \in Seq(Entry) /\ Len(<< >>) = 0
    OBVIOUS
  <1>2. L \in Logs /\ \A t \in Nat : L[t] = << >>
    BY <1>1 DEF Logs
  <1> HIDE DEF L
  <1>3. Agrees(L, << >>) /\ \A t : Rising(<< >>, t)
    BY <1>1 DEF Agrees, Rising
  <1>4. \A n \in Node :
            /\ core[n].log = << >> /\ core[n].state = Follower /\ core[n].commit_index = 0
            /\ core[n].match_index[n] = None /\ core[n].voted_for = None
    BY DEF Init, new
  <1>5. LogInv(L)
    BY <1>2, <1>3, <1>4 DEF LogInv, Init, is_leader, Leader, Follower
  <1>6. {} \in Acks
    BY DEF Acks
  <1>7. ASSUME NEW n \in Node
        PROVE  NodeSafe(L, {}, n, core[n]) /\ VoteOf(n, core[n]) \subseteq votes
    BY <1>3, <1>4 DEF NodeSafe, Reached, VoteOf, Leader, Follower
  <1>8. \A t \in Nat : LogSafe(L, t)
    BY <1>2, <1>3 DEF LogSafe
  <1>9. SafetyInv(L, {})
    BY <1>2, <1>7, <1>8 DEF SafetyInv, Init
  <1>10. panicked = {} /\ Waits
    BY DEF Init, Waits
  <1> QED  BY <1>2, <1>5, <1>6, <1>9, <1>10

LEMMA NextSafe ==
    ASSUME NoneIsNoSnapshot, InSessionOnly, LeadersOnly, OddCluster, ~TornWrites
    PROVE  IInv /\ ElectionInv /\ FilesInv /\ SafeInv /\ [Next]_vars => SafeInv'
  <1> DEFINE Safe == \E L \in Logs, A \in Acks : LogInv(L) /\ SafetyInv(L, A)
  <1> SUFFICES ASSUME IInv, ElectionInv, FilesInv, SafeInv, [Next]_vars, NoSnapshot'
               PROVE  panicked' = {} /\ Waits' /\ Safe'
    BY DEF SafeInv
  <1>1. NoSnapshot /\ Files /\ QuietStep
    BY QuietSteps
  <1>2. panicked = {} /\ Waits
    BY <1>1 DEF SafeInv
  <1>3. PICK L \in Logs, A \in Acks : LogInv(L) /\ SafetyInv(L, A)
    BY <1>1 DEF SafeInv
  <1>4. CASE UNCHANGED vars
    <2>1. core' = core /\ net' = net /\ votes' = votes /\ leaders' = leaders
          /\ committed' = committed /\ panicked' = panicked
          /\ pending_proposals' = pending_proposals
      BY <1>4 DEF vars
    <2>2. LogInv(L)'
      BY <1>3, <2>1 DEF LogInv, Won, ByMajority
    <2>3. SafetyInv(L, A)'
      BY <1>3, <2>1 DEF SafetyInv, Elected, AckSafe, Led, LedBy, MessageSafe, VoteSafe
    <2>4. panicked' = {} /\ Waits'
      BY <1>2, <2>1 DEF Waits
    <2> QED  BY <2>2, <2>3, <2>4
  <1>5. ASSUME NEW n \in Node \ panicked, Asked(n) PROVE panicked' = {} /\ Waits' /\ Safe'
    <2>1. panicked' = {} /\ n \in Node
      BY <1>2, <1>5 DEF Asked
    <2>2. LogInv(L)' /\ SafetyInv(L, A)'
      BY <1>1, <1>3, <1>5, <2>1, AskedSafe
    <2>3. Waits'
      BY <1>2, <1>5, <2>1, OtherWaits
    <2> QED  BY <2>1, <2>2, <2>3
  <1>6. ASSUME NEW n \in Node \ panicked, NEW r, NEW pending, Input(n, r, pending),
               Performed(n, r, pending)
        PROVE  panicked' = {} /\ Waits' /\ Safe'
    <2>1. \A x \in r.acts.send : x.type # "InstallSnapshot"
      BY <1>1, <1>3, <1>6, InputSafe DEF Safely, SentSafe
    <2>2. panicked' = {}
      BY <1>2, <1>6, <2>1 DEF Performed
    <2>3. Safe'
      BY <1>1, <1>3, <1>6, PerformedSafe
    <2>4. Waits'
      BY <1>1, <1>2, <1>3, <1>6, PerformedWaits
    <2> QED  BY <2>2, <2>3, <2>4
  <1>7. ASSUME NEW n \in Node \ panicked, NEW r, NEW pending, Input(n, r, pending)
        PROVE  ~r.panic
    BY <1>1, <1>3, <1>7, InputSafe
  <1>8. ASSUME NEW n \in Node \ panicked, NEW r, NEW pending, NEW d, Input(n, r, pending),
               d \in CrashDisks(n, r), Leaves(n, r, d), Started(n, d)
        PROVE  panicked' = {} /\ Waits' /\ Safe'
    <2>1. Safe'
      BY <1>1, <1>3, <1>8, CrashSafe
    <2>2. Waits'
      BY <1>2, <1>8, OtherWaits
    <2> QED  BY <1>2, <1>8, <2>1, <2>2 DEF Started
  <1>9. ASSUME NEW n \in Node, Started(n, disk[n]) PROVE panicked' = {} /\ Waits' /\ Safe'
    <2>1. LogInv(L)' /\ SafetyInv(L, A)'
      BY <1>1, <1>3, <1>9, RestartSafe
    <2>2. Waits'
      BY <1>2, <1>9, OtherWaits
    <2> QED  BY <1>2, <1>9, <2>1, <2>2 DEF Started
  <1> HIDE DEF Safe
  <1> QED  BY <1>1, <1>4, <1>5, <1>6, <1>7, <1>8, <1>9 DEF QuietStep

\* Two settled entries at an index are the same.
LEMMA HistoryAgrees ==
    ASSUME IInv, NEW L \in Logs, LogInv(L), NEW A \in Acks, SafetyInv(L, A),
           NEW u \in Nat, NEW j \in Nat, Settled(L, A, u, j), NEW v \in Nat, NEW k \in Nat,
           Settled(L, A, v, k), NEW i \in Nat, i >= 1, i <= j, i <= k
    PROVE  L[u][i] = L[v][i]
  <1>1. /\ \A t \in Nat : L[t] # << >> => Elected(L, A, t)
        /\ \A t \in Nat : Agrees(L, L[t])
    BY DEF SafetyInv, LogInv
  <1>2. L[u] # << >> /\ L[v] # << >>
    BY LogsLen DEF Settled
  <1>3. CASE v >= u
    <2>1. Same(L[u], L[v], j)
      BY <1>1, <1>2, <1>3, SettledPrefix
    <2> QED  BY <2>1 DEF Same
  <1>4. CASE u >= v
    <2>1. Same(L[v], L[u], k)
      BY <1>1, <1>2, <1>4, SettledPrefix
    <2> QED  BY <2>1 DEF Same
  <1> QED  BY <1>3, <1>4

\* The node of an acknowledgement still holds what is settled by it.
LEMMA SettledIsHeld ==
    ASSUME IInv, Files, NEW L \in Logs, LogInv(L), NEW A \in Acks, SafetyInv(L, A),
           NEW u \in Nat, NEW j \in Nat, Settled(L, A, u, j), NEW q \in Node, NEW k \in Nat,
           k >= j, Ack(u, q, k) \in A
    PROVE  Same(core[q].log, L[u], j)
  <1>1. core[q].log \in Seq(Entry) /\ Len(core[q].log) \in Nat /\ Agrees(L, core[q].log)
        /\ core[q].current_term \in Nat /\ NodeSafe(L, A, q, core[q])
    BY BeforeInput
  <1>2. j \in 1 .. Len(L[u]) /\ L[u][j].term = u
    BY DEF Settled
  <1>3. j \in 1 .. k
    BY <1>2
  <1>4. Kept(L, Ack(u, q, k), core[q].log, core[q].current_term + 1)
    BY <1>1 DEF NodeSafe, Ack
  <1>5. Has(core[q].log, u, j) \/ Lacks(L, u, j, core[q].current_term + 1)
    BY <1>2, <1>3, <1>4 DEF Kept, Ack
  <1>6. \A t \in Nat : L[t] # << >> => Elected(L, A, t)
    BY DEF SafetyInv
  <1>7. ~Lacks(L, u, j, core[q].current_term + 1)
    BY <1>6, SettledStays DEF Lacks
  <1>8. j \in 1 .. Len(core[q].log) /\ core[q].log[j].term = u
    BY <1>1, <1>2, <1>5, <1>7 DEF Has
  <1>9. \A i \in 1 .. j : core[q].log[i] = L[u][i]
    BY <1>8, <1>1 DEF Agrees
  <1> QED  BY <1>1, <1>2, <1>8, <1>9, LogsLen DEF Same

\* No two nodes, nor one node before and after a restart, ever apply different
\* entries at an index.  A node applies only what handle_append_entries or
\* handle_append_entries_response commits, which a majority has acknowledged
\* in the term of the leader that committed it.  This takes LeadersOnly: the
\* request of a leader that has stepped down names a commit index that is not
\* of its term.
THEOREM AppliedEntriesAgree ==
    ASSUME NoneIsNoSnapshot, InSessionOnly, LeadersOnly, OddCluster, ~TornWrites
    PROVE  Spec => [](NoSnapshot => StateMachineSafety)
  <1>1. IInv /\ FilesInv /\ SafeInv => (NoSnapshot => StateMachineSafety)
    <2> SUFFICES ASSUME IInv, NEW L \in Logs, NEW A \in Acks, LogInv(L), SafetyInv(L, A),
                        NEW d \in committed, NEW e \in committed, d.index = e.index
                 PROVE  d.term = e.term /\ d.command = e.command
      BY DEF SafeInv, StateMachineSafety
    <2>1. Historic(L, A, d) /\ Historic(L, A, e)
      BY DEF SafetyInv
    <2>2. PICK u \in Nat, j \in Nat :
              /\ Settled(L, A, u, j) /\ d.index \in 1 .. j
              /\ L[u][d.index] = [term |-> d.term, command |-> d.command]
      BY <2>1 DEF Historic
    <2>3. PICK v \in Nat, k \in Nat :
              /\ Settled(L, A, v, k) /\ e.index \in 1 .. k
              /\ L[v][e.index] = [term |-> e.term, command |-> e.command]
      BY <2>1 DEF Historic
    <2>4. PICK i \in Nat : i = d.index /\ i >= 1 /\ i <= j /\ i <= k
      BY <2>2, <2>3
    <2>5. L[u][i] = L[v][i]
      BY <2>2, <2>3, <2>4, HistoryAgrees
    <2>6. [term |-> d.term, command |-> d.command] = [term |-> e.term, command |-> e.command]
      BY <2>2, <2>3, <2>4, <2>5
    <2> QED  BY <2>6
  <1> QED  BY <1>1, InitInv, NextInv, InitElection, NextElection, InitFiles, NextFiles,
              InitSafe, NextSafe, PTL DEF Spec

\* The leader of the latest term has every committed entry: its election
\* needed the vote of a node that had acknowledged the entry, and log_check
\* grants no vote to a candidate without it.  This takes LeadersOnly, as above.
THEOREM LeadersAreComplete ==
    ASSUME NoneIsNoSnapshot, InSessionOnly, LeadersOnly, OddCluster, ~TornWrites
    PROVE  Spec => [](NoSnapshot => LeaderCompleteness)
  <1>1. IInv /\ FilesInv /\ SafeInv => (NoSnapshot => LeaderCompleteness)
    <2> SUFFICES ASSUME IInv, Files, NEW L \in Logs, NEW A \in Acks, LogInv(L),
                        SafetyInv(L, A), NEW n \in Node, NEW e \in committed,
                        is_leader(core[n]),
                        \A l \in leaders : l.term <= core[n].current_term
                 PROVE  /\ e.index <= last_log_index(core[n])
                        /\ log_entry_at(core[n], e.index) =
                              [term |-> e.term, command |-> e.command]
      BY DEF SafeInv, FilesInv, LeaderCompleteness
    <2>1. PICK u \in Nat, j \in Nat :
              /\ Settled(L, A, u, j) /\ e.index \in 1 .. j
              /\ L[u][e.index] = [term |-> e.term, command |-> e.command]
      BY DEF SafetyInv, Historic
    <2>2. PICK t \in Nat : t = core[n].current_term
      BY BeforeInput
    <2>3. core[n] \in Core /\ Whole(core[n]) /\ core[n].log \in Seq(Entry) /\ L[t] = core[n].log
          /\ NodeSafe(L, A, n, core[n]) /\ \A a \in A : AckSafe(L, a)
      BY <2>2, BeforeInput DEF is_leader
    <2>4. L[t] # << >>
      BY <2>3 DEF NodeSafe, LeaderSafe, is_leader
    <2>5. Led(u)
      <3>1. PICK Q \in SUBSET Node :
                /\ 2 * Cardinality(Q) > Cardinality(Node)
                /\ \A q \in Q : \E k \in Nat : k >= j /\ Ack(u, q, k) \in A
        BY <2>1 DEF Settled
      <3>2. \E q : q \in Q
        BY <3>1, Majorities
      <3>3. PICK q, k : Ack(u, q, k) \in A
        BY <3>1, <3>2
      <3> QED  BY <2>3, <3>3 DEF AckSafe, Ack
    <2>6. t >= u
      BY <2>2, <2>5 DEF Led
    <2>7. /\ \A s \in Nat : L[s] # << >> => Elected(L, A, s)
          /\ \A s \in Nat : Agrees(L, L[s])
      BY DEF SafetyInv, LogInv
    <2>8. Same(L[u], L[t], j)
      BY <2>1, <2>4, <2>6, <2>7, SettledPrefix
    <2>9. e.index \in 1 .. Len(core[n].log) /\ core[n].log[e.index] = L[u][e.index]
      <3>1. Len(core[n].log) \in Nat
        BY <2>3
      <3> QED  BY <2>1, <2>3, <2>8, <3>1 DEF Same
    <2>10. last_log_index(core[n]) = Len(core[n].log)
           /\ log_entry_at(core[n], e.index) = core[n].log[e.index]
      BY <2>3, <2>9, WholeLog
    <2>11. e.index <= Len(core[n].log)
      BY <2>3, <2>9
    <2> QED  BY <2>1, <2>9, <2>10, <2>11
  <1> QED  BY <1>1, InitInv, NextInv, InitElection, NextElection, InitFiles, NextFiles,
              InitSafe, NextSafe, PTL DEF Spec

\* Every applied entry is in the log files of a majority: a follower's
\* PersistLogEntries is performed before its answer is sent, and nothing a
\* later leader sends takes the entry away.  This takes LeadersOnly: what a
\* deposed leader makes a node apply may be on that node's disk only.
THEOREM CommittedIsOnDisks ==
    ASSUME NoneIsNoSnapshot, InSessionOnly, LeadersOnly, OddCluster, ~TornWrites
    PROVE  Spec => [](NoSnapshot => CommittedOnQuorumDisks)
  <1>1. IInv /\ FilesInv /\ SafeInv => (NoSnapshot => CommittedOnQuorumDisks)
    <2> SUFFICES ASSUME IInv, Files, NEW L \in Logs, NEW A \in Acks, LogInv(L),
                        SafetyInv(L, A), NEW e \in committed
                 PROVE  2 * Cardinality({n \in Node :
                                /\ disk[n].log # None
                                /\ \E f \in Range(disk[n].log) :
                                      f = [index |-> e.index,
                                           entry |-> [term |-> e.term,
                                                      command |-> e.command]]})
                            > Cardinality(Node)
      BY DEF SafeInv, FilesInv, CommittedOnQuorumDisks
    <2> DEFINE frame == [index |-> e.index,
                         entry |-> [term |-> e.term, command |-> e.command]]
               S == {n \in Node : /\ disk[n].log # None
                                  /\ \E f \in Range(disk[n].log) : f = frame}
    <2>1. PICK u \in Nat, j \in Nat :
              /\ Settled(L, A, u, j) /\ e.index \in 1 .. j
              /\ L[u][e.index] = [term |-> e.term, command |-> e.command]
      BY DEF SafetyInv, Historic
    <2>2. PICK Q \in SUBSET Node :
              /\ 2 * Cardinality(Q) > Cardinality(Node)
              /\ \A q \in Q : \E k \in Nat : k >= j /\ Ack(u, q, k) \in A
      BY <2>1 DEF Settled
    <2>3. ASSUME NEW q \in Q PROVE q \in S
      <3>1. q \in Node /\ Same(core[q].log, L[u], j)
        BY <2>1, <2>2, <2>3, SettledIsHeld
      <3>2. core[q].log \in Seq(Entry) /\ Len(core[q].log) \in Nat
        BY <3>1, BeforeInput
      <3>3. e.index \in 1 .. Len(core[q].log)
            /\ core[q].log[e.index] = [term |-> e.term, command |-> e.command]
        BY <2>1, <3>1, <3>2 DEF Same
      <3>4. InFile(disk[q], core[q].log) /\ DiskOK(disk[q])
        BY <3>1 DEF Files, NodeFiles, Holds, IInv, TypeOK
      <3>5. core[q].log # << >>
        BY <3>2, <3>3
      <3>6. disk[q].log # None /\ Len(disk[q].log) = Len(core[q].log)
            /\ disk[q].log[e.index] = [index |-> e.index, entry |-> core[q].log[e.index]]
        BY <3>3, <3>4, <3>5 DEF InFile
      <3>7. disk[q].log \in Seq(Frame)
        BY <3>4, <3>6 DEF DiskOK, Option
      <3>8. e.index \in DOMAIN disk[q].log
        BY <3>3, <3>6, <3>7
      <3>9. disk[q].log[e.index] \in Range(disk[q].log) /\ disk[q].log[e.index] = frame
        BY <3>3, <3>6, <3>8 DEF Range
      <3> QED  BY <3>1, <3>6, <3>9
    <2> HIDE DEF S
    <2>4. Q \subseteq S /\ S \subseteq Node
      BY <2>3 DEF S
    <2>5. IsFiniteSet(Node) /\ IsFiniteSet(S)
      BY <2>4, CoreAssumption, FS_Subset
    <2>6. IsFiniteSet(Q) /\ Cardinality(Q) <= Cardinality(S)
      BY <2>4, <2>5, FS_Subset
    <2>7. Cardinality(Q) \in Nat /\ Cardinality(S) \in Nat /\ Cardinality(Node) \in Nat
      BY <2>5, <2>6, FS_CardinalityType
    <2>8. 2 * Cardinality(S) > Cardinality(Node)
      BY <2>2, <2>6, <2>7
    <2> QED  BY <2>8 DEF S
  <1> QED  BY <1>1, InitInv, NextInv, InitElection, NextElection, InitFiles, NextFiles,
              InitSafe, NextSafe, PTL DEF Spec

\* None of the unwraps, slices and expects that an input can reach fails: a
\* leader never counts an acknowledgement beyond its log, no commit index runs
\* ahead of the log, and no peer needs a snapshot.  This takes LeadersOnly: a
\* success that answers a deposed leader's request would be counted by a node
\* that does not lead.
THEOREM NothingPanics ==
    ASSUME NoneIsNoSnapshot, InSessionOnly, LeadersOnly, OddCluster, ~TornWrites
    PROVE  Spec => [](NoSnapshot => NoPanic)
  <1>1. SafeInv => (NoSnapshot => NoPanic)
    BY DEF SafeInv, NoPanic
  <1> QED  BY <1>1, InitInv, NextInv, InitElection, NextElection, InitFiles, NextFiles,
              InitSafe, NextSafe, PTL DEF Spec

\* A proposal that waits for its Ok is in its leader's log at the index it
\* waits for, and not yet applied: LosesLeadership empties the table, and a
\* commit answers every proposal up to the new commit index.
THEOREM ProposalsAreInLog ==
    ASSUME NoneIsNoSnapshot, InSessionOnly, LeadersOnly, OddCluster, ~TornWrites
    PROVE  Spec => [](NoSnapshot => PendingIsInLog)
  <1>1. IInv /\ FilesInv /\ SafeInv => (NoSnapshot => PendingIsInLog)
    <2> SUFFICES ASSUME IInv, Files, Waits, NEW n \in Node, NEW p \in pending_proposals[n]
                 PROVE  /\ is_leader(core[n]) /\ p.index > core[n].last_applied
                        /\ p.index <= last_log_index(core[n])
                        /\ log_entry_at(core[n], p.index).command = p.command
      BY DEF SafeInv, FilesInv, PendingIsInLog
    <2>1. Held(core[n], p) /\ p.index \in Nat
      BY DEF Waits, IInv, TypeOK
    <2>2. core[n] \in Core /\ core[n].last_applied = core[n].commit_index /\ Whole(core[n])
      BY StateOK DEF Files, NodeFiles
    <2>3. core[n].log \in Seq(Entry) /\ core[n].commit_index \in Nat
          /\ Len(core[n].log) \in Nat
      BY <2>2 DEF Core
    <2>4. core[n].state = Leader /\ p.index > core[n].commit_index
          /\ p.index <= Len(core[n].log) /\ core[n].log[p.index].command = p.command
      BY <2>1 DEF Held
    <2>5. p.index \in 1 .. Len(core[n].log)
      BY <2>1, <2>3, <2>4
    <2>6. last_log_index(core[n]) = Len(core[n].log)
          /\ log_entry_at(core[n], p.index) = core[n].log[p.index]
      BY <2>2, <2>5, WholeLog
    <2> QED  BY <2>2, <2>4, <2>6 DEF is_leader
  <1> QED  BY <1>1, InitInv, NextInv, InitElection, NextElection, InitFiles, NextFiles,
              InitSafe, NextSafe, PTL DEF Spec

=============================================================================
