-------------------------- MODULE RaftCore_proofs ---------------------------
(***************************************************************************)
(* Lemmas about the operators of RaftCore: what the input methods return,  *)
(* for every state of a core and every message.                            *)
(***************************************************************************)
EXTENDS RaftCore, TLAPS, FiniteSetTheorems, SequenceTheorems, WellFoundedInduction

(***************************************************************************)
(* Bounded sets of integers.                                               *)
(***************************************************************************)
\* A non-empty set of naturals has a least element.
LEMMA LeastNat ==
    ASSUME NEW S, S \subseteq Nat, S # {}
    PROVE  \E x \in S : \A y \in S : x <= y
  <1>1. \E x \in S : \A y \in S : ~ (<<y, x>> \in OpToRel(<, Nat))
    BY NatLessThanWellFounded, WFMin, Zenon
  <1>2. PICK x \in S : \A y \in S : ~ (<<y, x>> \in OpToRel(<, Nat))
    BY <1>1
  <1>3. ASSUME NEW y \in S PROVE x <= y
    <2>1. <<y, x>> \in Nat \X Nat /\ <<y, x>>[1] = y /\ <<y, x>>[2] = x
      OBVIOUS
    <2>2. ~ (y < x)
      BY <1>2, <2>1, Zenon DEF OpToRel
    <2> QED  BY <2>2
  <1> QED  BY <1>3

\* Min picks the least element: the index of the first entry that differs.
LEMMA MinNat ==
    ASSUME NEW S, S \subseteq Nat, S # {}
    PROVE  Min(S) \in S /\ \A y \in S : Min(S) <= y
  BY LeastNat DEF Min

\* Max picks the greatest element of a bounded set: the index to commit.
LEMMA MaxNat ==
    ASSUME NEW S, NEW b \in Nat, S \subseteq 0 .. b, S # {}
    PROVE  Max(S) \in S /\ \A y \in S : y <= Max(S)
  <1> DEFINE T == {x \in Nat : b - x \in S}
  <1>1. PICK s \in S : s \in 0 .. b
    OBVIOUS
  <1>2. b - s \in T
    BY <1>1
  <1>3. PICK t \in T : \A y \in T : t <= y
    BY <1>2, LeastNat
  <1>4. b - t \in S /\ \A y \in S : y <= b - t
    <2>1. ASSUME NEW y \in S PROVE y <= b - t
      <3>1. y \in 0 .. b /\ b - y \in T
        OBVIOUS
      <3> QED  BY <3>1, <1>3
    <2> QED  BY <2>1, <1>3
  <1>5. \E x \in S : \A y \in S : x >= y
    <2>1. \A y \in S : b - t >= y
      BY <1>4, <1>3
    <2> QED BY <2>1, <1>4
  <1> QED  BY <1>5 DEF Max

-----------------------------------------------------------------------------
(***************************************************************************)
(* The log.                                                                *)
(***************************************************************************)
\* The log's last logical index is an index.
LEMMA LastLogIndex ==
    ASSUME NEW c \in Core
    PROVE  last_log_index(c) \in Nat /\ last_log_index(c) >= c.last_included_index
  BY DEF Core, last_log_index

\* The term at an index is known exactly for the snapshot's last entry and the
\* entries behind it.
LEMMA LogTermAt ==
    ASSUME NEW c \in Core, NEW i \in Nat
    PROVE  /\ log_term_at(c, i) \in Option(Nat)
           /\ log_term_at(c, i) # None =>
                 c.last_included_index <= i /\ i <= last_log_index(c)
           /\ c.last_included_index <= i /\ i <= last_log_index(c) =>
                 log_term_at(c, i) \in Nat
  <1>0. c.last_included_index \in Nat /\ c.last_included_term \in Nat
        /\ last_log_index(c) \in Nat
    BY LastLogIndex DEF Core
  <1>1. CASE i < c.last_included_index \/ i > last_log_index(c)
    BY <1>0, <1>1 DEF log_term_at, Option
  <1>2. CASE i = c.last_included_index /\ i <= last_log_index(c)
    BY <1>0, <1>2 DEF log_term_at, Option
  <1>3. CASE i > c.last_included_index /\ i <= last_log_index(c)
    <2>1. i - c.last_included_index \in 1 .. Len(c.log)
      BY <1>3 DEF last_log_index, Core
    <2>2. c.log[i - c.last_included_index] \in Entry
      BY <2>1 DEF Core
    <2>3. log_entry_at(c, i) \in Entry
      BY <1>0, <1>3, <2>2 DEF log_entry_at
    <2>4. log_entry_at(c, i).term \in Nat
      BY <2>3 DEF Entry
    <2> QED  BY <1>0, <2>4, <1>3 DEF log_term_at, Option
  <1> QED  BY <1>0, <1>1, <1>2, <1>3

\* A slice of the log is a sequence of entries.
LEMMA LogSlice ==
    ASSUME NEW c \in Core, NEW from \in Nat, NEW to \in Nat
    PROVE  /\ log_slice(c, from, to) \in Seq(Entry)
           /\ log_slice(c, from, to) # << >> =>
                 /\ from > c.last_included_index
                 /\ from < to /\ from <= last_log_index(c)
  <1>1. CASE from <= c.last_included_index
    BY <1>1 DEF log_slice
  <1>2. CASE from > c.last_included_index
    <2> DEFINE a == from - c.last_included_index
               b == min(to - c.last_included_index - 1, Len(c.log))
    <2>1. a \in Int /\ b \in Int /\ a >= 1 /\ b <= Len(c.log)
          /\ b <= to - c.last_included_index - 1
      BY <1>2 DEF min, Core
    <2>2. \A i \in a .. b : c.log[i] \in Entry
      BY <2>1 DEF Core
    <2>3. SubSeq(c.log, a, b) \in Seq(Entry)
      BY <2>1, <2>2, SubSeqProperties
    <2>4. log_slice(c, from, to) = SubSeq(c.log, a, b)
      <3>1. ~ (from <= c.last_included_index)
        BY <1>2 DEF Core
      <3> QED  BY <3>1, Zenon DEF log_slice
    <2>5. b < a => SubSeq(c.log, a, b) = << >>
      BY <2>1, SubSeqEmpty
    <2>6. b >= a => from < to /\ from <= last_log_index(c)
      BY <2>1 DEF last_log_index, Core
    <2> QED  BY <2>1, <2>3, <2>4, <2>5, <2>6, <1>2
  <1> QED  BY <1>1, <1>2 DEF Core

-----------------------------------------------------------------------------
(***************************************************************************)
(* What the proofs need to know of an input method's result r, when the    *)
(* node n was in state c.                                                  *)
(***************************************************************************)
\* Term t and vote v may follow those of c: a vote is only forgotten with
\* its term.
Follows(c, t, v) ==
    /\ t >= c.current_term
    /\ t = c.current_term => c.voted_for = None \/ v = c.voted_for

\* Every PersistMetadata is a legal successor of c, the last one is the new
\* state, and without one term and vote are unchanged.
MetaOK(c, r) ==
    /\ r.acts.meta \in Seq(Metadata)
    /\ \A k \in 1 .. Len(r.acts.meta) :
          Follows(c, r.acts.meta[k].term, r.acts.meta[k].voted_for)
    /\ r.acts.meta = << >> =>
          r.core.current_term = c.current_term /\ r.core.voted_for = c.voted_for
    /\ r.acts.meta # << >> =>
          r.acts.meta[Len(r.acts.meta)] =
              [term |-> r.core.current_term, voted_for |-> r.core.voted_for]

\* No method but election_timeout and handle_request_vote_response makes a
\* candidate, a leader or a vote.
RoleOK(c, r) ==
    r.core.state # Follower =>
        /\ r.core.state = c.state /\ r.core.current_term = c.current_term
        /\ r.core.votes_received = c.votes_received

\* A granted vote is the vote the core now holds.
GrantOK(n, r) ==
    \A x \in r.acts.send :
        x.type = "RequestVoteResponse" /\ x.vote_granted =>
            x.from = n /\ x.term = r.core.current_term /\ x.to = r.core.voted_for

AddendumOK(a) == a \in [start_index : Nat, entries : Seq(Entry)]

\* The result is well-formed, and what is applied is in the log.
ResultOK(r) ==
    /\ r.core \in Core
    /\ r.core.last_applied = r.core.commit_index
    /\ r.acts.log # None => AddendumOK(r.acts.log)
    /\ r.acts.install # None => /\ r.acts.install.last_included_index \in Nat
                               /\ r.acts.install.last_included_term \in Nat
    /\ Len(r.acts.apply) \in Nat
    /\ Len(r.acts.apply) > 0 =>
          /\ r.core.last_applied > r.core.last_included_index
          /\ r.core.last_applied <= last_log_index(r.core)
    /\ \A x \in r.acts.send : MessageOK(x)

\* check_msg_term either changes nothing or makes a follower without a vote.
LEMMA CheckMsgTerm ==
    ASSUME NEW c \in Core, NEW t \in Nat
    PROVE  LET d == check_msg_term(c, t) IN
           /\ d \in Core /\ d.current_term >= t /\ d.current_term >= c.current_term
           /\ t <= c.current_term => d = c
           /\ t > c.current_term =>
                 d.current_term = t /\ d.voted_for = None /\ d.state = Follower
           /\ d.votes_received = c.votes_received /\ d.log = c.log
           /\ d.last_applied = c.last_applied /\ d.commit_index = c.commit_index
           /\ d.next_index = c.next_index /\ d.match_index = c.match_index
           /\ d.last_included_index = c.last_included_index
           /\ d.last_included_term = c.last_included_term
  <1>1. check_msg_term(c, t) \in Core
    BY DEF check_msg_term, Core, Option, Follower
  <1>2. CASE t > c.current_term
    <2> DEFINE d == [c EXCEPT !.current_term = t, !.state = Follower, !.voted_for = None,
                        !.read_barriers = {}, !.current_leader = None]
    <2>1. check_msg_term(c, t) = d
      BY <1>2 DEF check_msg_term
    <2>2. d.current_term = t /\ d.voted_for = None /\ d.state = Follower
          /\ d.votes_received = c.votes_received /\ d.log = c.log
          /\ d.last_applied = c.last_applied /\ d.commit_index = c.commit_index
      BY DEF Core
    <2>3. d.next_index = c.next_index /\ d.match_index = c.match_index
          /\ d.last_included_index = c.last_included_index
          /\ d.last_included_term = c.last_included_term
      BY DEF Core
    <2>4. c.current_term \in Nat
      BY DEF Core
    <2> HIDE DEF d
    <2> QED  BY <1>1, <1>2, <2>1, <2>2, <2>3, <2>4
  <1>3. CASE ~ (t > c.current_term)
    <2>1. check_msg_term(c, t) = c
      BY <1>3 DEF check_msg_term
    <2>2. c.current_term \in Nat
      BY DEF Core
    <2> QED  BY <1>3, <2>1, <2>2
  <1> QED  BY <1>2, <1>3

\* A method that leaves term and vote as check_msg_term returned them.
LEMMA StepDownOK ==
    ASSUME NEW c \in Core, NEW t \in Nat, NEW r,
           r.acts.meta = StepDownMeta(c, t),
           r.core.current_term = check_msg_term(c, t).current_term,
           r.core.voted_for = check_msg_term(c, t).voted_for
    PROVE  MetaOK(c, r)
  <1>0. c.current_term \in Nat /\ None \in Option(Node)
    BY DEF Core, Option
  <1>1. CASE t > c.current_term
    <2>1. r.acts.meta = <<[term |-> t, voted_for |-> None]>>
      BY <1>1 DEF StepDownMeta
    <2>2. r.core.current_term = t /\ r.core.voted_for = None
      BY <1>1, CheckMsgTerm
    <2>3. [term |-> t, voted_for |-> None] \in Metadata
      BY <1>0 DEF Metadata
    <2>4. r.acts.meta \in Seq(Metadata) /\ Len(r.acts.meta) = 1
          /\ r.acts.meta[1] = [term |-> t, voted_for |-> None] /\ r.acts.meta # << >>
      BY <2>1, <2>3
    <2>5. Follows(c, t, None)
      BY <1>0, <1>1 DEF Follows
    <2> QED  BY <2>2, <2>4, <2>5 DEF MetaOK
  <1>2. CASE ~ (t > c.current_term)
    <2>1. r.acts.meta = << >>
      BY <1>2 DEF StepDownMeta
    <2>2. check_msg_term(c, t) = c
      BY <1>0, <1>2, CheckMsgTerm
    <2> QED  BY <2>1, <2>2 DEF MetaOK
  <1> QED  BY <1>1, <1>2

-----------------------------------------------------------------------------
(***************************************************************************)
(* What a leader sends.                                                    *)
(***************************************************************************)
LEMMA BuildAppendEntries ==
    ASSUME NEW n \in Node, NEW c \in Core, NEW peer \in Node
    PROVE  LET x == build_append_entries_for_peer(n, c, peer) IN
           MessageOK(x) /\ x.type # "RequestVoteResponse"
  <1> DEFINE next == IF c.next_index[peer] = None THEN last_log_index(c)
                     ELSE c.next_index[peer]
             prev == IF next > 0 THEN next - 1 ELSE 0
             snapshot == install_snapshot_for_peer(n, c, peer)
             entries == [ type |-> "AppendEntries", from |-> n, to |-> peer,
                          term |-> c.current_term,
                          prev_log_index |-> prev, prev_log_term |-> log_term_at(c, prev),
                          entries |-> log_slice(c, next, last_log_index(c) + 1),
                          leader_commit |-> c.commit_index ]
  <1>0. c.current_term \in Nat /\ c.commit_index \in Nat /\ c.last_included_index \in Nat
        /\ c.last_included_term \in Nat /\ c.next_index[peer] \in Option(Nat)
    BY DEF Core
  <1>1. next \in Nat /\ prev \in Nat
    BY <1>0, LastLogIndex DEF Option
  <1>2. build_append_entries_for_peer(n, c, peer) =
            IF log_term_at(c, prev) = None THEN snapshot ELSE entries
    BY Zenon DEF build_append_entries_for_peer
  <1> HIDE DEF next, prev
  <1>3. log_slice(c, next, last_log_index(c) + 1) \in Seq(Entry)
    <2>1. last_log_index(c) + 1 \in Nat
      BY LastLogIndex
    <2> QED  BY <1>1, <2>1, LogSlice
  <1>4. log_term_at(c, prev) \in Option(Nat)
    BY <1>1, LogTermAt
  <1>5. MessageOK(snapshot) /\ snapshot.type # "RequestVoteResponse"
    BY <1>0 DEF MessageOK, install_snapshot_for_peer
  <1>6. log_term_at(c, prev) # None =>
            MessageOK(entries) /\ entries.type # "RequestVoteResponse"
    BY <1>0, <1>1, <1>3, <1>4 DEF MessageOK, Option
  <1> HIDE DEF snapshot, entries
  <1> QED  BY <1>2, <1>5, <1>6

\* What a leader broadcasts is well-formed and grants nobody a vote.
LEMMA AppendEntriesMessages ==
    ASSUME NEW n \in Node, NEW c \in Core, NEW x \in append_entries(n, c)
    PROVE  MessageOK(x) /\ x.type # "RequestVoteResponse"
  BY BuildAppendEntries DEF append_entries, Peers

\* Appending an entry of the current term changes nothing but the log.
LEMMA PushOK ==
    ASSUME NEW c \in Core, NEW command \in Command \cup {Noop}
    PROVE  LET d == Push(c, command) IN
           /\ d \in Core /\ last_log_index(d) = last_log_index(c) + 1
           /\ d = [c EXCEPT !.log = d.log]
           /\ AddendumOK(PersistLast(d))
  <1> DEFINE d == Push(c, command)
             e == [term |-> c.current_term, command |-> command]
  <1>1. e \in Entry
    BY DEF Entry, Core
  <1>2. Append(c.log, e) \in Seq(Entry) /\ Len(Append(c.log, e)) = Len(c.log) + 1
    BY <1>1 DEF Core
  <1>3. d = [c EXCEPT !.log = Append(c.log, e)]
    BY DEF Push
  <1> HIDE DEF d, e
  <1>4. d \in Core /\ d.log = Append(c.log, e)
        /\ d.last_included_index = c.last_included_index
    BY <1>2, <1>3 DEF Core
  <1>5. last_log_index(d) = last_log_index(c) + 1
    BY SMTT(30), <1>2, <1>4 DEF last_log_index, Core
  <1>6. AddendumOK(PersistLast(d))
    <2>1. last_log_index(d) \in Nat /\ last_log_index(d) + 1 \in Nat
      BY <1>4, LastLogIndex
    <2>2. log_slice(d, last_log_index(d), last_log_index(d) + 1) \in Seq(Entry)
      BY <1>4, <2>1, LogSlice
    <2> QED  BY <2>1, <2>2 DEF AddendumOK, PersistLast
  <1> QED  BY <1>3, <1>4, <1>5, <1>6 DEF d

-----------------------------------------------------------------------------
(***************************************************************************)
(* The input methods, one lemma each.                                      *)
(***************************************************************************)
\* The outcome every method has.
StepOK(n, c, r) == MetaOK(c, r) /\ GrantOK(n, r) /\ ResultOK(r)

\* A method without applied entries and installed snapshot that sends no
\* vote.
LEMMA PlainResult ==
    ASSUME NEW n, NEW r, r.core \in Core, r.core.last_applied = r.core.commit_index,
           r.acts.log = None \/ AddendumOK(r.acts.log),
           r.acts.install = None, r.acts.apply = << >>,
           \A x \in r.acts.send : MessageOK(x) /\ x.type # "RequestVoteResponse"
    PROVE  GrantOK(n, r) /\ ResultOK(r)
  BY DEF GrantOK, ResultOK

\* heartbeat keeps the core and only sends well-formed messages.
LEMMA HeartbeatOK ==
    ASSUME NEW n \in Node, NEW c \in Core, c.last_applied = c.commit_index
    PROVE  LET r == heartbeat(n, c) IN StepOK(n, c, r) /\ RoleOK(c, r)
  <1> DEFINE r == heartbeat(n, c)
  <1>1. r.core = c /\ r.acts.meta = << >> /\ r.acts.log = None /\ r.acts.install = None
        /\ r.acts.apply = << >> /\ r.acts.send = append_entries(n, c)
    BY DEF heartbeat, Returns, NoActions
  <1> HIDE DEF r
  <1>2. GrantOK(n, r) /\ ResultOK(r)
    <2>1. \A x \in r.acts.send : MessageOK(x) /\ x.type # "RequestVoteResponse"
      BY <1>1, AppendEntriesMessages
    <2> QED  BY <1>1, <2>1, PlainResult
  <1>3. MetaOK(c, r) /\ RoleOK(c, r)
    BY <1>1 DEF MetaOK, RoleOK
  <1> QED  BY <1>2, <1>3 DEF r, StepOK

\* propose appends one entry, persists it and leaves role, term and vote alone.
LEMMA ProposeOK ==
    ASSUME NEW n \in Node, NEW c \in Core, c.last_applied = c.commit_index,
           NEW command \in Command
    PROVE  LET r == propose(n, c, command) IN
           /\ StepOK(n, c, r) /\ RoleOK(c, r)
           /\ r.acts.log.start_index \in Nat
  <1> DEFINE d == Push(c, command)
             r == propose(n, c, command)
  <1>1. r.core = d /\ r.acts.meta = << >> /\ r.acts.log = PersistLast(d)
        /\ r.acts.install = None
        /\ r.acts.apply = << >> /\ r.acts.send = append_entries(n, d)
    BY DEF propose, Returns, NoActions
  <1>2. d \in Core /\ AddendumOK(PersistLast(d)) /\ d = [c EXCEPT !.log = d.log]
    BY PushOK
  <1> HIDE DEF d, r
  <1>3. d.last_applied = c.last_applied /\ d.commit_index = c.commit_index
        /\ d.state = c.state /\ d.votes_received = c.votes_received
        /\ d.current_term = c.current_term /\ d.voted_for = c.voted_for
    BY <1>2 DEF Core
  <1>4. GrantOK(n, r) /\ ResultOK(r)
    <2>1. \A x \in r.acts.send : MessageOK(x) /\ x.type # "RequestVoteResponse"
      BY <1>1, <1>2, AppendEntriesMessages
    <2> QED  BY <1>1, <1>2, <1>3, <2>1, PlainResult
  <1>5. MetaOK(c, r) /\ RoleOK(c, r)
    BY <1>1, <1>3 DEF MetaOK, RoleOK
  <1>6. r.acts.log.start_index \in Nat
    BY <1>1, <1>2 DEF AddendumOK
  <1> QED  BY <1>4, <1>5, <1>6 DEF r, StepOK

\* The node becomes candidate of the next term with its own vote.
LEMMA ElectionTimeoutOK ==
    ASSUME NEW n \in Node, NEW c \in Core, c.last_applied = c.commit_index
    PROVE  LET r == election_timeout(n, c) IN
           /\ StepOK(n, c, r)
           /\ r.core.state = Candidate /\ r.core.votes_received = {n}
           /\ r.core.current_term = c.current_term + 1 /\ r.core.voted_for = n
  <1> DEFINE t == c.current_term + 1
             d == [c EXCEPT !.current_term = c.current_term + 1, !.state = Candidate,
                            !.current_leader = None, !.votes_received = {n},
                            !.voted_for = n]
             x(p) == [ type |-> "RequestVote", from |-> n, to |-> p, term |-> d.current_term,
                       last_log_index |-> last_log_index(c),
                       last_log_term |-> last_log_term(c) ]
             r == election_timeout(n, c)
  <1>1. r.core = d /\ r.acts.meta = <<[term |-> d.current_term, voted_for |-> n]>>
        /\ r.acts.log = None /\ r.acts.install = None /\ r.acts.apply = << >>
        /\ r.acts.send = {x(p) : p \in Peers(n)}
    BY DEF election_timeout, Returns, NoActions
  <1>2. d \in Core
    <2>1. t \in Nat /\ {n} \in SUBSET Node /\ n \in Option(Node) /\ None \in Option(Node)
      BY DEF Core, Option
    <2>2. d = [c EXCEPT !.current_term = t, !.state = Candidate, !.current_leader = None,
                        !.votes_received = {n}, !.voted_for = n]
      OBVIOUS
    <2> HIDE DEF t, d
    <2> QED  BY <2>1, <2>2 DEF Core
  <1>3. d.current_term = t /\ d.voted_for = n /\ d.state = Candidate
        /\ d.votes_received = {n} /\ d.last_applied = c.last_applied
        /\ d.commit_index = c.commit_index
    BY DEF Core
  <1>4. c.current_term \in Nat
    BY DEF Core
  <1> HIDE DEF d, r
  <1>5. last_log_index(c) \in Nat /\ last_log_term(c) \in Nat
    BY LastLogIndex, LogTermAt DEF last_log_term
  <1>6. GrantOK(n, r) /\ ResultOK(r)
    <2>1. ASSUME NEW p \in Peers(n)
          PROVE  MessageOK(x(p)) /\ x(p).type # "RequestVoteResponse"
      BY <1>3, <1>4, <1>5 DEF MessageOK, Peers
    <2>2. \A y \in r.acts.send : MessageOK(y) /\ y.type # "RequestVoteResponse"
      <3> HIDE DEF x
      <3> QED  BY <1>1, <2>1
    <2> QED  BY <1>1, <1>2, <1>3, <2>2, PlainResult
  <1>7. MetaOK(c, r)
    <2> DEFINE e == [term |-> t, voted_for |-> n]
    <2>1. e \in Metadata /\ e.term = t /\ e.voted_for = n
      BY <1>4 DEF Metadata, Option
    <2>2. r.acts.meta = <<e>> /\ r.core.current_term = t /\ r.core.voted_for = n
      BY <1>1, <1>3
    <2>3. Follows(c, t, n)
      BY <1>4 DEF Follows
    <2> HIDE DEF t
    <2>4. e = [term |-> r.core.current_term, voted_for |-> r.core.voted_for]
      BY <2>2
    <2> HIDE DEF e
    <2>5. r.acts.meta \in Seq(Metadata) /\ Len(r.acts.meta) = 1 /\ r.acts.meta[1] = e
          /\ r.acts.meta # << >>
      BY <2>1, <2>2
    <2> QED  BY <2>1, <2>3, <2>4, <2>5 DEF MetaOK
  <1> QED  BY <1>1, <1>3, <1>6, <1>7 DEF r, StepOK

\* What check_msg_term leaves in a role.
LEMMA CheckMsgTermRole ==
    ASSUME NEW c \in Core, NEW t \in Nat, check_msg_term(c, t).state # Follower
    PROVE  check_msg_term(c, t) = c /\ t <= c.current_term
  <1>1. c.current_term \in Nat
    BY DEF Core
  <1>2. ~ (t > c.current_term)
    BY CheckMsgTerm
  <1>3. t <= c.current_term
    BY <1>1, <1>2
  <1> QED  BY <1>3, CheckMsgTerm

\* Two PersistMetadata actions in a row.
LEMMA TwoElements ==
    ASSUME NEW S, NEW f \in S, NEW e \in S
    PROVE  LET s == <<f>> \o <<e>> IN
           s \in Seq(S) /\ Len(s) = 2 /\ s[1] = f /\ s[2] = e /\ s # << >>
  <1>1. <<f>> \in Seq(S) /\ <<e>> \in Seq(S) /\ Len(<<f>>) = 1 /\ Len(<<e>>) = 1
        /\ <<f>>[1] = f /\ <<e>>[1] = e
    OBVIOUS
  <1> QED  BY <1>1, ConcatProperties

\* handle_request_vote: a granted vote is the vote of the new core and the last
\* metadata to be persisted.
LEMMA RequestVoteOK ==
    ASSUME NEW n \in Node, NEW c0 \in Core, c0.last_applied = c0.commit_index,
           NEW m, MessageOK(m)
    PROVE  LET r == handle_request_vote(n, c0, m) IN StepOK(n, c0, r) /\ RoleOK(c0, r)
  <1> DEFINE c == check_msg_term(c0, m.term)
             grant == m.term >= c.current_term /\ can_vote(c, m.from) /\ log_check(c, m)
             x == [ type |-> "RequestVoteResponse", from |-> n, to |-> m.from,
                    term |-> c.current_term, vote_granted |-> grant ]
             e == [term |-> c.current_term, voted_for |-> m.from]
             vote == IF grant THEN <<e>> ELSE << >>
             d == IF grant THEN [c EXCEPT !.voted_for = m.from] ELSE c
             r == handle_request_vote(n, c0, m)
  <1>0. m.from \in Node /\ m.term \in Nat
    BY DEF MessageOK
  <1>1. r.core = d /\ r.acts.meta = StepDownMeta(c0, m.term) \o vote
        /\ r.acts.log = None /\ r.acts.install = None /\ r.acts.apply = << >>
        /\ r.acts.send = {x}
    <2>1. r = Returns(d, [NoActions EXCEPT !.meta = StepDownMeta(c0, m.term) \o vote,
                                           !.send = {x}])
      BY Zenon DEF handle_request_vote
    <2> HIDE DEF r, d, vote, x
    <2> QED  BY <2>1 DEF Returns, NoActions
  <1>2. c \in Core /\ c.current_term >= m.term /\ c.current_term >= c0.current_term
        /\ c.votes_received = c0.votes_received
        /\ c.last_applied = c0.last_applied /\ c.commit_index = c0.commit_index
    BY <1>0, CheckMsgTerm
  <1>3. grant \in BOOLEAN
    BY DEF can_vote, log_check
  <1>4. c.state # Follower => c = c0
    BY <1>0, CheckMsgTermRole
  <1>5. x.type = "RequestVoteResponse" /\ x.from = n /\ x.to = m.from
        /\ x.term = c.current_term /\ x.vote_granted = grant
    OBVIOUS
  <1>6. c.current_term = c0.current_term => c.voted_for = c0.voted_for
    <2>1. c0.current_term \in Nat
      BY DEF Core
    <2> QED  BY <1>0, <2>1, CheckMsgTerm
  <1>7. StepDownMeta(c0, m.term) = << >>
        \/ /\ m.term > c0.current_term
           /\ StepDownMeta(c0, m.term) = <<[term |-> m.term, voted_for |-> None]>>
    BY DEF StepDownMeta
  <1>8. grant => c.voted_for = None \/ c.voted_for = m.from
    BY DEF can_vote
  <1>9. StepDownMeta(c0, m.term) \in Seq(Metadata)
    <2>1. [term |-> m.term, voted_for |-> None] \in Metadata
      BY <1>0 DEF Metadata, Option
    <2>2. << >> \in Seq(Metadata) /\ <<[term |-> m.term, voted_for |-> None]>> \in Seq(Metadata)
      BY <2>1
    <2> QED  BY <1>7, <2>2, Zenon
  <1>10. CASE ~grant
    <2>1. r.core = c
      BY <1>1, <1>10
    <2>2. r.acts.meta = StepDownMeta(c0, m.term)
      <3>1. vote = << >>
        BY <1>10
      <3> HIDE DEF vote
      <3> QED  BY <1>1, <1>9, <3>1, ConcatEmptySeq
    <2> HIDE DEF grant, x, r
    <2>3. MetaOK(c0, r)
      <3>1. c.current_term = check_msg_term(c0, m.term).current_term
            /\ c.voted_for = check_msg_term(c0, m.term).voted_for
        OBVIOUS
      <3> HIDE DEF c
      <3> QED  BY <1>0, <2>1, <2>2, <3>1, StepDownOK
    <2> HIDE DEF c
    <2>4. RoleOK(c0, r)
      BY <1>4, <2>1 DEF RoleOK
    <2>5. GrantOK(n, r)
      BY <1>1, <1>5, <1>10 DEF GrantOK
    <2>6. ResultOK(r)
      <3>1. MessageOK(x)
        BY <1>0, <1>2, <1>3, <1>5 DEF MessageOK, Core
      <3> QED  BY <1>1, <1>2, <2>1, <3>1 DEF ResultOK
    <2> QED  BY <2>3, <2>4, <2>5, <2>6 DEF StepOK, r
  <1>11. CASE grant
    <2>1. r.core = [c EXCEPT !.voted_for = m.from] /\ vote = <<e>>
      BY <1>1, <1>11
    <2> HIDE DEF grant, x, r, vote, c
    <2>2. r.core \in Core /\ r.core.voted_for = m.from
          /\ r.core.current_term = c.current_term
          /\ r.core.state = c.state /\ r.core.votes_received = c.votes_received
          /\ r.core.last_applied = c.last_applied /\ r.core.commit_index = c.commit_index
      BY <1>0, <1>2, <2>1 DEF Core, Option
    <2>3. MetaOK(c0, r)
      <3>1. e \in Metadata /\ e.term = c.current_term /\ e.voted_for = m.from
        BY <1>0, <1>2 DEF Metadata, Option, Core
      <3>2. e = [term |-> r.core.current_term, voted_for |-> r.core.voted_for]
        BY <2>2
      <3>3. Follows(c0, c.current_term, m.from)
        BY <1>2, <1>6, <1>8, <1>11 DEF Follows
      <3>4. m.term > c0.current_term => Follows(c0, m.term, None)
        BY <1>0 DEF Follows, Core
      <3> HIDE DEF e
      <3>5. CASE StepDownMeta(c0, m.term) = << >>
        <4>1. r.acts.meta = <<e>>
          BY <1>1, <2>1, <3>1, <3>5
        <4>2. r.acts.meta \in Seq(Metadata) /\ Len(r.acts.meta) = 1
              /\ r.acts.meta[1] = e /\ r.acts.meta # << >>
          BY <3>1, <4>1
        <4> QED  BY <3>1, <3>2, <3>3, <4>2 DEF MetaOK
      <3>6. CASE /\ m.term > c0.current_term
                 /\ StepDownMeta(c0, m.term) = <<[term |-> m.term, voted_for |-> None]>>
        <4> DEFINE f == [term |-> m.term, voted_for |-> None]
        <4>1. f \in Metadata /\ f.term = m.term /\ f.voted_for = None
          BY <1>0 DEF Metadata, Option
        <4>2. StepDownMeta(c0, m.term) = <<f>>
          BY <3>6
        <4> HIDE DEF f
        <4>3. r.acts.meta = <<f>> \o <<e>>
          BY <1>1, <2>1, <4>2, Zenon
        <4>4. r.acts.meta \in Seq(Metadata) /\ Len(r.acts.meta) = 2
              /\ r.acts.meta[1] = f /\ r.acts.meta[2] = e /\ r.acts.meta # << >>
          BY <3>1, <4>1, <4>3, TwoElements
        <4> QED  BY <3>1, <3>2, <3>3, <3>4, <3>6, <4>1, <4>4 DEF MetaOK
      <3> QED  BY <1>7, <3>5, <3>6
    <2>4. RoleOK(c0, r)
      BY <1>2, <1>4, <2>2 DEF RoleOK
    <2>5. GrantOK(n, r)
      BY <1>1, <1>5, <2>2 DEF GrantOK
    <2>6. ResultOK(r)
      <3>1. MessageOK(x)
        BY <1>0, <1>2, <1>3, <1>5 DEF MessageOK, Core
      <3> QED  BY <1>1, <1>2, <2>2, <3>1 DEF ResultOK
    <2> QED  BY <2>3, <2>4, <2>5, <2>6 DEF StepOK, r
  <1> QED  BY <1>10, <1>11

\* A node that stays or becomes more than a follower keeps its term, and has
\* counted at most this vote; a new leader has counted a majority.
ElectOK(c, m, r) ==
    /\ r.core.state # Follower =>
          r.core.current_term = c.current_term /\ m.term <= c.current_term
    /\ r.core.state = Candidate =>
          /\ c.state = Candidate
          /\ \/ r.core.votes_received = c.votes_received
             \/ /\ m.vote_granted
                /\ r.core.votes_received = c.votes_received \cup {m.from}
    /\ r.core.state = Leader =>
          \/ c.state = Leader
          \/ /\ c.state = Candidate /\ m.vote_granted
             /\ 2 * Cardinality(c.votes_received \cup {m.from}) > Cardinality(Node)

\* initialize_leader_state changes the log and the peer indices, nothing else.
LEMMA InitializeLeaderState ==
    ASSUME NEW n \in Node, NEW c \in Core
    PROVE  LET d == initialize_leader_state(n, c) IN
           /\ d \in Core /\ AddendumOK(PersistLast(d))
           /\ d.state = c.state /\ d.current_term = c.current_term
           /\ d.voted_for = c.voted_for
           /\ d.last_applied = c.last_applied /\ d.commit_index = c.commit_index
  <1> DEFINE e == Push(c, Noop)
             last == last_log_index(e)
             next == [p \in Node |-> IF p = n THEN e.next_index[p] ELSE last + 1]
             match == [p \in Node |-> IF p = n THEN e.match_index[p] ELSE 0]
             d == initialize_leader_state(n, c)
  <1>1. e \in Core /\ e = [c EXCEPT !.log = e.log]
    BY PushOK
  <1>2. d = [e EXCEPT !.next_index = next, !.match_index = match]
    BY DEF initialize_leader_state
  <1>3. next \in [Node -> Option(Nat)] /\ match \in [Node -> Option(Nat)]
    <2>1. e.next_index \in [Node -> Option(Nat)] /\ e.match_index \in [Node -> Option(Nat)]
          /\ last \in Nat
      BY <1>1, LastLogIndex DEF Core
    <2> HIDE DEF e, last
    <2> QED  BY <2>1 DEF Option
  <1> HIDE DEF e, next, match, d
  <1>4. d \in Core /\ d.state = e.state /\ d.current_term = e.current_term
        /\ d.voted_for = e.voted_for
        /\ d.last_applied = e.last_applied /\ d.commit_index = e.commit_index
    BY <1>1, <1>2, <1>3 DEF Core
  <1>5. e.state = c.state /\ e.current_term = c.current_term /\ e.voted_for = c.voted_for
        /\ e.last_applied = c.last_applied /\ e.commit_index = c.commit_index
    BY <1>1 DEF Core
  <1>6. AddendumOK(PersistLast(d))
    <2>1. last_log_index(d) \in Nat /\ last_log_index(d) + 1 \in Nat
      BY <1>4, LastLogIndex
    <2>2. log_slice(d, last_log_index(d), last_log_index(d) + 1) \in Seq(Entry)
      BY <1>4, <2>1, LogSlice
    <2> QED  BY <2>1, <2>2 DEF AddendumOK, PersistLast
  <1> QED  BY <1>4, <1>5, <1>6 DEF d

\* handle_request_vote_response: a node becomes leader only with a majority in
\* votes_received, which gains at most the sender of a granted vote.
LEMMA RequestVoteResponseOK ==
    ASSUME NEW n \in Node, NEW c0 \in Core, c0.last_applied = c0.commit_index,
           NEW m, MessageOK(m)
    PROVE  LET r == handle_request_vote_response(n, c0, m)
           IN  StepOK(n, c0, r) /\ ElectOK(c0, m, r)
  <1> DEFINE c == check_msg_term(c0, m.term)
             counted == [c EXCEPT !.votes_received = c.votes_received \cup {m.from}]
             won == 2 * Cardinality(counted.votes_received) > Cardinality(Node)
             winner == [counted EXCEPT !.state = Leader, !.current_leader = n]
             elected == initialize_leader_state(n, winner)
             acts == [NoActions EXCEPT !.meta = StepDownMeta(c0, m.term)]
             leads == [acts EXCEPT !.log = PersistLast(elected),
                                   !.send = append_entries(n, elected)]
             r == handle_request_vote_response(n, c0, m)
             plain == c.state # Candidate \/ ~m.vote_granted
  <1>0. m.from \in Node /\ m.term \in Nat
    BY DEF MessageOK
  <1>1. c \in Core /\ c.votes_received = c0.votes_received
        /\ c.last_applied = c0.last_applied /\ c.commit_index = c0.commit_index
    BY <1>0, CheckMsgTerm
  <1>2. c.state # Follower => c = c0 /\ m.term <= c0.current_term
    BY <1>0, CheckMsgTermRole
  <1>3. r = IF plain THEN Returns(c, acts)
            ELSE IF ~won THEN Returns(counted, acts) ELSE Returns(elected, leads)
    BY Zenon DEF handle_request_vote_response
  <1>4. acts.meta = StepDownMeta(c0, m.term) /\ acts.log = None /\ acts.install = None
        /\ acts.apply = << >> /\ acts.send = {}
    BY DEF NoActions
  <1>5. leads.meta = StepDownMeta(c0, m.term) /\ leads.log = PersistLast(elected)
        /\ leads.install = None /\ leads.apply = << >>
        /\ leads.send = append_entries(n, elected)
    BY DEF NoActions
  <1>6. ASSUME r.core.current_term = c.current_term, r.core.voted_for = c.voted_for,
               r.acts.meta = StepDownMeta(c0, m.term)
        PROVE  MetaOK(c0, r)
    <2>1. c.current_term = check_msg_term(c0, m.term).current_term
          /\ c.voted_for = check_msg_term(c0, m.term).voted_for
      OBVIOUS
    <2> HIDE DEF c, r
    <2> QED  BY <1>0, <1>6, <2>1, StepDownOK
  <1>7. counted \in Core /\ counted.votes_received = c.votes_received \cup {m.from}
        /\ counted.state = c.state /\ counted.current_term = c.current_term
        /\ counted.voted_for = c.voted_for
        /\ counted.last_applied = c.last_applied /\ counted.commit_index = c.commit_index
    <2>1. c.votes_received \cup {m.from} \in SUBSET Node
      BY <1>0, <1>1 DEF Core
    <2> HIDE DEF c
    <2> QED  BY <1>1, <2>1 DEF Core
  <1> HIDE DEF acts, leads, r
  <1>8. CASE plain
    <2>1. r.core = c /\ r.acts = acts
      BY <1>3, <1>8 DEF Returns
    <2>2. MetaOK(c0, r)
      BY <1>4, <1>6, <2>1
    <2> HIDE DEF c
    <2>3. GrantOK(n, r) /\ ResultOK(r)
      BY <1>1, <1>4, <2>1, PlainResult
    <2>4. ElectOK(c0, m, r)
      BY <1>2, <2>1, <1>8 DEF ElectOK, Candidate, Leader, Follower
    <2> QED  BY <2>2, <2>3, <2>4 DEF StepOK, r
  <1>9. CASE ~plain /\ ~won
    <2> HIDE DEF counted
    <2>1. r.core = counted /\ r.acts = acts
      BY <1>3, <1>9, Zenon DEF Returns
    <2>2. MetaOK(c0, r)
      BY <1>4, <1>6, <1>7, <2>1
    <2> HIDE DEF c
    <2>3. GrantOK(n, r) /\ ResultOK(r)
      BY <1>1, <1>4, <1>7, <2>1, PlainResult
    <2>4. ElectOK(c0, m, r)
      BY <1>2, <1>7, <2>1, <1>9 DEF ElectOK, Candidate, Leader, Follower
    <2> QED  BY <2>2, <2>3, <2>4 DEF StepOK, r
  <1>10. CASE ~plain /\ won
    <2>0. winner \in Core /\ winner.state = Leader
          /\ winner.current_term = counted.current_term
          /\ winner.voted_for = counted.voted_for
          /\ winner.last_applied = counted.last_applied
          /\ winner.commit_index = counted.commit_index
      <3> HIDE DEF counted
      <3> QED  BY <1>7 DEF Core, Option
    <2> HIDE DEF counted, winner
    <2>1. elected \in Core /\ AddendumOK(PersistLast(elected)) /\ elected.state = Leader
          /\ elected.current_term = c.current_term /\ elected.voted_for = c.voted_for
          /\ elected.last_applied = elected.commit_index
      BY <1>1, <1>7, <2>0, InitializeLeaderState
    <2> HIDE DEF elected
    <2>2. r.core = elected /\ r.acts = leads
      BY <1>3, <1>10, Zenon DEF Returns
    <2>3. MetaOK(c0, r)
      BY <1>5, <1>6, <2>1, <2>2
    <2> HIDE DEF c
    <2>4. GrantOK(n, r) /\ ResultOK(r)
      <3>1. \A x \in append_entries(n, elected) :
                MessageOK(x) /\ x.type # "RequestVoteResponse"
        BY <2>1, AppendEntriesMessages
      <3> QED  BY <1>5, <2>1, <2>2, <3>1, PlainResult
    <2>5. ElectOK(c0, m, r)
      BY <1>2, <1>7, <2>1, <2>2, <1>10 DEF ElectOK, Candidate, Leader, Follower
    <2> QED  BY <2>3, <2>4, <2>5 DEF StepOK, r
  <1> QED  BY <1>8, <1>9, <1>10

\* A method that ends with the term and the vote check_msg_term returned and
\* makes nobody more than a follower.
StaysOK(c, t, d) ==
    /\ d.current_term = check_msg_term(c, t).current_term
    /\ d.voted_for = check_msg_term(c, t).voted_for
    /\ d.votes_received = c.votes_received
    /\ d.state = check_msg_term(c, t).state \/ d.state = Follower

\* A method that changes term, vote and role through check_msg_term alone
\* satisfies what MetaOK and RoleOK ask.
LEMMA StaysMetaRole ==
    ASSUME NEW c \in Core, NEW t \in Nat, NEW r, StaysOK(c, t, r.core),
           r.acts.meta = StepDownMeta(c, t)
    PROVE  MetaOK(c, r) /\ RoleOK(c, r)
  <1>1. MetaOK(c, r)
    BY StepDownOK DEF StaysOK
  <1>2. RoleOK(c, r)
    BY CheckMsgTermRole DEF StaysOK, RoleOK
  <1> QED  BY <1>1, <1>2

\* handle_install_snapshot: index, term and commit move together.
LEMMA InstallSnapshotOK ==
    ASSUME NEW n \in Node, NEW c0 \in Core, c0.last_applied = c0.commit_index,
           NEW m, MessageOK(m), m.type = "InstallSnapshot"
    PROVE  LET r == handle_install_snapshot(n, c0, m) IN StepOK(n, c0, r) /\ RoleOK(c0, r)
  <1> DEFINE c1 == check_msg_term(c0, m.term)
             state == IF m.term = c1.current_term /\ c1.state = Candidate
                      THEN Follower ELSE c1.state
             c2 == [c1 EXCEPT !.state = state, !.current_leader = m.from]
             index == m.last_included_index
             covered == index <= c2.last_included_index
             held == log_term_at(c2, index) = m.last_included_term
             c3 == [c2 EXCEPT !.log = << >>, !.last_included_index = index,
                              !.last_included_term = m.last_included_term,
                              !.last_applied = index, !.commit_index = index]
             x(i) == [ type |-> "InstallSnapshotResponse", from |-> n, to |-> m.from,
                       term |-> c1.current_term, last_included_index |-> i ]
             acts == [NoActions EXCEPT !.meta = StepDownMeta(c0, m.term)]
             answer(i) == [acts EXCEPT !.send = {x(i)}]
             install == [ last_included_index |-> index,
                          last_included_term |-> m.last_included_term, data |-> m.data ]
             installs == [acts EXCEPT !.install = install, !.send = {x(index)}]
             r == handle_install_snapshot(n, c0, m)
  <1>0. m.from \in Node /\ m.term \in Nat /\ index \in Nat /\ m.last_included_term \in Nat
    BY DEF MessageOK
  <1>1. c1 \in Core /\ c1.votes_received = c0.votes_received
        /\ c1.last_applied = c0.last_applied /\ c1.commit_index = c0.commit_index
    BY <1>0, CheckMsgTerm
  <1>2. r = IF m.term < c1.current_term THEN Returns(c1, answer(c1.last_included_index))
            ELSE IF covered THEN Returns(c2, answer(c2.last_included_index))
            ELSE IF held THEN Returns(c2, answer(index))
            ELSE Returns(c3, installs)
    BY Zenon DEF handle_install_snapshot
  <1>3. c1.current_term \in Nat /\ c1.last_included_index \in Nat /\ c1.state \in {Follower, Candidate, Leader}
    BY <1>1 DEF Core
  <1>4. StaysOK(c0, m.term, c1)
    BY <1>1, Zenon DEF StaysOK
  <1>5. c2 \in Core /\ c2.current_term = c1.current_term /\ c2.voted_for = c1.voted_for
        /\ c2.votes_received = c1.votes_received /\ (c2.state = c1.state \/ c2.state = Follower)
        /\ c2.last_applied = c1.last_applied /\ c2.commit_index = c1.commit_index
        /\ c2.last_included_index \in Nat
    <2>1. state \in {Follower, Candidate, Leader} /\ (state = c1.state \/ state = Follower)
          /\ m.from \in Option(Node)
      BY <1>0, <1>3 DEF Option
    <2> HIDE DEF c1, state
    <2> QED  BY <1>1, <2>1 DEF Core
  <1>6. StaysOK(c0, m.term, c2)
    <2> HIDE DEF c2
    <2> QED  BY <1>1, <1>5, Zenon DEF StaysOK
  <1>7. c3 \in Core /\ c3.current_term = c2.current_term /\ c3.voted_for = c2.voted_for
        /\ c3.votes_received = c2.votes_received /\ c3.state = c2.state
        /\ c3.last_applied = c3.commit_index
    <2> HIDE DEF c2
    <2>1. << >> \in Seq(Entry)
      OBVIOUS
    <2>2. c3 \in Core
      BY <1>0, <1>5, <2>1 DEF Core
    <2> QED  BY <1>5, <2>2 DEF Core
  <1>8. StaysOK(c0, m.term, c3)
    <2> HIDE DEF c2, c3
    <2> QED  BY <1>6, <1>7, Zenon DEF StaysOK
  <1>9. ASSUME NEW i \in Nat PROVE MessageOK(x(i)) /\ x(i).type # "RequestVoteResponse"
    <2> HIDE DEF c1
    <2> QED  BY <1>0, <1>3 DEF MessageOK
  <1>10. ASSUME NEW i
         PROVE  /\ answer(i).meta = StepDownMeta(c0, m.term) /\ answer(i).log = None
                /\ answer(i).install = None /\ answer(i).apply = << >>
                /\ answer(i).send = {x(i)}
    <2> HIDE DEF x
    <2> QED  BY DEF NoActions
  <1>11. installs.meta = StepDownMeta(c0, m.term) /\ installs.log = None
         /\ installs.install = install /\ installs.apply = << >>
         /\ installs.send = {x(index)}
    <2> HIDE DEF x, install
    <2> QED  BY DEF NoActions
  <1>12. install.last_included_index \in Nat /\ install.last_included_term \in Nat
    BY <1>0
  <1> HIDE DEF x, acts, answer, install, installs, r, c2, c3
  <1>13. ASSUME NEW c \in Core, NEW i \in Nat, StaysOK(c0, m.term, c),
                c.last_applied = c.commit_index, r.core = c, r.acts = answer(i)
         PROVE  StepOK(n, c0, r) /\ RoleOK(c0, r)
    <2>1. MetaOK(c0, r) /\ RoleOK(c0, r)
      BY <1>0, <1>10, <1>13, StaysMetaRole
    <2>2. GrantOK(n, r) /\ ResultOK(r)
      BY <1>9, <1>10, <1>13, PlainResult
    <2> QED  BY <2>1, <2>2 DEF StepOK
  <1>14. CASE m.term < c1.current_term
    <2>1. r.core = c1 /\ r.acts = answer(c1.last_included_index)
      BY <1>2, <1>14, Zenon DEF Returns
    <2> HIDE DEF c1
    <2> QED  BY <1>1, <1>3, <1>4, <1>13, <2>1 DEF r
  <1>15. CASE ~ (m.term < c1.current_term) /\ covered
    <2>1. r.core = c2 /\ r.acts = answer(c2.last_included_index)
      BY <1>2, <1>15, Zenon DEF Returns
    <2> HIDE DEF c1
    <2> QED  BY <1>1, <1>5, <1>6, <1>13, <2>1 DEF r
  <1>16. CASE ~ (m.term < c1.current_term) /\ ~covered /\ held
    <2>1. r.core = c2 /\ r.acts = answer(index)
      BY <1>2, <1>16, Zenon DEF Returns
    <2> HIDE DEF c1
    <2> QED  BY <1>0, <1>1, <1>5, <1>6, <1>13, <2>1 DEF r
  <1>17. CASE ~ (m.term < c1.current_term) /\ ~covered /\ ~held
    <2>1. r.core = c3 /\ r.acts = installs
      BY <1>2, <1>17, Zenon DEF Returns
    <2>2. MetaOK(c0, r) /\ RoleOK(c0, r)
      BY <1>0, <1>8, <1>11, <2>1, StaysMetaRole
    <2>3. GrantOK(n, r)
      BY <1>0, <1>9, <1>11, <2>1 DEF GrantOK
    <2>4. ResultOK(r)
      BY <1>0, <1>7, <1>9, <1>11, <1>12, <2>1 DEF ResultOK
    <2> QED  BY <2>2, <2>3, <2>4 DEF r, StepOK
  <1> QED  BY <1>14, <1>15, <1>16, <1>17

\* handle_install_snapshot_response only moves the indices of the peer.
LEMMA InstallSnapshotResponseOK ==
    ASSUME NEW n \in Node, NEW c0 \in Core, c0.last_applied = c0.commit_index,
           NEW m, MessageOK(m), m.type = "InstallSnapshotResponse"
    PROVE  LET r == handle_install_snapshot_response(n, c0, m)
           IN  StepOK(n, c0, r) /\ RoleOK(c0, r)
  <1> DEFINE c1 == check_msg_term(c0, m.term)
             c2 == [c1 EXCEPT !.next_index[m.from] = m.last_included_index + 1,
                              !.match_index[m.from] = m.last_included_index]
             d == IF c1.state = Leader THEN c2 ELSE c1
             r == handle_install_snapshot_response(n, c0, m)
  <1>0. m.from \in Node /\ m.term \in Nat /\ m.last_included_index \in Nat
    BY DEF MessageOK
  <1>1. c1 \in Core /\ c1.votes_received = c0.votes_received
        /\ c1.last_applied = c0.last_applied /\ c1.commit_index = c0.commit_index
    BY <1>0, CheckMsgTerm
  <1>2. r.core = d /\ r.acts.meta = StepDownMeta(c0, m.term) /\ r.acts.log = None
        /\ r.acts.install = None /\ r.acts.apply = << >> /\ r.acts.send = {}
    <2>1. r = Returns(d, [NoActions EXCEPT !.meta = StepDownMeta(c0, m.term)])
      BY Zenon DEF handle_install_snapshot_response
    <2> HIDE DEF r, d
    <2> QED  BY <2>1 DEF Returns, NoActions
  <1>3. c2 \in Core /\ c2.current_term = c1.current_term /\ c2.voted_for = c1.voted_for
        /\ c2.votes_received = c1.votes_received /\ c2.state = c1.state
        /\ c2.last_applied = c1.last_applied /\ c2.commit_index = c1.commit_index
    <2>1. c1.next_index \in [Node -> Option(Nat)] /\ c1.match_index \in [Node -> Option(Nat)]
      BY <1>1 DEF Core
    <2> HIDE DEF c1
    <2>2. [c1.next_index EXCEPT ![m.from] = m.last_included_index + 1] \in [Node -> Option(Nat)]
          /\ [c1.match_index EXCEPT ![m.from] = m.last_included_index] \in [Node -> Option(Nat)]
      BY <1>0, <2>1 DEF Option
    <2> QED  BY <1>1, <2>2 DEF Core
  <1>4. d \in Core /\ StaysOK(c0, m.term, d) /\ d.last_applied = d.commit_index
    <2> HIDE DEF c2
    <2> QED  BY <1>1, <1>3, Zenon DEF StaysOK
  <1> HIDE DEF d, r
  <1>5. MetaOK(c0, r) /\ RoleOK(c0, r)
    BY <1>0, <1>2, <1>4, StaysMetaRole
  <1>6. GrantOK(n, r) /\ ResultOK(r)
    BY <1>2, <1>4, PlainResult
  <1> QED  BY <1>5, <1>6 DEF r, StepOK

\* Every element of the kept part of the log is an entry: the entries before
\* the first one that differs are all in the log.
LEMMA OverwriteOK ==
    ASSUME NEW c \in Core, NEW prev \in Nat, NEW entries \in Seq(Entry),
           prev <= last_log_index(c)
    PROVE  LET d == Overwrite(c, prev, entries) IN
           /\ d \in Core /\ d.current_term = c.current_term /\ d.voted_for = c.voted_for
           /\ d.votes_received = c.votes_received /\ d.state = c.state
           /\ d.last_applied = c.last_applied /\ d.commit_index = c.commit_index
  <1> DEFINE differs == {k \in 1 .. Len(entries) :
                            log_term_at(c, prev + k) # entries[k].term}
             first == Min(differs)
             cut == prev + first - 1 - c.last_included_index
             log == SubSeq(c.log, 1, cut) \o SubSeq(entries, first, Len(entries))
             d == Overwrite(c, prev, entries)
  <1>0. c.last_included_index \in Nat /\ c.log \in Seq(Entry) /\ Len(entries) \in Nat
    BY DEF Core
  <1>1. d = IF differs = {} THEN c ELSE [c EXCEPT !.log = log]
    BY Zenon DEF Overwrite
  <1>2. CASE differs = {}
    BY <1>1, <1>2
  <1>3. CASE differs # {}
    <2>1. first \in differs /\ \A k \in differs : first <= k
      <3>1. differs \subseteq Nat
        BY <1>0
      <3> HIDE DEF differs
      <3> QED  BY <1>3, <3>1, MinNat
    <2>2. first \in 1 .. Len(entries)
      BY <2>1
    <2>3. \A k \in 1 .. Len(entries) : k < first => log_term_at(c, prev + k) = entries[k].term
      BY <2>1, <2>2
    <2>4. prev + first - 1 <= last_log_index(c)
      <3>1. CASE first = 1
        BY <3>1
      <3>2. CASE first > 1
        <4>1. first - 1 \in 1 .. Len(entries) /\ first - 1 < first
          BY <2>2, <3>2, <1>0
        <4>2. log_term_at(c, prev + (first - 1)) = entries[first - 1].term
          BY <2>3, <4>1
        <4>3. entries[first - 1] \in Entry
          BY <4>1
        <4>4. entries[first - 1].term \in Nat
          BY <4>3 DEF Entry
        <4>5. prev + (first - 1) \in Nat /\ log_term_at(c, prev + (first - 1)) # None
          BY <4>1, <4>2, <4>4, CoreAssumption
        <4>6. prev + (first - 1) <= last_log_index(c)
          BY <4>5, LogTermAt
        <4> QED  BY <4>6, <2>2, <1>0
      <3> QED  BY <2>2, <3>1, <3>2, <1>0
    <2>5. cut \in Int /\ cut <= Len(c.log)
      BY <2>2, <2>4, <1>0 DEF last_log_index
    <2> HIDE DEF cut, first
    <2>6. SubSeq(c.log, 1, cut) \in Seq(Entry)
      <3>1. \A i \in 1 .. cut : c.log[i] \in Entry
        BY <1>0, <2>5
      <3> QED  BY <1>0, <2>5, <3>1, SubSeqProperties
    <2>7. SubSeq(entries, first, Len(entries)) \in Seq(Entry)
      <3>1. \A i \in first .. Len(entries) : entries[i] \in Entry
        BY <1>0, <2>2
      <3> QED  BY <1>0, <2>2, <3>1, SubSeqProperties
    <2>8. log \in Seq(Entry)
      BY <2>6, <2>7, ConcatProperties
    <2>9. d = [c EXCEPT !.log = log]
      BY <1>1, <1>3
    <2> HIDE DEF log, d
    <2>10. d \in Core
      BY <2>8, <2>9 DEF Core
    <2> QED  BY <2>9, <2>10 DEF Core, d
  <1> QED  BY <1>2, <1>3

\* first_conflicting_index is an index or None.
LEMMA FirstConflictingIndex ==
    ASSUME NEW c \in Core, NEW prev \in Nat
    PROVE  LET i == first_conflicting_index(c, prev)
           IN  i \in Option(Nat) /\ (i # None => i \in 1 .. prev)
  <1> DEFINE others == {i \in 0 .. prev - 1 : term_or_zero(c, i) # term_or_zero(c, prev)}
  <1>1. first_conflicting_index(c, prev) =
            IF prev > last_log_index(c) THEN last_log_index(c) + 1
            ELSE IF others = {} THEN None ELSE Max(others) + 1
    BY Zenon DEF first_conflicting_index
  <1>2. others \subseteq 0 .. prev /\ others \subseteq Nat
    OBVIOUS
  <1> HIDE DEF others
  <1>3. others # {} => Max(others) \in others
    BY <1>2, MaxNat, Zenon
  <1>4. others # {} => Max(others) \in 0 .. prev - 1
    BY <1>3 DEF others
  <1>5. last_log_index(c) \in Nat
    BY LastLogIndex
  <1> QED  BY <1>1, <1>4, <1>5, CoreAssumption DEF Option

\* The entries a method applies: as many as the slice has.
LEMMA ApplyActionsOK ==
    ASSUME NEW from, NEW entries \in Seq(Entry)
    PROVE  /\ Len(ApplyActions(from, entries)) \in Nat
           /\ Len(ApplyActions(from, entries)) > 0 => entries # << >>
  <1>1. Len(entries) \in Nat /\ (entries = << >> => Len(entries) = 0)
    OBVIOUS
  <1>2. Len(ApplyActions(from, entries)) = Len(entries)
    BY <1>1 DEF ApplyActions
  <1> QED  BY <1>1, <1>2

\* handle_append_entries, unless it panics: the overwritten log and what is
\* persisted and applied of it are well-formed, and no vote changes.
LEMMA AppendEntriesOK ==
    ASSUME NEW n \in Node, NEW c0 \in Core, c0.last_applied = c0.commit_index,
           NEW m, MessageOK(m), m.type = "AppendEntries"
    PROVE  LET r == handle_append_entries(n, c0, m) IN StepOK(n, c0, r) /\ RoleOK(c0, r)
  <1> DEFINE c1 == check_msg_term(c0, m.term)
             c2 == IF m.term = c1.current_term /\ c1.state = Candidate
                   THEN [c1 EXCEPT !.state = Follower] ELSE c1
             refused == c2.state # Follower \/ m.term < c2.current_term
             c3 == [c2 EXCEPT !.current_leader = m.from]
             c4 == Overwrite(c3, m.prev_log_index, m.entries)
             start == m.prev_log_index + 1
             persist == IF m.entries = << >> THEN None
                        ELSE [ start_index |-> start,
                               entries |-> log_slice(c4, start, last_log_index(c4) + 1) ]
             advance == m.leader_commit > c4.commit_index
             commit == IF advance THEN min(m.leader_commit, last_log_index(c4))
                       ELSE c4.commit_index
             c5 == IF advance
                   THEN [c4 EXCEPT !.commit_index = commit, !.last_applied = commit]
                   ELSE c4
             x(c, success, conflict) ==
                 [ type |-> "AppendEntriesResponse", from |-> n, to |-> m.from,
                   term |-> c1.current_term, success |-> success,
                   match_index |-> last_log_index(c), first_conflicting_index |-> conflict ]
             acts == [NoActions EXCEPT !.meta = StepDownMeta(c0, m.term)]
             refuses(y) == [acts EXCEPT !.send = {y}]
             slice == log_slice(c4, c4.commit_index + 1, commit + 1)
             apply == ApplyActions(c4.commit_index + 1, slice)
             accepts == [acts EXCEPT !.log = persist, !.apply = apply,
                                     !.send = {x(c5, TRUE, None)}]
             conflict == first_conflicting_index(c3, m.prev_log_index)
             bad == \/ OverwritePanics(c3, m.prev_log_index, m.entries)
                    \/ commit < c4.commit_index
             r == handle_append_entries(n, c0, m)
  <1>0. m.from \in Node /\ m.term \in Nat /\ m.prev_log_index \in Nat
        /\ m.prev_log_term \in Nat /\ m.entries \in Seq(Entry) /\ m.leader_commit \in Nat
    BY DEF MessageOK
  <1>1. c1 \in Core /\ c1.votes_received = c0.votes_received
        /\ c1.last_applied = c0.last_applied /\ c1.commit_index = c0.commit_index
    BY SMTT(30), <1>0, CheckMsgTerm
  <1>2. r = IF refused THEN Returns(c2, refuses(x(c2, FALSE, None)))
            ELSE IF ~valid(c3, m) THEN Returns(c3, refuses(x(c3, FALSE, conflict)))
            ELSE ReturnsUnless(bad, c5, accepts)
    BY Zenon DEF handle_append_entries
  <1>3. c2 \in Core /\ StaysOK(c0, m.term, c2) /\ c2.last_applied = c2.commit_index
    <2>1. CASE m.term = c1.current_term /\ c1.state = Candidate
      <3>1. c2 = [c1 EXCEPT !.state = Follower]
        BY <2>1
      <3>2. c1.current_term = check_msg_term(c0, m.term).current_term
            /\ c1.voted_for = check_msg_term(c0, m.term).voted_for
        OBVIOUS
      <3> HIDE DEF c1, c2
      <3>3. c2 \in Core /\ c2.state = Follower
            /\ c2.current_term = c1.current_term /\ c2.voted_for = c1.voted_for
            /\ c2.votes_received = c1.votes_received
            /\ c2.last_applied = c1.last_applied /\ c2.commit_index = c1.commit_index
        BY <1>1, <3>1 DEF Core
      <3> QED  BY <1>1, <3>2, <3>3 DEF StaysOK
    <2>2. CASE ~ (m.term = c1.current_term /\ c1.state = Candidate)
      <3>1. c2 = c1
        BY <2>2
      <3> QED  BY <1>1, <3>1, Zenon DEF StaysOK
    <2> QED  BY <2>1, <2>2
  <1> HIDE DEF c2
  <1>4. c3 \in Core /\ StaysOK(c0, m.term, c3) /\ c3.last_applied = c3.commit_index
    <2>1. c3 \in Core /\ c3.state = c2.state
          /\ c3.current_term = c2.current_term /\ c3.voted_for = c2.voted_for
          /\ c3.votes_received = c2.votes_received
          /\ c3.last_applied = c2.last_applied /\ c3.commit_index = c2.commit_index
      BY <1>0, <1>3 DEF Core, Option
    <2> HIDE DEF c3
    <2> QED  BY <1>3, <2>1 DEF StaysOK
  <1> HIDE DEF c3
  <1>5. ASSUME NEW c \in Core, NEW s \in BOOLEAN, NEW i \in Option(Nat)
        PROVE  MessageOK(x(c, s, i)) /\ x(c, s, i).type # "RequestVoteResponse"
    <2>1. c1.current_term \in Nat /\ last_log_index(c) \in Nat
      BY <1>1, LastLogIndex DEF Core
    <2> HIDE DEF c1
    <2> QED  BY <1>0, <2>1 DEF MessageOK
  <1>6. None \in Option(Nat) /\ conflict \in Option(Nat)
    BY <1>0, <1>4, FirstConflictingIndex DEF Option
  <1> HIDE DEF x, c1, conflict
  <1>7. ASSUME NEW y
        PROVE  /\ refuses(y).meta = StepDownMeta(c0, m.term) /\ refuses(y).log = None
               /\ refuses(y).install = None /\ refuses(y).apply = << >>
               /\ refuses(y).send = {y}
    BY DEF NoActions
  <1>8. accepts.meta = StepDownMeta(c0, m.term) /\ accepts.log = persist
        /\ accepts.install = None /\ accepts.apply = apply
        /\ accepts.send = {x(c5, TRUE, None)}
    <2> HIDE DEF persist, apply, c5
    <2> QED  BY DEF NoActions
  <1> HIDE DEF refuses, accepts, r
  <1>9. ASSUME NEW c \in Core, NEW y, StaysOK(c0, m.term, c),
               c.last_applied = c.commit_index, r.core = c, r.acts = refuses(y),
               MessageOK(y), y.type # "RequestVoteResponse"
        PROVE  StepOK(n, c0, r) /\ RoleOK(c0, r)
    <2>1. MetaOK(c0, r) /\ RoleOK(c0, r)
      BY <1>0, <1>7, <1>9, StaysMetaRole
    <2>2. GrantOK(n, r) /\ ResultOK(r)
      BY <1>7, <1>9, PlainResult
    <2> QED  BY <2>1, <2>2 DEF StepOK
  <1>10. CASE refused
    <2>1. r.core = c2 /\ r.acts = refuses(x(c2, FALSE, None))
      BY <1>2, <1>10, Zenon DEF Returns
    <2> QED  BY <1>3, <1>5, <1>6, <1>9, <2>1 DEF r
  <1>11. CASE ~refused /\ ~valid(c3, m)
    <2>1. r.core = c3 /\ r.acts = refuses(x(c3, FALSE, conflict))
      BY <1>2, <1>11, Zenon DEF Returns
    <2> QED  BY <1>4, <1>5, <1>6, <1>9, <2>1 DEF r
  <1>12. CASE ~refused /\ valid(c3, m)
    <2>1. r.core = c5 /\ r.acts = accepts /\ r.panic = bad
      <3>1. r = ReturnsUnless(bad, c5, accepts)
        BY <1>2, <1>12, Zenon
      <3> HIDE DEF bad, c5
      <3> QED  BY <3>1 DEF ReturnsUnless, Returns
    <2>3. m.prev_log_index <= last_log_index(c3)
      BY <1>0, <1>4, <1>12, LastLogIndex DEF valid
    <2>4. c4 \in Core /\ c4.current_term = c3.current_term /\ c4.voted_for = c3.voted_for
          /\ c4.votes_received = c3.votes_received /\ c4.state = c3.state
          /\ c4.last_applied = c3.last_applied /\ c4.commit_index = c3.commit_index
      BY <1>0, <1>4, <2>3, OverwriteOK
    <2> HIDE DEF c4, bad
    <2>5. c4.commit_index \in Nat /\ c4.last_included_index \in Nat /\ last_log_index(c4) \in Nat
      BY <2>4, LastLogIndex DEF Core
    <2>6. commit \in Nat
          /\ (advance => commit <= last_log_index(c4)) /\ (~advance => commit = c4.commit_index)
      BY <1>0, <2>5 DEF min
    <2>7. c5 \in Core /\ c5.current_term = c4.current_term /\ c5.voted_for = c4.voted_for
          /\ c5.votes_received = c4.votes_received /\ c5.state = c4.state
          /\ c5.last_applied = commit /\ c5.commit_index = commit
          /\ last_log_index(c5) = last_log_index(c4)
          /\ c5.last_included_index = c4.last_included_index
      <3>1. CASE advance
        <4>1. c5 = [c4 EXCEPT !.commit_index = commit, !.last_applied = commit]
          BY <3>1
        <4> HIDE DEF commit, c5, advance
        <4>2. c5 \in Core
          BY <2>4, <2>6, <4>1 DEF Core
        <4> QED  BY <2>4, <4>1, <4>2 DEF Core, last_log_index
      <3>2. CASE ~advance
        <4>1. c5 = c4
          BY <3>2
        <4> HIDE DEF commit, c5, advance
        <4> QED  BY <1>4, <2>4, <2>6, <3>2, <4>1
      <3> QED  BY <3>1, <3>2
    <2>8. StaysOK(c0, m.term, c5)
      <3> HIDE DEF c5
      <3> QED  BY <1>4, <2>4, <2>7 DEF StaysOK
    <2>9. slice \in Seq(Entry)
          /\ (slice # << >> => /\ c4.commit_index + 1 > c4.last_included_index
                               /\ c4.commit_index + 1 < commit + 1)
      <3>1. c4.commit_index + 1 \in Nat /\ commit + 1 \in Nat
        BY <2>5, <2>6
      <3> HIDE DEF commit
      <3> QED  BY <2>4, <3>1, LogSlice
    <2>10. Len(apply) \in Nat /\ (Len(apply) > 0 => slice # << >>)
      <3> HIDE DEF slice
      <3> QED  BY <2>9, ApplyActionsOK
    <2>11. persist # None => AddendumOK(persist)
      <3>1. start \in Nat /\ last_log_index(c4) + 1 \in Nat
        BY <1>0, <2>5
      <3> HIDE DEF start
      <3>2. log_slice(c4, start, last_log_index(c4) + 1) \in Seq(Entry)
        BY <2>4, <3>1, LogSlice
      <3> QED  BY <3>1, <3>2 DEF AddendumOK
    <2> HIDE DEF commit, c5, advance, slice, apply, persist
    <2>12. MetaOK(c0, r) /\ RoleOK(c0, r)
      BY <1>0, <1>8, <2>1, <2>8, StaysMetaRole
    <2>13. MessageOK(x(c5, TRUE, None)) /\ x(c5, TRUE, None).type # "RequestVoteResponse"
      BY <1>5, <1>6, <2>7
    <2>14. GrantOK(n, r)
      BY <1>8, <2>1, <2>13 DEF GrantOK
    <2>15. Len(apply) > 0 => /\ c5.last_applied > c5.last_included_index
                             /\ c5.last_applied <= last_log_index(c5)
      BY <2>5, <2>6, <2>7, <2>9, <2>10
    <2>16. ResultOK(r)
      BY <1>8, <2>1, <2>7, <2>10, <2>11, <2>13, <2>15 DEF ResultOK
    <2> QED  BY <2>12, <2>14, <2>16 DEF r, StepOK
  <1> QED  BY <1>10, <1>11, <1>12

\* Commitment never goes back, and never beyond the log.
LEMMA NewCommit ==
    ASSUME NEW c \in Core, NEW replicated
    PROVE  LET k == new_commit(c, replicated) IN
           /\ k \in Nat /\ k >= c.commit_index
           /\ k = c.commit_index \/ k <= last_log_index(c)
  <1> DEFINE current == {i \in c.commit_index + 1 .. last_log_index(c) :
                            i <= replicated /\ log_term_at(c, i) = c.current_term}
  <1>0. c.commit_index \in Nat /\ last_log_index(c) \in Nat
    BY LastLogIndex DEF Core
  <1>1. new_commit(c, replicated) = IF current = {} THEN c.commit_index ELSE Max(current)
    BY Zenon DEF new_commit
  <1>2. current \subseteq 0 .. last_log_index(c)
        /\ current \subseteq {i \in Nat : i > c.commit_index /\ i <= last_log_index(c)}
    BY <1>0
  <1> HIDE DEF current
  <1>3. current # {} => Max(current) \in current
    BY <1>0, <1>2, MaxNat, Zenon
  <1>4. current # {} =>
            Max(current) \in {i \in Nat : i > c.commit_index /\ i <= last_log_index(c)}
    BY <1>2, <1>3, Zenon
  <1> QED  BY <1>0, <1>1, <1>4

\* handle_append_entries_response: no role is gained, and commit_index and
\* last_applied stay equal.
LEMMA AppendEntriesResponseOK ==
    ASSUME NEW n \in Node, NEW c0 \in Core, c0.last_applied = c0.commit_index,
           NEW m, MessageOK(m), m.type = "AppendEntriesResponse"
    PROVE  LET r == handle_append_entries_response(n, c0, m)
           IN  StepOK(n, c0, r) /\ RoleOK(c0, r)
  <1> DEFINE c1 == check_msg_term(c0, m.term)
             retry == IF m.first_conflicting_index = None THEN 0
                      ELSE m.first_conflicting_index
             back == IF c1.next_index[m.from] = None THEN c1
                     ELSE [c1 EXCEPT !.next_index[m.from] = retry]
             counted == {[b EXCEPT !.count = b.count + 1] : b \in c1.read_barriers}
             c2 == [c1 EXCEPT !.match_index[m.from] = m.match_index,
                              !.next_index[m.from] = m.match_index + 1,
                              !.read_barriers = counted]
             replicated == replicated_index(c2)
             commit == new_commit(c2, replicated)
             done == {b \in c2.read_barriers : b.count >= Cardinality(Node) \div 2}
             c3 == [c2 EXCEPT !.commit_index = commit, !.last_applied = commit,
                              !.read_barriers = c2.read_barriers \ done]
             acts == [NoActions EXCEPT !.meta = StepDownMeta(c0, m.term)]
             again == {build_append_entries_for_peer(n, back, m.from)}
             slice == log_slice(c2, c2.last_applied + 1, commit + 1)
             apply == ApplyActions(c2.last_applied + 1, slice)
             ready == {b.id : b \in done}
             retries == [acts EXCEPT !.send = again]
             succeeds == [acts EXCEPT !.apply = apply, !.ready = ready]
             bad == \/ \E i \in c2.commit_index + 1 .. replicated : log_term_at(c2, i) = None
                    \/ slice_panics(c2, c2.last_applied + 1, commit + 1)
             r == handle_append_entries_response(n, c0, m)
  <1>0. m.from \in Node /\ m.term \in Nat /\ m.success \in BOOLEAN /\ m.match_index \in Nat
        /\ m.first_conflicting_index \in Option(Nat)
    BY DEF MessageOK
  <1>1. c1 \in Core /\ c1.votes_received = c0.votes_received
        /\ c1.last_applied = c0.last_applied /\ c1.commit_index = c0.commit_index
    BY <1>0, CheckMsgTerm
  <1>2. r = IF ~m.success THEN Returns(back, retries)
            ELSE ReturnsUnless(bad, c3, succeeds)
    BY Zenon DEF handle_append_entries_response
  <1>3. c1.next_index \in [Node -> Option(Nat)] /\ c1.match_index \in [Node -> Option(Nat)]
        /\ c1.read_barriers \in SUBSET [id : Nat, count : Nat]
    BY <1>1 DEF Core
  <1>4. StaysOK(c0, m.term, c1) /\ c1.last_applied = c1.commit_index
    BY <1>1, Zenon DEF StaysOK
  <1> HIDE DEF c1
  <1>5. retries.meta = StepDownMeta(c0, m.term) /\ retries.log = None
        /\ retries.install = None /\ retries.apply = << >> /\ retries.send = again
    <2> HIDE DEF again
    <2> QED  BY DEF NoActions
  <1>6. succeeds.meta = StepDownMeta(c0, m.term) /\ succeeds.log = None
        /\ succeeds.install = None /\ succeeds.apply = apply /\ succeeds.send = {}
    <2> HIDE DEF apply, ready
    <2> QED  BY DEF NoActions
  <1> HIDE DEF retries, succeeds, r
  <1>7. CASE ~m.success
    <2>1. r.core = back /\ r.acts = retries
      BY <1>2, <1>7, Zenon DEF Returns
    <2>2. back \in Core /\ StaysOK(c0, m.term, back) /\ back.last_applied = back.commit_index
      <3>1. CASE c1.next_index[m.from] = None
        <4>1. back = c1
          BY <3>1
        <4> QED  BY <1>1, <1>4, <4>1
      <3>2. CASE c1.next_index[m.from] # None
        <4> DEFINE next == [c1.next_index EXCEPT ![m.from] = retry]
        <4>1. back = [c1 EXCEPT !.next_index = next]
          BY <3>2
        <4>2. next \in [Node -> Option(Nat)]
          BY <1>0, <1>3 DEF Option
        <4> HIDE DEF next, back
        <4>3. back \in Core
          BY <1>1, <4>1, <4>2 DEF Core
        <4>4. back.state = c1.state
              /\ back.current_term = c1.current_term /\ back.voted_for = c1.voted_for
              /\ back.votes_received = c1.votes_received
              /\ back.last_applied = c1.last_applied /\ back.commit_index = c1.commit_index
          BY <1>1, <4>1 DEF Core
        <4> QED  BY <1>4, <4>3, <4>4 DEF StaysOK
      <3> QED  BY <3>1, <3>2
    <2> HIDE DEF back
    <2>3. MetaOK(c0, r) /\ RoleOK(c0, r)
      BY <1>0, <1>5, <2>1, <2>2, StaysMetaRole
    <2>4. \A y \in r.acts.send : MessageOK(y) /\ y.type # "RequestVoteResponse"
      BY <1>0, <1>5, <2>1, <2>2, BuildAppendEntries
    <2>5. GrantOK(n, r) /\ ResultOK(r)
      BY <1>5, <2>1, <2>2, <2>4, PlainResult
    <2> QED  BY <2>3, <2>5 DEF r, StepOK
  <1>8. CASE m.success
    <2>1. r.core = c3 /\ r.acts = succeeds
      <3>1. r = ReturnsUnless(bad, c3, succeeds)
        BY <1>2, <1>8, Zenon
      <3> HIDE DEF bad, c3
      <3> QED  BY <3>1 DEF ReturnsUnless, Returns
    <2>2. c2 \in Core /\ c2.current_term = c1.current_term /\ c2.voted_for = c1.voted_for
          /\ c2.votes_received = c1.votes_received /\ c2.state = c1.state
          /\ c2.last_applied = c1.last_applied /\ c2.commit_index = c1.commit_index
      <3> DEFINE next == [c1.next_index EXCEPT ![m.from] = m.match_index + 1]
                 match == [c1.match_index EXCEPT ![m.from] = m.match_index]
      <3>1. c2 = [c1 EXCEPT !.match_index = match, !.next_index = next,
                            !.read_barriers = counted]
        BY <1>1 DEF Core
      <3>2. next \in [Node -> Option(Nat)] /\ match \in [Node -> Option(Nat)]
        BY <1>0, <1>3 DEF Option
      <3>3. counted \in SUBSET [id : Nat, count : Nat]
        BY <1>3
      <3> HIDE DEF next, match, counted, c2
      <3>4. c2 \in Core
        BY <1>1, <3>1, <3>2, <3>3 DEF Core
      <3> QED  BY <1>1, <3>1, <3>4 DEF Core
    <2> HIDE DEF c2
    <2>3. commit \in Nat /\ commit >= c2.commit_index
          /\ (commit = c2.commit_index \/ commit <= last_log_index(c2))
      <3> HIDE DEF replicated
      <3> QED  BY <2>2, NewCommit
    <2>4. c2.last_applied \in Nat /\ c2.last_applied = c2.commit_index
          /\ c2.last_included_index \in Nat /\ last_log_index(c2) \in Nat
      BY <1>4, <2>2, LastLogIndex DEF Core
    <2> HIDE DEF commit
    <2>5. c3 \in Core /\ c3.current_term = c2.current_term /\ c3.voted_for = c2.voted_for
          /\ c3.votes_received = c2.votes_received /\ c3.state = c2.state
          /\ c3.last_applied = commit /\ c3.commit_index = commit
          /\ c3.last_included_index = c2.last_included_index
          /\ last_log_index(c3) = last_log_index(c2)
      <3> DEFINE rest == c2.read_barriers \ done
      <3>1. rest \in SUBSET [id : Nat, count : Nat]
        BY <2>2 DEF Core
      <3>2. c3 = [c2 EXCEPT !.commit_index = commit, !.last_applied = commit,
                            !.read_barriers = rest]
        OBVIOUS
      <3> HIDE DEF rest, c3, done
      <3>3. c3 \in Core
        BY <2>2, <2>3, <3>1, <3>2 DEF Core
      <3> QED  BY <2>2, <3>2, <3>3 DEF Core, last_log_index
    <2>6. StaysOK(c0, m.term, c3)
      <3> HIDE DEF c3
      <3> QED  BY <1>4, <2>2, <2>5 DEF StaysOK
    <2>7. slice \in Seq(Entry)
          /\ (slice # << >> => /\ c2.last_applied + 1 > c2.last_included_index
                               /\ c2.last_applied + 1 < commit + 1)
      <3>1. c2.last_applied + 1 \in Nat /\ commit + 1 \in Nat
        BY <2>3, <2>4
      <3> QED  BY <2>2, <3>1, LogSlice
    <2>8. Len(apply) \in Nat /\ (Len(apply) > 0 => slice # << >>)
      <3> HIDE DEF slice
      <3> QED  BY <2>7, ApplyActionsOK
    <2> HIDE DEF c3, slice, apply
    <2>9. MetaOK(c0, r) /\ RoleOK(c0, r)
      BY <1>0, <1>6, <2>1, <2>6, StaysMetaRole
    <2>10. GrantOK(n, r)
      BY <1>6, <2>1 DEF GrantOK
    <2>11. Len(apply) > 0 => /\ c3.last_applied > c3.last_included_index
                             /\ c3.last_applied <= last_log_index(c3)
      BY <2>3, <2>4, <2>5, <2>7, <2>8
    <2>12. ResultOK(r)
      BY <1>6, <2>1, <2>5, <2>8, <2>11 DEF ResultOK
    <2> QED  BY <2>9, <2>10, <2>12 DEF r, StepOK
  <1> QED  BY <1>0, <1>7, <1>8

-----------------------------------------------------------------------------
(***************************************************************************)
(* What a method leaves alone.                                             *)
(***************************************************************************)
\* d has the log and the commit of c.
SameLog(c, d) ==
    /\ d.log = c.log /\ d.last_included_index = c.last_included_index
    /\ d.last_included_term = c.last_included_term
    /\ d.commit_index = c.commit_index /\ d.last_applied = c.last_applied

\* d has the read barriers of c, or has lost them with the leadership.
SameReads(c, d) ==
    /\ d.next_read_barrier_id = c.next_read_barrier_id
    /\ \/ d.state # Leader /\ d.read_barriers = {}
       \/ d.read_barriers = c.read_barriers /\ (c.state = Leader <=> d.state = Leader)

\* The result of a method that touches neither the log nor what is committed.
Idle(c, r) ==
    /\ SameLog(c, r.core) /\ SameReads(c, r.core)
    /\ r.acts.log = None /\ r.acts.install = None
    /\ r.acts.apply = << >> /\ r.acts.ready = {}

\* All that is sent is of the given type, from node n to the sender of m.
Answers(n, m, r, type) ==
    \A x \in r.acts.send : x.type = type /\ x.from = n /\ x.to = m.from

\* check_msg_term gives up the read barriers together with the leadership.
LEMMA CheckMsgTermKeeps ==
    ASSUME NEW c \in Core, NEW t \in Nat
    PROVE  SameLog(c, check_msg_term(c, t)) /\ SameReads(c, check_msg_term(c, t))
  <1> DEFINE d == [c EXCEPT !.current_term = t, !.state = Follower, !.voted_for = None,
                            !.read_barriers = {}, !.current_leader = None]
  <1>1. CASE t > c.current_term
    <2>1. check_msg_term(c, t) = d
      BY <1>1 DEF check_msg_term
    <2>2. d.state # Leader /\ d.read_barriers = {}
          /\ d.next_read_barrier_id = c.next_read_barrier_id /\ SameLog(c, d)
      BY DEF Core, SameLog, Leader, Follower
    <2> QED  BY <2>1, <2>2 DEF SameReads
  <1>2. CASE ~ (t > c.current_term)
    BY <1>2 DEF check_msg_term, SameLog, SameReads
  <1> QED  BY <1>1, <1>2

\* heartbeat changes nothing.
LEMMA HeartbeatIdle ==
    ASSUME NEW n, NEW c \in Core
    PROVE  LET r == heartbeat(n, c) IN Idle(c, r) /\ r.core = c
  <1> DEFINE sent == append_entries(n, c)
             r == heartbeat(n, c)
  <1>1. r = Returns(c, [NoActions EXCEPT !.send = sent])
    BY DEF heartbeat
  <1> HIDE DEF sent
  <1> QED  BY <1>1 DEF Returns, NoActions, Idle, SameLog, SameReads

\* election_timeout changes term, vote and role.
LEMMA ElectionTimeoutIdle ==
    ASSUME NEW n \in Node, NEW c \in Core, c.state # Leader
    PROVE  LET r == election_timeout(n, c) IN
           /\ Idle(c, r)
           /\ \A x \in r.acts.send : x.type = "RequestVote" /\ x.from = n /\ x.to # n
                                    /\ x.term = r.core.current_term
                                    /\ x.last_log_index = last_log_index(c)
                                    /\ x.last_log_term = last_log_term(c)
  <1> DEFINE elect == [c EXCEPT !.current_term = c.current_term + 1, !.state = Candidate,
                                !.current_leader = None, !.votes_received = {n},
                                !.voted_for = n]
             request(p) ==
                 [ type |-> "RequestVote", from |-> n, to |-> p,
                   term |-> elect.current_term, last_log_index |-> last_log_index(c),
                   last_log_term |-> last_log_term(c) ]
             meta == <<[term |-> elect.current_term, voted_for |-> n]>>
             sent == {request(p) : p \in Peers(n)}
             r == election_timeout(n, c)
  <1>1. r = Returns(elect, [NoActions EXCEPT !.meta = meta, !.send = sent])
    BY Zenon DEF election_timeout
  <1>2. SameLog(c, elect) /\ SameReads(c, elect)
    BY DEF Core, SameLog, SameReads, Leader, Candidate
  <1>4. \A x \in sent : x.type = "RequestVote" /\ x.from = n /\ x.to # n
                       /\ x.term = elect.current_term
                       /\ x.last_log_index = last_log_index(c)
                       /\ x.last_log_term = last_log_term(c)
    <2> HIDE DEF elect
    <2> QED  BY DEF Peers
  <1> HIDE DEF elect, meta, sent, r
  <1>3. r.core = elect /\ r.acts.log = None /\ r.acts.install = None
        /\ r.acts.apply = << >> /\ r.acts.ready = {} /\ r.acts.send = sent
    BY <1>1 DEF Returns, NoActions
  <1> QED  BY <1>2, <1>3, <1>4 DEF Idle, r

\* handle_request_vote changes term and vote.
LEMMA RequestVoteIdle ==
    ASSUME NEW n \in Node, NEW c0 \in Core, NEW m, MessageOK(m)
    PROVE  LET r == handle_request_vote(n, c0, m)
           IN  Idle(c0, r) /\ Answers(n, m, r, "RequestVoteResponse")
  <1> DEFINE c == check_msg_term(c0, m.term)
             grant == m.term >= c.current_term /\ can_vote(c, m.from) /\ log_check(c, m)
             response == [ type |-> "RequestVoteResponse", from |-> n, to |-> m.from,
                           term |-> c.current_term, vote_granted |-> grant ]
             vote == IF grant THEN <<[term |-> c.current_term, voted_for |-> m.from]>>
                     ELSE << >>
             meta == StepDownMeta(c0, m.term) \o vote
             voted == [c EXCEPT !.voted_for = m.from]
             d == IF grant THEN voted ELSE c
             r == handle_request_vote(n, c0, m)
  <1>1. r = Returns(d, [NoActions EXCEPT !.meta = meta, !.send = {response}])
    BY Zenon DEF handle_request_vote
  <1>2. m.term \in Nat
    BY DEF MessageOK
  <1>3. c \in Core /\ SameLog(c0, c) /\ SameReads(c0, c)
    BY <1>2, CheckMsgTerm, CheckMsgTermKeeps
  <1> HIDE DEF c, grant
  <1>4. SameLog(c0, voted) /\ SameReads(c0, voted)
    BY <1>3 DEF Core, SameLog, SameReads
  <1>7. response.type = "RequestVoteResponse" /\ response.from = n /\ response.to = m.from
    OBVIOUS
  <1> HIDE DEF meta, response, voted
  <1>5. SameLog(c0, d) /\ SameReads(c0, d)
    BY <1>3, <1>4
  <1> HIDE DEF d, r
  <1>6. r.core = d /\ r.acts.log = None /\ r.acts.install = None
        /\ r.acts.apply = << >> /\ r.acts.ready = {} /\ r.acts.send = {response}
    BY <1>1 DEF Returns, NoActions
  <1> QED  BY <1>5, <1>6, <1>7 DEF Idle, Answers, r

\* The result of a method that appends one entry of the current term, to be
\* persisted and sent to everyone.
Pushes(n, c, r, command) ==
    /\ r.core.log = Append(c.log, [term |-> c.current_term, command |-> command])
    /\ SameLog([c EXCEPT !.log = r.core.log], r.core)
    /\ r.core.current_term = c.current_term /\ r.core.state = Leader
    /\ r.core.next_read_barrier_id = c.next_read_barrier_id
    /\ r.core.read_barriers = c.read_barriers
    /\ r.acts.meta = << >> /\ r.acts.log = PersistLast(r.core) /\ r.acts.install = None
    /\ r.acts.apply = << >> /\ r.acts.ready = {}
    /\ r.acts.send = append_entries(n, r.core)

\* propose appends the command.
LEMMA ProposePushes ==
    ASSUME NEW n \in Node, NEW c \in Core, c.state = Leader, NEW command \in Command
    PROVE  Pushes(n, c, propose(n, c, command), command)
  <1> DEFINE d == Push(c, command)
             r == propose(n, c, command)
             last == PersistLast(d)
             sent == append_entries(n, d)
             e == [term |-> c.current_term, command |-> command]
  <1>1. r = Returns(d, [NoActions EXCEPT !.log = last, !.send = sent])
    BY Zenon DEF propose
  <1>2. d = [c EXCEPT !.log = Append(c.log, e)]
    BY DEF Push
  <1>3. d.log = Append(c.log, e) /\ SameLog([c EXCEPT !.log = d.log], d)
        /\ d.current_term = c.current_term /\ d.state = c.state
        /\ d.next_read_barrier_id = c.next_read_barrier_id
        /\ d.read_barriers = c.read_barriers
    <2> HIDE DEF d, e
    <2> QED  BY <1>2 DEF Core, SameLog
  <1> HIDE DEF d, r, last, sent
  <1>4. r.core = d /\ r.acts.meta = << >> /\ r.acts.log = last /\ r.acts.install = None
        /\ r.acts.apply = << >> /\ r.acts.ready = {} /\ r.acts.send = sent
    BY <1>1 DEF Returns, NoActions
  <1> QED  BY <1>3, <1>4 DEF Pushes, r, last, sent

\* handle_request_vote_response counts a vote, or appends the no-op of a new
\* leader.
LEMMA RequestVoteResponseKeeps ==
    ASSUME NEW n \in Node, NEW c0 \in Core, NEW m, MessageOK(m)
    PROVE  LET r == handle_request_vote_response(n, c0, m) IN
           \/ Idle(c0, r) /\ r.acts.send = {}
           \/ c0.state = Candidate /\ Pushes(n, c0, r, Noop)
  <1> DEFINE c == check_msg_term(c0, m.term)
             counted == [c EXCEPT !.votes_received = c.votes_received \cup {m.from}]
             won == 2 * Cardinality(counted.votes_received) > Cardinality(Node)
             winner == [counted EXCEPT !.state = Leader, !.current_leader = n]
             elected == initialize_leader_state(n, winner)
             acts == [NoActions EXCEPT !.meta = StepDownMeta(c0, m.term)]
             leads == [acts EXCEPT !.log = PersistLast(elected),
                                   !.send = append_entries(n, elected)]
             r == handle_request_vote_response(n, c0, m)
             plain == c.state # Candidate \/ ~m.vote_granted
  <1>0. m.from \in Node /\ m.term \in Nat
    BY DEF MessageOK
  <1>1. c \in Core /\ SameLog(c0, c) /\ SameReads(c0, c)
    BY <1>0, CheckMsgTerm, CheckMsgTermKeeps
  <1>2. c.state # Follower => c = c0 /\ m.term <= c0.current_term
    BY <1>0, CheckMsgTermRole
  <1>3. r = IF plain THEN Returns(c, acts)
            ELSE IF ~won THEN Returns(counted, acts) ELSE Returns(elected, leads)
    BY Zenon DEF handle_request_vote_response
  <1>4. acts.log = None /\ acts.install = None /\ acts.apply = << >> /\ acts.ready = {}
        /\ acts.meta = StepDownMeta(c0, m.term) /\ acts.send = {}
    BY DEF NoActions
  <1>5. leads.meta = StepDownMeta(c0, m.term) /\ leads.log = PersistLast(elected)
        /\ leads.install = None /\ leads.apply = << >> /\ leads.ready = {}
        /\ leads.send = append_entries(n, elected)
    BY DEF NoActions
  <1>6. c.votes_received \cup {m.from} \in SUBSET Node
    BY <1>0, <1>1 DEF Core
  <1> HIDE DEF c, acts, leads, r
  <1>7. counted \in Core /\ SameLog(c0, counted) /\ SameReads(c0, counted)
        /\ counted.state = c.state
    BY <1>1, <1>6 DEF Core, SameLog, SameReads
  <1>8. CASE plain
    <2>1. r.core = c /\ r.acts = acts
      BY <1>3, <1>8, Zenon DEF Returns
    <2> QED  BY <1>1, <1>4, <2>1 DEF Idle, r
  <1>9. CASE ~plain /\ ~won
    <2> HIDE DEF counted
    <2>1. r.core = counted /\ r.acts = acts
      BY <1>3, <1>9, Zenon DEF Returns
    <2> QED  BY <1>4, <1>7, <2>1 DEF Idle, r
  <1>10. CASE ~plain /\ won
    <2> DEFINE noop == [term |-> c0.current_term, command |-> Noop]
               pushed == Push(winner, Noop)
               last == last_log_index(pushed)
               next == [p \in Node |-> IF p = n THEN pushed.next_index[p] ELSE last + 1]
               match == [p \in Node |-> IF p = n THEN pushed.match_index[p] ELSE 0]
    <2>1. c = c0 /\ c0.state = Candidate /\ m.term <= c0.current_term
      BY <1>2, <1>10 DEF Candidate, Follower
    <2>2. r.core = elected /\ r.acts = leads
      <3> HIDE DEF counted, elected
      <3> QED  BY <1>3, <1>10, Zenon DEF Returns
    <2>3. winner = [c0 EXCEPT !.votes_received = c.votes_received \cup {m.from},
                              !.state = Leader, !.current_leader = n]
      BY <2>1
    <2>4. winner \in Core /\ winner.log = c0.log /\ winner.current_term = c0.current_term
          /\ winner.state = Leader /\ SameLog(c0, winner)
          /\ winner.next_read_barrier_id = c0.next_read_barrier_id
          /\ winner.read_barriers = c0.read_barriers
      <3> HIDE DEF winner
      <3> QED  BY <1>6, <2>3 DEF Core, SameLog, Option
    <2> HIDE DEF winner, counted
    <2>5. pushed = [winner EXCEPT !.log = Append(c0.log, noop)]
      BY <2>4 DEF Push
    <2>6. elected = [pushed EXCEPT !.next_index = next, !.match_index = match]
      BY Zenon DEF initialize_leader_state
    <2> HIDE DEF noop, next, match
    <2>7. elected = [winner EXCEPT !.log = Append(c0.log, noop), !.next_index = next,
                                   !.match_index = match]
      <3> HIDE DEF elected, pushed
      <3> QED  BY <2>4, <2>5, <2>6 DEF Core
    <2> HIDE DEF elected, pushed
    <2>8. elected.log = Append(c0.log, noop) /\ elected.current_term = c0.current_term
          /\ elected.state = Leader
          /\ elected.next_read_barrier_id = c0.next_read_barrier_id
          /\ elected.read_barriers = c0.read_barriers
          /\ elected.last_included_index = c0.last_included_index
          /\ elected.last_included_term = c0.last_included_term
          /\ elected.commit_index = c0.commit_index
          /\ elected.last_applied = c0.last_applied
      BY <2>4, <2>7 DEF Core, SameLog
    <2>9. SameLog([c0 EXCEPT !.log = elected.log], elected)
      BY <2>8 DEF SameLog, Core
    <2>10. StepDownMeta(c0, m.term) = << >>
      BY <1>0, <2>1 DEF StepDownMeta, Core
    <2>11. Pushes(n, c0, r, Noop)
      BY <1>5, <2>2, <2>8, <2>9, <2>10 DEF Pushes, noop
    <2> QED  BY <2>1, <2>11 DEF r
  <1> QED  BY <1>8, <1>9, <1>10

\* handle_install_snapshot_response touches neither log nor reads.
LEMMA InstallSnapshotResponseIdle ==
    ASSUME NEW n \in Node, NEW c0 \in Core, NEW m, MessageOK(m),
           m.type = "InstallSnapshotResponse"
    PROVE  LET r == handle_install_snapshot_response(n, c0, m)
           IN  Idle(c0, r) /\ r.acts.send = {}
  <1> DEFINE c1 == check_msg_term(c0, m.term)
             next == [c1.next_index EXCEPT ![m.from] = m.last_included_index + 1]
             match == [c1.match_index EXCEPT ![m.from] = m.last_included_index]
             c2 == [c1 EXCEPT !.next_index = next, !.match_index = match]
             d == IF c1.state = Leader THEN c2 ELSE c1
             acts == [NoActions EXCEPT !.meta = StepDownMeta(c0, m.term)]
             r == handle_install_snapshot_response(n, c0, m)
  <1>0. m.from \in Node /\ m.term \in Nat
    BY DEF MessageOK
  <1>1. c1 \in Core /\ SameLog(c0, c1) /\ SameReads(c0, c1)
    BY <1>0, CheckMsgTerm, CheckMsgTermKeeps
  <1>2. r = Returns(d, acts)
    BY DEF handle_install_snapshot_response
  <1> HIDE DEF c1, next, match
  <1>3. SameLog(c0, c2) /\ SameReads(c0, c2)
    BY <1>1 DEF Core, SameLog, SameReads
  <1> HIDE DEF c2
  <1>4. SameLog(c0, d) /\ SameReads(c0, d)
    BY <1>1, <1>3
  <1> HIDE DEF d, r
  <1>5. r.core = d /\ r.acts.log = None /\ r.acts.install = None
        /\ r.acts.apply = << >> /\ r.acts.ready = {} /\ r.acts.send = {}
    BY <1>2 DEF Returns, NoActions
  <1> QED  BY <1>4, <1>5 DEF Idle, r

\* The result of a method that replaces the log by a snapshot.
Installs(c, m, r) ==
    /\ m.term >= c.current_term /\ r.core.current_term = m.term
    /\ SameReads(c, r.core)
    /\ r.core.state = Leader => c.state = Leader /\ m.term = c.current_term
    /\ r.core.last_applied = r.core.last_included_index
    /\ r.acts.log = None /\ r.acts.apply = << >> /\ r.acts.ready = {}

\* handle_install_snapshot keeps log and reads, or replaces the log.
LEMMA InstallSnapshotKeeps ==
    ASSUME NEW n \in Node, NEW c0 \in Core, NEW m, MessageOK(m), m.type = "InstallSnapshot"
    PROVE  LET r == handle_install_snapshot(n, c0, m) IN
           /\ Idle(c0, r) \/ Installs(c0, m, r)
           /\ Answers(n, m, r, "InstallSnapshotResponse")
  <1> DEFINE c1 == check_msg_term(c0, m.term)
             state == IF m.term = c1.current_term /\ c1.state = Candidate
                      THEN Follower ELSE c1.state
             c2 == [c1 EXCEPT !.state = state, !.current_leader = m.from]
             index == m.last_included_index
             covered == index <= c2.last_included_index
             held == log_term_at(c2, index) = m.last_included_term
             c3 == [c2 EXCEPT !.log = << >>, !.last_included_index = index,
                              !.last_included_term = m.last_included_term,
                              !.last_applied = index, !.commit_index = index]
             x(i) == [ type |-> "InstallSnapshotResponse", from |-> n, to |-> m.from,
                       term |-> c1.current_term, last_included_index |-> i ]
             acts == [NoActions EXCEPT !.meta = StepDownMeta(c0, m.term)]
             answer(i) == [acts EXCEPT !.send = {x(i)}]
             install == [ last_included_index |-> index,
                          last_included_term |-> m.last_included_term, data |-> m.data ]
             installs == [acts EXCEPT !.install = install, !.send = {x(index)}]
             r == handle_install_snapshot(n, c0, m)
  <1>0. m.from \in Node /\ m.term \in Nat /\ index \in Nat /\ m.last_included_term \in Nat
    BY DEF MessageOK
  <1>1. c1 \in Core /\ SameLog(c0, c1) /\ SameReads(c0, c1)
        /\ c1.current_term >= m.term /\ c1.current_term >= c0.current_term
        /\ (c1.state = Leader => c0.state = Leader /\ c1 = c0)
    BY <1>0, CheckMsgTerm, CheckMsgTermKeeps, CheckMsgTermRole DEF Leader, Follower
  <1>2. r = IF m.term < c1.current_term THEN Returns(c1, answer(c1.last_included_index))
            ELSE IF covered THEN Returns(c2, answer(c2.last_included_index))
            ELSE IF held THEN Returns(c2, answer(index))
            ELSE Returns(c3, installs)
    BY Zenon DEF handle_install_snapshot
  <1>3. ASSUME NEW i
        PROVE  /\ answer(i).log = None /\ answer(i).install = None
               /\ answer(i).apply = << >> /\ answer(i).ready = {}
               /\ \A y \in answer(i).send : y.type = "InstallSnapshotResponse"
                                           /\ y.from = n /\ y.to = m.from
    <2>1. x(i).type = "InstallSnapshotResponse" /\ x(i).from = n /\ x(i).to = m.from
      OBVIOUS
    <2> HIDE DEF x
    <2> QED  BY <2>1 DEF NoActions
  <1>4. installs.log = None /\ installs.apply = << >> /\ installs.ready = {}
        /\ \A y \in installs.send : y.type = "InstallSnapshotResponse"
                                   /\ y.from = n /\ y.to = m.from
    <2>1. x(index).type = "InstallSnapshotResponse" /\ x(index).from = n
          /\ x(index).to = m.from
      OBVIOUS
    <2> HIDE DEF x, install
    <2> QED  BY <2>1 DEF NoActions
  <1>5. state = Leader <=> c1.state = Leader
    BY DEF Leader, Follower, Candidate
  <1>6. state \in {Follower, Candidate, Leader}
    BY <1>1 DEF Core
  <1> HIDE DEF c1, state, answer, installs, r, x, acts
  <1>7. c2 \in Core /\ SameLog(c0, c2) /\ SameReads(c0, c2)
        /\ c2.current_term = c1.current_term /\ c2.state = state
    <2>1. c2 \in Core
      BY <1>0, <1>1, <1>6 DEF Core, Option
    <2>2. SameLog(c1, c2) /\ c2.state = state /\ c2.read_barriers = c1.read_barriers
          /\ c2.next_read_barrier_id = c1.next_read_barrier_id
          /\ c2.current_term = c1.current_term
      BY <1>1 DEF Core, SameLog
    <2> HIDE DEF c2
    <2> QED  BY <1>1, <1>5, <2>1, <2>2 DEF SameLog, SameReads
  <1> HIDE DEF c2
  <1>8. c3.state = c2.state /\ c3.read_barriers = c2.read_barriers
        /\ c3.next_read_barrier_id = c2.next_read_barrier_id
        /\ c3.current_term = c2.current_term /\ c3.last_applied = c3.last_included_index
    BY <1>7 DEF Core
  <1> HIDE DEF c3
  <1>9. CASE m.term < c1.current_term
    <2>1. r.core = c1 /\ r.acts = answer(c1.last_included_index)
      BY <1>2, <1>9, Zenon DEF Returns
    <2> QED  BY <1>1, <1>3, <2>1 DEF Idle, Answers, r
  <1>10. CASE ~ (m.term < c1.current_term) /\ (covered \/ held)
    <2>1. r.core = c2 /\ (\E i : r.acts = answer(i))
      BY <1>2, <1>10, Zenon DEF Returns
    <2> QED  BY <1>3, <1>7, <2>1 DEF Idle, Answers, r
  <1>11. CASE ~ (m.term < c1.current_term) /\ ~covered /\ ~held
    <2>1. r.core = c3 /\ r.acts = installs
      BY <1>2, <1>11, Zenon DEF Returns
    <2>2. c1.current_term \in Nat /\ c0.current_term \in Nat
      BY <1>1 DEF Core
    <2>3. c1.current_term = m.term /\ m.term >= c0.current_term
      BY <1>0, <1>1, <1>11, <2>2
    <2>4. Installs(c0, m, r)
      BY <1>1, <1>4, <1>5, <1>7, <1>8, <2>1, <2>3 DEF Installs, SameReads
    <2> QED  BY <1>4, <2>1, <2>4 DEF Answers, r
  <1> QED  BY <1>9, <1>10, <1>11

\* The ids of the reads that wait for a round of heartbeats.
Ids(c) == {b.id : b \in c.read_barriers}

\* Only a leader has read barriers, and every id is used once.
BarriersOK(c) ==
    /\ c.read_barriers # {} => c.state = Leader
    /\ \A a, b \in c.read_barriers : a.id = b.id => a = b
    /\ \A b \in c.read_barriers : b.id <= c.next_read_barrier_id

\* The barriers a method removes from a leader are the ones it reports ready.
ReadsOK(c, r) ==
    BarriersOK(c) =>
        /\ BarriersOK(r.core)
        /\ r.core.state = Leader => Ids(r.core) = Ids(c) \ r.acts.ready

\* The result of handle_append_entries_response for a success.
Commits(c, m, r) ==
    \E d \in Core :
        /\ SameLog(c, d) /\ d.current_term = check_msg_term(c, m.term).current_term
        /\ d.match_index = [c.match_index EXCEPT ![m.from] = m.match_index]
        /\ LET commit == new_commit(d, replicated_index(d)) IN
           /\ SameLog([d EXCEPT !.commit_index = commit, !.last_applied = commit], r.core)
           /\ r.core.state = check_msg_term(c, m.term).state
           /\ r.core.current_term = d.current_term /\ r.core.match_index = d.match_index
           /\ r.acts.log = None /\ r.acts.install = None /\ r.acts.send = {}
           /\ r.acts.apply = ApplyActions(c.last_applied + 1,
                                 log_slice(d, c.last_applied + 1, commit + 1))
           /\ r.panic <=>
                 \/ \E i \in c.commit_index + 1 .. replicated_index(d) :
                       log_term_at(d, i) = None
                 \/ slice_panics(d, c.last_applied + 1, commit + 1)

\* Whatever keeps the barriers, or drops them with the leadership, is in order.
LEMMA SameReadsOK ==
    ASSUME NEW c, NEW r, SameReads(c, r.core), r.acts.ready = {}
    PROVE  ReadsOK(c, r)
  <1> SUFFICES ASSUME BarriersOK(c)
               PROVE  BarriersOK(r.core)
                      /\ (r.core.state = Leader => Ids(r.core) = Ids(c) \ r.acts.ready)
    BY DEF ReadsOK
  <1>1. CASE r.core.state # Leader /\ r.core.read_barriers = {}
    BY <1>1 DEF BarriersOK
  <1>2. CASE r.core.read_barriers = c.read_barriers
             /\ (c.state = Leader <=> r.core.state = Leader)
    <2>1. BarriersOK(r.core)
      BY <1>2 DEF BarriersOK, SameReads
    <2>2. Ids(r.core) = Ids(c)
      BY <1>2 DEF Ids
    <2> QED  BY <2>1, <2>2
  <1> QED  BY <1>1, <1>2 DEF SameReads

\* Every barrier counts one success more, and those with enough are removed.
LEMMA CountedReads ==
    ASSUME NEW c \in Core, BarriersOK(c), NEW q
    PROVE  LET counted == {[b EXCEPT !.count = b.count + 1] : b \in c.read_barriers}
               done == {b \in counted : b.count >= q}
           IN  /\ {b.id : b \in counted \ done} = Ids(c) \ {b.id : b \in done}
               /\ \A a, b \in counted : a.id = b.id => a = b
               /\ \A b \in counted : b.id <= c.next_read_barrier_id
               /\ counted # {} => c.state = Leader
  <1> DEFINE counted == {[b EXCEPT !.count = b.count + 1] : b \in c.read_barriers}
             done == {b \in counted : b.count >= q}
  <1>1. \A b \in c.read_barriers : b \in [id : Nat, count : Nat]
    BY DEF Core
  <1>2. \A b \in c.read_barriers : [b EXCEPT !.count = b.count + 1].id = b.id
    BY <1>1
  <1>3. \A a \in counted : \E b \in c.read_barriers :
            a = [b EXCEPT !.count = b.count + 1] /\ a.id = b.id
    BY <1>2
  <1>4. \A b \in c.read_barriers : \E a \in counted : a.id = b.id
    BY <1>2
  <1>5. \A a, b \in counted : a.id = b.id => a = b
    BY <1>3 DEF BarriersOK
  <1>6. \A b \in counted : b.id <= c.next_read_barrier_id
    BY <1>3 DEF BarriersOK
  <1>7. counted # {} => c.state = Leader
    BY DEF BarriersOK
  <1>8. {b.id : b \in counted} = Ids(c)
    <2> HIDE DEF counted
    <2> QED  BY <1>3, <1>4 DEF Ids
  <1>9. done \subseteq counted
    OBVIOUS
  <1> HIDE DEF counted, done
  <1>10. {b.id : b \in counted \ done} = {b.id : b \in counted} \ {b.id : b \in done}
    BY <1>5, <1>9
  <1> QED  BY <1>5, <1>6, <1>7, <1>8, <1>10 DEF counted, done

\* handle_append_entries_response retries, or commits and answers reads.
LEMMA AppendEntriesResponseKeeps ==
    ASSUME NEW n \in Node, NEW c0 \in Core, c0.last_applied = c0.commit_index,
           NEW m, MessageOK(m), m.type = "AppendEntriesResponse"
    PROVE  LET r == handle_append_entries_response(n, c0, m) IN
           /\ ReadsOK(c0, r)
           /\ ~m.success => /\ Idle(c0, r) /\ ~r.panic
                            /\ r.core.state = check_msg_term(c0, m.term).state
                            /\ r.core.current_term =
                                  check_msg_term(c0, m.term).current_term
                            /\ r.acts.send =
                                  {build_append_entries_for_peer(n, r.core, m.from)}
           /\ m.success => Commits(c0, m, r)
  <1> DEFINE c1 == check_msg_term(c0, m.term)
             retry == IF m.first_conflicting_index = None THEN 0
                      ELSE m.first_conflicting_index
             back == IF c1.next_index[m.from] = None THEN c1
                     ELSE [c1 EXCEPT !.next_index[m.from] = retry]
             counted == {[b EXCEPT !.count = b.count + 1] : b \in c1.read_barriers}
             c2 == [c1 EXCEPT !.match_index[m.from] = m.match_index,
                              !.next_index[m.from] = m.match_index + 1,
                              !.read_barriers = counted]
             replicated == replicated_index(c2)
             commit == new_commit(c2, replicated)
             done == {b \in c2.read_barriers : b.count >= Cardinality(Node) \div 2}
             c3 == [c2 EXCEPT !.commit_index = commit, !.last_applied = commit,
                              !.read_barriers = c2.read_barriers \ done]
             acts == [NoActions EXCEPT !.meta = StepDownMeta(c0, m.term)]
             again == {build_append_entries_for_peer(n, back, m.from)}
             slice == log_slice(c2, c2.last_applied + 1, commit + 1)
             apply == ApplyActions(c2.last_applied + 1, slice)
             ready == {b.id : b \in done}
             retries == [acts EXCEPT !.send = again]
             succeeds == [acts EXCEPT !.apply = apply, !.ready = ready]
             bad == \/ \E i \in c2.commit_index + 1 .. replicated : log_term_at(c2, i) = None
                    \/ slice_panics(c2, c2.last_applied + 1, commit + 1)
             r == handle_append_entries_response(n, c0, m)
  <1>0. m.from \in Node /\ m.term \in Nat /\ m.success \in BOOLEAN /\ m.match_index \in Nat
        /\ m.first_conflicting_index \in Option(Nat)
    BY DEF MessageOK
  <1>1. c1 \in Core /\ SameLog(c0, c1) /\ SameReads(c0, c1)
        /\ c1.match_index = c0.match_index
    BY <1>0, CheckMsgTerm, CheckMsgTermKeeps
  <1>2. r = IF ~m.success THEN Returns(back, retries)
            ELSE ReturnsUnless(bad, c3, succeeds)
    BY Zenon DEF handle_append_entries_response
  <1>3. c1.next_index \in [Node -> Option(Nat)] /\ c1.match_index \in [Node -> Option(Nat)]
        /\ c1.read_barriers \in SUBSET [id : Nat, count : Nat]
    BY <1>1 DEF Core
  <1>c. c1.current_term = check_msg_term(c0, m.term).current_term
        /\ c1.state = check_msg_term(c0, m.term).state
    OBVIOUS
  <1> HIDE DEF c1
  <1>5. retries.log = None /\ retries.install = None /\ retries.apply = << >>
        /\ retries.ready = {} /\ retries.send = again
    <2> HIDE DEF again
    <2> QED  BY DEF NoActions
  <1>6. succeeds.log = None /\ succeeds.install = None /\ succeeds.apply = apply
        /\ succeeds.ready = ready /\ succeeds.send = {}
    <2> HIDE DEF apply, ready
    <2> QED  BY DEF NoActions
  <1> HIDE DEF retries, succeeds, r
  <1>7. CASE ~m.success
    <2>1. r.core = back /\ r.acts = retries /\ r.panic = FALSE
      <3>1. r = Returns(back, retries)
        BY <1>2, <1>7
      <3> HIDE DEF back
      <3> QED  BY <3>1 DEF Returns
    <2>2. SameLog(c0, back) /\ SameReads(c0, back)
          /\ back.state = c1.state /\ back.current_term = c1.current_term
      <3>1. CASE c1.next_index[m.from] = None
        <4>1. back = c1
          BY <3>1
        <4> QED  BY <1>1, <4>1
      <3>2. CASE c1.next_index[m.from] # None
        <4> DEFINE next == [c1.next_index EXCEPT ![m.from] = retry]
        <4>1. back = [c1 EXCEPT !.next_index = next]
          BY <3>2
        <4> HIDE DEF next, back
        <4> QED  BY <1>1, <4>1 DEF Core, SameLog, SameReads
      <3> QED  BY <3>1, <3>2
    <2> HIDE DEF back
    <2>3. Idle(c0, r)
      BY <1>5, <2>1, <2>2 DEF Idle
    <2>4. ReadsOK(c0, r)
      BY <2>3, SameReadsOK DEF Idle
    <2> QED  BY <1>c, <1>5, <1>7, <2>1, <2>2, <2>3, <2>4 DEF r
  <1>8. CASE m.success
    <2> DEFINE next == [c1.next_index EXCEPT ![m.from] = m.match_index + 1]
               match == [c1.match_index EXCEPT ![m.from] = m.match_index]
    <2>1. r.core = c3 /\ r.acts = succeeds /\ r.panic = bad
      <3>1. r = ReturnsUnless(bad, c3, succeeds)
        BY <1>2, <1>8, Zenon
      <3> HIDE DEF bad, c3
      <3> QED  BY <3>1 DEF ReturnsUnless, Returns
    <2>2. c2 = [c1 EXCEPT !.match_index = match, !.next_index = next,
                          !.read_barriers = counted]
      BY <1>1 DEF Core
    <2>3. next \in [Node -> Option(Nat)] /\ match \in [Node -> Option(Nat)]
      BY <1>0, <1>3 DEF Option
    <2>4. counted \in SUBSET [id : Nat, count : Nat]
      BY <1>3
    <2> HIDE DEF next, counted, c2
    <2>5. c2 \in Core
      <3> HIDE DEF match
      <3> QED  BY <1>1, <2>2, <2>3, <2>4 DEF Core
    <2>6. SameLog(c1, c2) /\ c2.state = c1.state /\ c2.current_term = c1.current_term
          /\ c2.next_read_barrier_id = c1.next_read_barrier_id
          /\ c2.read_barriers = counted /\ c2.match_index = match
      <3> HIDE DEF match
      <3> QED  BY <1>1, <2>2 DEF Core, SameLog
    <2>7. commit \in Nat
      <3> HIDE DEF replicated
      <3> QED  BY <2>5, NewCommit
    <2>8. c2.last_applied = c0.last_applied /\ c2.commit_index = c0.commit_index
      BY <1>1, <2>6 DEF SameLog
    <2>9. SameLog([c2 EXCEPT !.commit_index = commit, !.last_applied = commit], c3)
          /\ c3.state = c1.state /\ c3.current_term = c2.current_term
          /\ c3.match_index = c2.match_index
          /\ c3.next_read_barrier_id = c1.next_read_barrier_id
          /\ c3.read_barriers = counted \ done
      <3> HIDE DEF commit, done
      <3> QED  BY <2>5, <2>6 DEF Core, SameLog
    <2>10. Commits(c0, m, r)
      <3>1. SameLog(c0, c2)
        BY <1>1, <2>6 DEF SameLog
      <3>2. c2.match_index = [c0.match_index EXCEPT ![m.from] = m.match_index]
        BY <1>1, <2>6
      <3>3. r.acts.apply = ApplyActions(c0.last_applied + 1,
                               log_slice(c2, c0.last_applied + 1, commit + 1))
        BY <1>6, <2>1, <2>8, Zenon
      <3>4. r.panic <=>
                 \/ \E i \in c0.commit_index + 1 .. replicated : log_term_at(c2, i) = None
                 \/ slice_panics(c2, c0.last_applied + 1, commit + 1)
        BY <2>1, <2>8
      <3>5. SameLog([c2 EXCEPT !.commit_index = commit, !.last_applied = commit], r.core)
            /\ r.core.state = c1.state /\ r.core.current_term = c2.current_term
            /\ r.core.match_index = c2.match_index
        <4> HIDE DEF c3, commit
        <4> QED  BY <2>1, <2>9
      <3> HIDE DEF c3, bad
      <3> QED  BY <3>5, <1>c, <1>6, <2>1, <2>5, <2>6, <2>9, <3>1, <3>2, <3>3, <3>4 DEF Commits
    <2>11. ReadsOK(c0, r)
      <3> SUFFICES ASSUME BarriersOK(c0)
                   PROVE  BarriersOK(c3)
                          /\ (c3.state = Leader => Ids(c3) = Ids(c0) \ succeeds.ready)
        <4> HIDE DEF c3
        <4> QED  BY <2>1 DEF ReadsOK
      <3>1. BarriersOK(c1) /\ (c1.state = Leader => Ids(c1) = Ids(c0))
        BY <1>1 DEF SameReads, BarriersOK, Ids
      <3>2. done = {b \in counted : b.count >= Cardinality(Node) \div 2}
        BY <2>6
      <3> HIDE DEF done, c3
      <3>3. /\ {b.id : b \in counted \ done} = Ids(c1) \ {b.id : b \in done}
            /\ \A a, b \in counted : a.id = b.id => a = b
            /\ \A b \in counted : b.id <= c1.next_read_barrier_id
            /\ counted # {} => c1.state = Leader
        BY <1>1, <3>1, <3>2, CountedReads DEF counted
      <3>4. BarriersOK(c3)
        BY <2>9, <3>3 DEF BarriersOK
      <3>5. Ids(c3) = Ids(c1) \ ready
        BY <2>9, <3>3 DEF Ids
      <3> QED  BY <1>6, <2>9, <3>1, <3>4, <3>5
    <2> QED  BY <1>8, <2>10, <2>11 DEF r
  <1> QED  BY <1>0, <1>7, <1>8

\* Two cores with the same log look the same to the log's operators.
LEMMA SameLogTerms ==
    ASSUME NEW c, NEW d, SameLog(c, d)
    PROVE  /\ last_log_index(d) = last_log_index(c)
           /\ \A i : log_term_at(d, i) = log_term_at(c, i)
           /\ \A i, k : log_slice(d, i, k) = log_slice(c, i, k)
           /\ \A p, e : OverwritePanics(d, p, e) <=> OverwritePanics(c, p, e)
           /\ \A x : valid(d, x) <=> valid(c, x)
  <1>1. last_log_index(d) = last_log_index(c)
    BY DEF SameLog, last_log_index
  <1>2. \A i : log_term_at(d, i) = log_term_at(c, i)
    BY <1>1 DEF SameLog, log_term_at, log_entry_at
  <1>3. \A i, k : log_slice(d, i, k) = log_slice(c, i, k)
    BY DEF SameLog, log_slice
  <1>4. \A p, e : OverwritePanics(d, p, e) <=> OverwritePanics(c, p, e)
    BY DEF SameLog, OverwritePanics
  <1>5. \A x : valid(d, x) <=> valid(c, x)
    BY <1>1, <1>2 DEF valid
  <1> QED  BY <1>1, <1>2, <1>3, <1>4, <1>5

\* Overwrite changes nothing but the log, to something that depends on the
\* log alone.
LEMMA OverwriteSame ==
    ASSUME NEW c \in Core, NEW d \in Core, SameLog(c, d), NEW prev, NEW entries
    PROVE  /\ Overwrite(d, prev, entries).log = Overwrite(c, prev, entries).log
           /\ Overwrite(d, prev, entries) =
                 [d EXCEPT !.log = Overwrite(c, prev, entries).log]
  <1> DEFINE dc == {k \in 1 .. Len(entries) : log_term_at(c, prev + k) # entries[k].term}
             dd == {k \in 1 .. Len(entries) : log_term_at(d, prev + k) # entries[k].term}
             log == SubSeq(c.log, 1, prev + Min(dc) - 1 - c.last_included_index)
                    \o SubSeq(entries, Min(dc), Len(entries))
  <1>1. dd = dc
    BY SameLogTerms, Zenon
  <1>2. Overwrite(c, prev, entries) = IF dc = {} THEN c ELSE [c EXCEPT !.log = log]
    BY Zenon DEF Overwrite
  <1>3. Overwrite(d, prev, entries) = IF dc = {} THEN d ELSE [d EXCEPT !.log = log]
    <2>1. Overwrite(d, prev, entries) =
            IF dd = {} THEN d
            ELSE [d EXCEPT !.log = SubSeq(d.log, 1, prev + Min(dd) - 1 - d.last_included_index)
                                   \o SubSeq(entries, Min(dd), Len(entries))]
      BY Zenon DEF Overwrite
    <2>2. d.log = c.log /\ d.last_included_index = c.last_included_index
      BY DEF SameLog
    <2> HIDE DEF dc, dd
    <2> QED  BY <1>1, <2>1, <2>2, Zenon
  <1> HIDE DEF dc, log
  <1>4. d = [d EXCEPT !.log = d.log] /\ d.log = c.log
    BY DEF Core, SameLog
  <1> QED  BY ZenonT(30), <1>2, <1>3, <1>4 DEF Core

\* The result of handle_append_entries for entries that pass the check.
Accepts(n, c, m, r) ==
    /\ m.term >= c.current_term /\ r.core.current_term = m.term /\ r.core.state = Follower
    /\ c.state = Leader => m.term > c.current_term
    /\ valid(c, m)
    /\ r.core.log = Overwrite(c, m.prev_log_index, m.entries).log
    /\ r.core.last_included_index = c.last_included_index
    /\ r.core.last_included_term = c.last_included_term
    /\ r.core.commit_index =
          IF m.leader_commit > c.commit_index
          THEN min(m.leader_commit, last_log_index(r.core)) ELSE c.commit_index
    /\ r.core.last_applied = r.core.commit_index
    /\ SameReads(c, r.core)
    /\ r.acts.install = None /\ r.acts.ready = {}
    /\ r.acts.log =
          IF m.entries = << >> THEN None
          ELSE [ start_index |-> m.prev_log_index + 1,
                 entries |-> log_slice(r.core, m.prev_log_index + 1,
                                       last_log_index(r.core) + 1) ]
    /\ r.acts.apply = ApplyActions(c.commit_index + 1,
                          log_slice(r.core, c.commit_index + 1, r.core.commit_index + 1))
    /\ r.acts.send = {[ type |-> "AppendEntriesResponse", from |-> n, to |-> m.from,
                        term |-> m.term, success |-> TRUE,
                        match_index |-> last_log_index(r.core),
                        first_conflicting_index |-> None ]}
    /\ r.panic <=> \/ OverwritePanics(c, m.prev_log_index, m.entries)
                   \/ r.core.commit_index < c.commit_index

\* The result of handle_append_entries for entries that do not.
Refuses(n, c, m, r) ==
    /\ Idle(c, r) /\ ~r.panic /\ Answers(n, m, r, "AppendEntriesResponse")
    /\ r.core.current_term >= m.term
    /\ \A x \in r.acts.send :
          /\ x.success = FALSE /\ x.term = r.core.current_term
          /\ x.first_conflicting_index # None =>
                x.term = m.term /\ x.first_conflicting_index \in 1 .. m.prev_log_index

\* handle_append_entries refuses, or takes the entries.
LEMMA AppendEntriesKeeps ==
    ASSUME NEW n \in Node, NEW c0 \in Core, c0.last_applied = c0.commit_index,
           NEW m, MessageOK(m), m.type = "AppendEntries"
    PROVE  LET r == handle_append_entries(n, c0, m)
           IN  Refuses(n, c0, m, r) \/ Accepts(n, c0, m, r)
  <1> DEFINE c1 == check_msg_term(c0, m.term)
             c2 == IF m.term = c1.current_term /\ c1.state = Candidate
                   THEN [c1 EXCEPT !.state = Follower] ELSE c1
             refused == c2.state # Follower \/ m.term < c2.current_term
             c3 == [c2 EXCEPT !.current_leader = m.from]
             c4 == Overwrite(c3, m.prev_log_index, m.entries)
             start == m.prev_log_index + 1
             persist == IF m.entries = << >> THEN None
                        ELSE [ start_index |-> start,
                               entries |-> log_slice(c4, start, last_log_index(c4) + 1) ]
             advance == m.leader_commit > c4.commit_index
             commit == IF advance THEN min(m.leader_commit, last_log_index(c4))
                       ELSE c4.commit_index
             c5 == IF advance
                   THEN [c4 EXCEPT !.commit_index = commit, !.last_applied = commit]
                   ELSE c4
             x(c, success, conflict) ==
                 [ type |-> "AppendEntriesResponse", from |-> n, to |-> m.from,
                   term |-> c1.current_term, success |-> success,
                   match_index |-> last_log_index(c), first_conflicting_index |-> conflict ]
             acts == [NoActions EXCEPT !.meta = StepDownMeta(c0, m.term)]
             refuses(y) == [acts EXCEPT !.send = {y}]
             slice == log_slice(c4, c4.commit_index + 1, commit + 1)
             apply == ApplyActions(c4.commit_index + 1, slice)
             accepts == [acts EXCEPT !.log = persist, !.apply = apply,
                                     !.send = {x(c5, TRUE, None)}]
             conflict == first_conflicting_index(c3, m.prev_log_index)
             bad == \/ OverwritePanics(c3, m.prev_log_index, m.entries)
                    \/ commit < c4.commit_index
             r == handle_append_entries(n, c0, m)
  <1>0. m.from \in Node /\ m.term \in Nat /\ m.prev_log_index \in Nat
        /\ m.prev_log_term \in Nat /\ m.entries \in Seq(Entry) /\ m.leader_commit \in Nat
    BY DEF MessageOK
  <1>1. c1 \in Core /\ SameLog(c0, c1) /\ SameReads(c0, c1)
        /\ c1.current_term >= m.term /\ c1.current_term >= c0.current_term
        /\ (c1.state # Follower => c1 = c0) /\ (m.term <= c0.current_term => c1 = c0)
    BY <1>0, CheckMsgTerm, CheckMsgTermKeeps, CheckMsgTermRole
  <1>2. r = IF refused THEN Returns(c2, refuses(x(c2, FALSE, None)))
            ELSE IF ~valid(c3, m) THEN Returns(c3, refuses(x(c3, FALSE, conflict)))
            ELSE ReturnsUnless(bad, c5, accepts)
    BY Zenon DEF handle_append_entries
  <1>3. c2 \in Core /\ SameLog(c0, c2) /\ SameReads(c0, c2)
        /\ c2.current_term = c1.current_term
        /\ (c2.state = Follower => c1.state # Leader)
    <2> HIDE DEF c1
    <2>1. CASE m.term = c1.current_term /\ c1.state = Candidate
      <3>1. c2 = [c1 EXCEPT !.state = Follower]
        BY <2>1
      <3> HIDE DEF c2
      <3> QED  BY <1>1, <2>1, <3>1 DEF Core, SameLog, SameReads, Follower, Candidate, Leader
    <2>2. CASE ~ (m.term = c1.current_term /\ c1.state = Candidate)
      <3>1. c2 = c1
        BY <2>2
      <3> QED  BY <1>1, <3>1 DEF Follower, Leader
    <2> QED  BY <2>1, <2>2
  <1> HIDE DEF c2
  <1>4. c3 \in Core /\ SameLog(c0, c3) /\ SameReads(c0, c3)
        /\ c3.current_term = c2.current_term /\ c3.state = c2.state
    BY <1>0, <1>3 DEF Core, Option, SameLog, SameReads
  <1> HIDE DEF c3
  <1>5. ASSUME NEW y
        PROVE  /\ refuses(y).log = None /\ refuses(y).install = None
               /\ refuses(y).apply = << >> /\ refuses(y).ready = {}
               /\ refuses(y).send = {y}
    BY DEF NoActions
  <1>6. accepts.log = persist /\ accepts.install = None /\ accepts.apply = apply
        /\ accepts.ready = {} /\ accepts.send = {x(c5, TRUE, None)}
    <2> HIDE DEF persist, apply, c5, x
    <2> QED  BY DEF NoActions
  <1>7. c1.current_term \in Nat /\ c0.current_term \in Nat
    BY <1>1 DEF Core
  <1> HIDE DEF refuses, accepts, r, conflict
  <1>8. ASSUME NEW c, SameLog(c0, c), SameReads(c0, c), c.current_term = c1.current_term,
               NEW i, i # None => c1.current_term = m.term /\ i \in 1 .. m.prev_log_index,
               r = Returns(c, refuses(x(c, FALSE, i)))
        PROVE  Refuses(n, c0, m, r)
    <2>1. r.core = c /\ r.acts = refuses(x(c, FALSE, i))
      BY <1>8 DEF Returns
    <2> DEFINE y == x(c, FALSE, i)
    <2>2. y.type = "AppendEntriesResponse" /\ y.success = FALSE
          /\ y.from = n /\ y.to = m.from
          /\ y.term = c1.current_term /\ y.first_conflicting_index = i
      OBVIOUS
    <2> HIDE DEF x
    <2>3. refuses(y).log = None /\ refuses(y).install = None
          /\ refuses(y).apply = << >> /\ refuses(y).ready = {} /\ refuses(y).send = {y}
      BY <1>5
    <2> HIDE DEF y
    <2>4. r.core = c /\ r.acts = refuses(y)
      BY <2>1 DEF y
    <2>8. ~r.panic
      BY <1>8 DEF Returns
    <2>6. \A z \in r.acts.send : z = y
      BY <2>3, <2>4
    <2>9. Answers(n, m, r, "AppendEntriesResponse")
      BY <2>2, <2>3, <2>4 DEF Answers
    <2>7. Idle(c0, r)
      BY <1>8, <2>3, <2>4 DEF Idle
    <2> HIDE DEF c1
    <2> QED  BY <1>1, <1>8, <2>2, <2>4, <2>6, <2>7, <2>8, <2>9 DEF Refuses
  <1>9. CASE refused
    <2>1. r = Returns(c2, refuses(x(c2, FALSE, None)))
      BY <1>2, <1>9, Zenon
    <2> HIDE DEF x
    <2> HIDE DEF c1
    <2> QED  BY <1>3, <1>8, <2>1 DEF r
  <1>10. CASE ~refused /\ ~valid(c3, m)
    <2>1. r = Returns(c3, refuses(x(c3, FALSE, conflict)))
      BY <1>2, <1>10, Zenon
    <2>2. conflict # None => conflict \in 1 .. m.prev_log_index
      BY <1>0, <1>4, FirstConflictingIndex DEF conflict
    <2> HIDE DEF x, c1
    <2>3. c3.current_term = c1.current_term /\ c1.current_term = m.term
      BY <1>0, <1>1, <1>3, <1>4, <1>7, <1>10
    <2> QED  BY <1>4, <1>8, <2>1, <2>2, <2>3 DEF r
  <1>11. CASE ~refused /\ valid(c3, m)
    <2> DEFINE log == Overwrite(c0, m.prev_log_index, m.entries).log
    <2>1. r.core = c5 /\ r.acts = accepts /\ r.panic = bad
      <3>1. r = ReturnsUnless(bad, c5, accepts)
        BY <1>2, <1>11, Zenon
      <3> HIDE DEF bad, c5
      <3> QED  BY <3>1 DEF ReturnsUnless, Returns
    <2>2. c1.current_term = m.term /\ m.term >= c0.current_term
          /\ (c0.state = Leader => m.term > c0.current_term)
      <3>1. c2.state = Follower /\ ~ (m.term < c2.current_term)
        BY <1>11
      <3>2. c1.state # Leader
        BY <1>3, <3>1
      <3> HIDE DEF c1
      <3> QED  BY <1>0, <1>1, <1>3, <1>7, <3>1, <3>2
    <2>3. c4 = [c3 EXCEPT !.log = log]
      BY <1>4, OverwriteSame
    <2>4. c4.log = log /\ c4.last_included_index = c0.last_included_index
          /\ c4.last_included_term = c0.last_included_term
          /\ c4.commit_index = c0.commit_index /\ c4.last_applied = c0.last_applied
          /\ c4.current_term = c3.current_term /\ c4.state = c3.state /\ SameReads(c0, c4)
      <3> HIDE DEF log, c4
      <3> QED  BY <1>4, <2>3 DEF Core, SameLog, SameReads
    <2>5. c4 = [c4 EXCEPT !.commit_index = c4.commit_index]
          /\ DOMAIN c4 = DOMAIN c3
          /\ "commit_index" \in DOMAIN c4 /\ "last_applied" \in DOMAIN c4
      <3> HIDE DEF log, c4
      <3> QED  BY <1>4, <2>3 DEF Core
    <2>6. c5.log = log /\ c5.last_included_index = c0.last_included_index
          /\ c5.last_included_term = c0.last_included_term
          /\ c5.commit_index = commit /\ c5.last_applied = commit
          /\ c5.current_term = c3.current_term /\ c5.state = c3.state /\ SameReads(c0, c5)
      <3>1. CASE advance
        <4>1. c5 = [c4 EXCEPT !.commit_index = commit, !.last_applied = commit]
          BY <3>1
        <4> HIDE DEF commit, c5, advance, log, c4
        <4> QED  BY <2>4, <2>5, <4>1 DEF SameReads
      <3>2. CASE ~advance
        <4>1. c5 = c4 /\ commit = c4.commit_index
          BY <3>2
        <4> HIDE DEF commit, c5, advance, log, c4
        <4> QED  BY <2>4, <4>1
      <3> QED  BY <3>1, <3>2
    <2> HIDE DEF c5
    <2>7. last_log_index(c5) = last_log_index(c4)
      BY <2>4, <2>6 DEF last_log_index
    <2>8. \A i, k : log_slice(c5, i, k) = log_slice(c4, i, k)
      BY <2>4, <2>6 DEF log_slice
    <2>9. commit = IF m.leader_commit > c0.commit_index
                   THEN min(m.leader_commit, last_log_index(c5)) ELSE c0.commit_index
      <3> HIDE DEF c4
      <3> QED  BY <2>4, <2>7
    <2>10. persist = IF m.entries = << >> THEN None
                     ELSE [ start_index |-> m.prev_log_index + 1,
                            entries |-> log_slice(c5, m.prev_log_index + 1,
                                                  last_log_index(c5) + 1) ]
      <3> HIDE DEF c4
      <3> QED  BY <2>7, <2>8
    <2>11. apply = ApplyActions(c0.commit_index + 1,
                       log_slice(c5, c0.commit_index + 1, commit + 1))
      <3> HIDE DEF c4, commit
      <3> QED  BY <2>4, <2>8
    <2>12. bad <=> \/ OverwritePanics(c0, m.prev_log_index, m.entries)
                   \/ commit < c0.commit_index
      <3> HIDE DEF c4, commit
      <3> QED  BY <1>4, <2>4, SameLogTerms
    <2>13. valid(c0, m) /\ c3.state = Follower /\ c3.current_term = m.term
      BY <1>3, <1>4, <1>11, <2>2, SameLogTerms
    <2>14. x(c5, TRUE, None) =
              [ type |-> "AppendEntriesResponse", from |-> n, to |-> m.from,
                term |-> m.term, success |-> TRUE, match_index |-> last_log_index(c5),
                first_conflicting_index |-> None ]
      <3> HIDE DEF c1
      <3> QED  BY <2>2
    <2> HIDE DEF c1, c4, commit, persist, apply, bad, log, x
    <2>15. Accepts(n, c0, m, r)
      BY <1>6, <2>1, <2>2, <2>6, <2>9, <2>10, <2>11, <2>12, <2>13, <2>14 DEF Accepts, log
    <2> QED  BY <2>15 DEF r
  <1> QED  BY <1>9, <1>10, <1>11

\* What a leader sends to a peer carries its own term.
LEMMA BuildShape ==
    ASSUME NEW n, NEW c, NEW peer
    PROVE  LET x == build_append_entries_for_peer(n, c, peer) IN
           /\ x.type \in {"AppendEntries", "InstallSnapshot"}
           /\ x.from = n /\ x.to = peer /\ x.term = c.current_term
  <1> DEFINE next == IF c.next_index[peer] = None THEN last_log_index(c)
                     ELSE c.next_index[peer]
             prev == IF next > 0 THEN next - 1 ELSE 0
             slice == log_slice(c, next, last_log_index(c) + 1)
             snapshot == install_snapshot_for_peer(n, c, peer)
             entries == [ type |-> "AppendEntries", from |-> n, to |-> peer,
                          term |-> c.current_term,
                          prev_log_index |-> prev, prev_log_term |-> log_term_at(c, prev),
                          entries |-> slice, leader_commit |-> c.commit_index ]
  <1>1. build_append_entries_for_peer(n, c, peer) =
            IF log_term_at(c, prev) = None THEN snapshot ELSE entries
    BY Zenon DEF build_append_entries_for_peer
  <1> HIDE DEF prev, slice
  <1>2. snapshot.type = "InstallSnapshot" /\ snapshot.from = n /\ snapshot.to = peer
        /\ snapshot.term = c.current_term
    BY DEF install_snapshot_for_peer
  <1>3. entries.type = "AppendEntries" /\ entries.from = n /\ entries.to = peer
        /\ entries.term = c.current_term
    OBVIOUS
  <1> HIDE DEF snapshot, entries
  <1> QED  BY <1>1, <1>2, <1>3

LEMMA AppendEntriesShape ==
    ASSUME NEW n, NEW c, NEW x \in append_entries(n, c)
    PROVE  /\ x.type \in {"AppendEntries", "InstallSnapshot"}
           /\ x.from = n /\ x.to # n /\ x.term = c.current_term
  <1>1. PICK p \in Peers(n) : x = build_append_entries_for_peer(n, c, p)
    BY DEF append_entries
  <1> QED  BY <1>1, BuildShape DEF Peers

\* The slice of the log that is applied when the commit moves from a to b.
LEMMA AppliedSlice ==
    ASSUME NEW c \in Core, NEW a \in Nat, NEW b \in Nat, c.last_included_index <= a,
           a <= b, b = a \/ b <= last_log_index(c)
    PROVE  LET apply == ApplyActions(a + 1, log_slice(c, a + 1, b + 1)) IN
           /\ Len(apply) = b - a
           /\ \A i \in a + 1 .. b :
                 /\ i - a \in 1 .. Len(apply) /\ apply[i - a].index = i
                 /\ apply[i - a].command = log_entry_at(c, i).command
           /\ \A k \in 1 .. Len(apply) : a + k \in a + 1 .. b /\ apply[k].index = a + k
  <1> DEFINE lo == a + 1 - c.last_included_index
             hi == min(b + 1 - c.last_included_index - 1, Len(c.log))
             slice == log_slice(c, a + 1, b + 1)
             apply == ApplyActions(a + 1, slice)
  <1>0. c.last_included_index \in Nat /\ c.log \in Seq(Entry) /\ Len(c.log) \in Nat
    BY DEF Core
  <1>1. slice = SubSeq(c.log, lo, hi)
    <2>1. ~ (a + 1 <= c.last_included_index)
      BY <1>0
    <2>2. PICK from, to : from = a + 1 /\ to = b + 1
      OBVIOUS
    <2>3. log_slice(c, from, to) = SubSeq(c.log, from - c.last_included_index,
                                  min(to - c.last_included_index - 1, Len(c.log)))
      <3>1. ~ (from <= c.last_included_index)
        BY <2>1, <2>2
      <3> QED  BY <3>1, Zenon DEF log_slice
    <2>4. lo = from - c.last_included_index
          /\ hi = min(to - c.last_included_index - 1, Len(c.log))
      BY <1>0, <2>2 DEF min
    <2>5. slice = log_slice(c, from, to)
      BY <2>2
    <2> HIDE DEF lo, hi, slice
    <2> QED  BY <2>3, <2>4, <2>5, Zenon
  <1>2. lo \in Int /\ lo >= 1 /\ hi \in Int /\ hi <= Len(c.log)
        /\ (b > a => hi = b - c.last_included_index) /\ (b = a => hi < lo)
    <2>1. lo \in Int /\ lo >= 1 /\ hi \in Int /\ hi <= Len(c.log)
          /\ hi <= b - c.last_included_index
      BY <1>0 DEF min
    <2>2. b > a => b - c.last_included_index <= Len(c.log)
      BY <1>0 DEF last_log_index
    <2>3. b > a => hi = b - c.last_included_index
      BY <1>0, <2>2 DEF min
    <2> QED  BY <1>0, <2>1, <2>3
  <1>3. Len(slice) = b - a /\ \A k \in 1 .. b - a : slice[k] = c.log[lo + k - 1]
    <2> HIDE DEF slice
    <2>1. CASE b = a
      <3> HIDE DEF lo, hi
      <3>1. slice = << >>
        BY <1>0, <1>1, <1>2, <2>1, SubSeqEmpty
      <3> QED  BY <2>1, <3>1
    <2>2. CASE b > a
      <3>1. hi - lo + 1 = b - a /\ lo <= hi
        BY <1>0, <1>2, <2>2
      <3> HIDE DEF lo, hi
      <3>2. \A i \in lo .. hi : c.log[i] \in Entry
        BY <1>0, <1>2
      <3>3. Len(SubSeq(c.log, lo, hi)) = hi - lo + 1
            /\ \A k \in 1 .. hi - lo + 1 : SubSeq(c.log, lo, hi)[k] = c.log[lo + k - 1]
        BY <1>2, <3>1, <3>2, SubSeqProperties
      <3> QED  BY <1>1, <3>1, <3>3
    <2> QED  BY <2>1, <2>2
  <1> HIDE DEF slice, hi
  <1>4. Len(apply) = b - a /\ \A k \in 1 .. b - a :
            apply[k] = [index |-> a + 1 + k - 1, command |-> slice[k].command]
    BY <1>3 DEF ApplyActions
  <1>5. ASSUME NEW i \in a + 1 .. b
        PROVE  i - a \in 1 .. b - a /\ apply[i - a].index = i
               /\ apply[i - a].command = log_entry_at(c, i).command
    <2>1. i - a \in 1 .. b - a /\ a + 1 + (i - a) - 1 = i
          /\ lo + (i - a) - 1 = i - c.last_included_index
      BY <1>0
    <2>2. apply[i - a] = [index |-> a + 1 + (i - a) - 1, command |-> slice[i - a].command]
          /\ slice[i - a] = c.log[lo + (i - a) - 1]
      BY <1>3, <1>4, <2>1
    <2>3. log_entry_at(c, i) = c.log[i - c.last_included_index]
      BY <1>0, LastLogIndex DEF log_entry_at
    <2> HIDE DEF apply, lo
    <2> QED  BY <2>1, <2>2, <2>3
  <1>6. ASSUME NEW k \in 1 .. b - a PROVE a + k \in a + 1 .. b /\ apply[k].index = a + k
    <2>1. a + k \in a + 1 .. b /\ a + 1 + k - 1 = a + k
      OBVIOUS
    <2>2. apply[k] = [index |-> a + 1 + k - 1, command |-> slice[k].command]
      BY <1>4
    <2> HIDE DEF apply
    <2> QED  BY <2>1, <2>2
  <1> HIDE DEF apply
  <1> QED  BY <1>4, <1>5, <1>6 DEF apply, slice

=============================================================================
