--------------------------- MODULE KvNode_proofs ----------------------------
(***************************************************************************)
(* Theorems about KvNode, for all sets of clients, keys and values and all *)
(* bounds: type correctness, what the apply task makes of its channel,     *)
(* what snapshots hold, when reads are released, what answers mean.        *)
(***************************************************************************)
EXTENDS KvNode, FiniteSetTheorems, SequenceTheorems, WellFoundedInduction, TLAPS

-----------------------------------------------------------------------------
(***************************************************************************)
(* Naturals.                                                               *)
(***************************************************************************)
LEMMA ConstantsOK ==
    /\ IsFiniteSet(Client) /\ None \notin Client /\ None \notin Value /\ None \notin Int
    /\ None # [ok |-> TRUE]
    /\ N \in Nat /\ Pod \in Nat /\ MaxNodeId \in Nat /\ MaxLog \in Nat /\ MaxTerms \in Nat
    /\ Pod < N /\ N <= MaxNodeId
    /\ CHANNEL_BUFFER \in Nat /\ CHANNEL_BUFFER >= 1
    /\ SnapshotThreshold \in Nat /\ SnapshotThreshold >= 1
  BY KvAssumption

LEMMA LeastNat ==
    ASSUME NEW S, S \subseteq Nat, S # {}
    PROVE  \E x \in S : \A y \in S : x <= y
<1>1. \E x \in S : \A y \in S : ~ (<<y, x>> \in OpToRel(<, Nat))
  BY NatLessThanWellFounded, WFMin, Zenon
<1>2. PICK x \in S : \A y \in S : ~ (<<y, x>> \in OpToRel(<, Nat))
  BY <1>1
<1>3. ASSUME NEW y \in S PROVE x <= y
  <2>1. <<y, x>> \in Nat \X Nat /\ <<y, x>>[1] = y /\ <<y, x>>[2] = x
    OBVIOUS
  <2>2. ~ (y < x)
    BY <1>2, <2>1, Zenon DEF OpToRel
  <2> QED  BY <2>2
<1> QED  BY <1>3

\* Induction, for a set of naturals.
LEMMA AllUpTo ==
    ASSUME NEW n \in Nat, NEW S, 0 \in S,
           \A k \in 0 .. n : k + 1 <= n /\ k \in S => k + 1 \in S
    PROVE  \A k \in 0 .. n : k \in S
<1> DEFINE B == {k \in 0 .. n : k \notin S}
<1> SUFFICES ASSUME B # {} PROVE FALSE
  OBVIOUS
<1>1. B \subseteq Nat
  OBVIOUS
<1>2. PICK m \in B : \A y \in B : m <= y
  BY <1>1, LeastNat
<1>3. m \in 0 .. n /\ m \notin S /\ m # 0
  OBVIOUS
<1>4. PICK k \in 0 .. n : m = k + 1
  <2>1. m - 1 \in 0 .. n /\ m = (m - 1) + 1
    BY <1>3
  <2> QED  BY <2>1
<1>5. k \notin B
  BY <1>2, <1>4
<1> QED  BY <1>3, <1>4, <1>5

LEMMA MaxOf ==
    ASSUME NEW k \in Nat, NEW s, s \subseteq 1 .. k, s # {}
    PROVE  /\ Max(s) \in s /\ \A y \in s : y <= Max(s)
           /\ k # 0 /\ s \ {Max(s)} \subseteq 1 .. k - 1
<1> DEFINE T == {x \in Nat : k - x \in s}
<1>1. PICK z \in s : z \in 1 .. k
  OBVIOUS
<1>2. k - z \in T
  BY <1>1
<1>3. PICK t \in T : \A y \in T : t <= y
  BY <1>2, LeastNat
<1>4. k - t \in s /\ \A y \in s : y <= k - t
  <2>1. ASSUME NEW y \in s PROVE y <= k - t
    <3>1. y \in 1 .. k /\ k - y \in Nat /\ k - (k - y) = y
      OBVIOUS
    <3>2. k - y \in T
      BY <3>1
    <3>3. t <= k - y
      BY <3>2, <1>3
    <3> QED  BY <3>1, <3>3
  <2> QED  BY <2>1
<1>5. Max(s) \in s /\ \A y \in s : y <= Max(s)
  BY <1>4 DEF Max
<1>6. ASSUME NEW y \in s, y # Max(s) PROVE y \in 1 .. k - 1
  <2>1. y <= Max(s) /\ Max(s) \in 1 .. k /\ y \in 1 .. k
    BY <1>5
  <2> QED  BY <2>1, <1>6
<1>7. k # 0
  BY <1>1
<1> QED  BY <1>5, <1>6, <1>7

LEMMA MaxUpTo ==
    ASSUME NEW k \in Nat \ {0}
    PROVE  Max(1 .. k) = k /\ (1 .. k) \ {k} = 1 .. k - 1 /\ 1 .. k # {}
<1>1. k \in 1 .. k /\ 1 .. k # {}
  OBVIOUS
<1>2. Max(1 .. k) \in 1 .. k /\ \A y \in 1 .. k : y <= Max(1 .. k)
  BY <1>1, MaxOf
<1>3. Max(1 .. k) = k
  BY <1>1, <1>2
<1>4. (1 .. k) \ {k} = 1 .. k - 1
  OBVIOUS
<1> QED  BY <1>1, <1>3, <1>4

-----------------------------------------------------------------------------
(***************************************************************************)
(* Folds.  The function that FoldLeft chooses exists, and gives the result *)
(* after each element.                                                     *)
(***************************************************************************)
Iteration(it, n, V, base, G) ==
    /\ it \in [SUBSET (1 .. n) -> V]
    /\ \A s \in SUBSET (1 .. n) :
          it[s] = IF s = {} THEN base ELSE G[<<Max(s), it[s \ {Max(s)}]>>]

LEMMA IterationExists ==
    ASSUME NEW n \in Nat, NEW V, NEW base \in V, NEW G,
           \A i \in 1 .. n, v \in V : G[<<i, v>>] \in V
    PROVE  \E it : Iteration(it, n, V, base, G)
<1> DEFINE Good(k, it) ==
              /\ it \in [SUBSET (1 .. k) -> V]
              /\ \A s \in SUBSET (1 .. k) :
                    it[s] = IF s = {} THEN base ELSE G[<<Max(s), it[s \ {Max(s)}]>>]
           S == {k \in 0 .. n : \E it : Good(k, it)}
<1>1. 0 \in S
  <2> DEFINE it == [s \in SUBSET (1 .. 0) |-> base]
  <2>1. \A s \in SUBSET (1 .. 0) : s = {}
    OBVIOUS
  <2>2. Good(0, it)
    BY <2>1
  <2>3. 0 \in 0 .. n
    OBVIOUS
  <2> HIDE DEF Good, it
  <2> QED  BY <2>2, <2>3
<1>2. ASSUME NEW k \in 0 .. n, k + 1 <= n, k \in S
      PROVE  k + 1 \in S
  <2>1. PICK f : Good(k, f)
    BY <1>2
  <2> DEFINE it == [s \in SUBSET (1 .. k + 1) |->
                       IF s = {} THEN base ELSE G[<<Max(s), f[s \ {Max(s)}]>>]]
  <2>2. k + 1 \in Nat /\ (k + 1) - 1 = k /\ k + 1 \in 0 .. n
    BY <1>2
  <2>3. ASSUME NEW s \in SUBSET (1 .. k + 1), s # {}
        PROVE  Max(s) \in 1 .. n /\ s \ {Max(s)} \in SUBSET (1 .. k)
    <3>1. Max(s) \in s /\ s \ {Max(s)} \subseteq 1 .. (k + 1) - 1
      BY <2>2, <2>3, MaxOf
    <3>2. Max(s) \in 1 .. k + 1
      BY <3>1, <2>3
    <3> QED  BY <3>1, <3>2, <2>2, <1>2
  <2>4. ASSUME NEW s \in SUBSET (1 .. k + 1)
        PROVE  it[s] \in V
    <3>1. CASE s = {}
      BY <3>1
    <3>2. CASE s # {}
      <4>1. f[s \ {Max(s)}] \in V
        BY <2>1, <2>3, <3>2
      <4>2. G[<<Max(s), f[s \ {Max(s)}]>>] \in V
        BY <4>1, <2>3, <3>2
      <4> QED  BY <4>2, <3>2
    <3> QED  BY <3>1, <3>2
  <2>5. it \in [SUBSET (1 .. k + 1) -> V]
    BY <2>4
  <2>6. ASSUME NEW t \in SUBSET (1 .. k)
        PROVE  it[t] = f[t]
    <3>1. t \in SUBSET (1 .. k + 1)
      BY <2>2
    <3>2. f[t] = IF t = {} THEN base ELSE G[<<Max(t), f[t \ {Max(t)}]>>]
      BY <2>1
    <3> QED  BY <3>1, <3>2
  <2>7. ASSUME NEW s \in SUBSET (1 .. k + 1)
        PROVE  it[s] = IF s = {} THEN base ELSE G[<<Max(s), it[s \ {Max(s)}]>>]
    <3>1. it[s] = IF s = {} THEN base ELSE G[<<Max(s), f[s \ {Max(s)}]>>]
      OBVIOUS
    <3>2. s # {} => it[s \ {Max(s)}] = f[s \ {Max(s)}]
      BY <2>3, <2>6
    <3> HIDE DEF it
    <3> QED  BY <3>1, <3>2
  <2> HIDE DEF it
  <2>8. Good(k + 1, it)
    BY <2>5, <2>7
  <2> HIDE DEF Good
  <2> QED  BY <2>2, <2>8
<1> HIDE DEF Good, S
<1>3. \A k \in 0 .. n : k \in S
  BY <1>1, <1>2, AllUpTo
<1>4. n \in S
  BY <1>3
<1>5. PICK it : Good(n, it)
  BY <1>4 DEF S
<1> QED  BY <1>5 DEF Good, Iteration

\* Two runs that start alike and go on alike are alike.
GoOnAlike(r, q, j, n) == \A k \in 1 .. n : r[k - 1] = q[j + k - 1] => r[k] = q[j + k]
Alike(r, q, j, n) == \A k \in 0 .. n : r[k] = q[j + k]

LEMMA SameRuns ==
    ASSUME NEW n \in Nat, NEW r, NEW q, NEW j \in Nat, r[0] = q[j], GoOnAlike(r, q, j, n)
    PROVE  Alike(r, q, j, n)
<1> DEFINE S == {k \in 0 .. n : r[k] = q[j + k]}
<1>1. 0 \in S
  OBVIOUS
<1>2. ASSUME NEW k \in 0 .. n, k + 1 <= n, k \in S
      PROVE  k + 1 \in S
  <2>1. k + 1 \in 1 .. n /\ (k + 1) - 1 = k /\ j + (k + 1) - 1 = j + k /\ k + 1 \in 0 .. n
    BY <1>2
  <2>2. r[(k + 1) - 1] = q[j + (k + 1) - 1]
    BY <2>1, <1>2
  <2>3. r[k + 1] = q[j + (k + 1)]
    BY <2>1, <2>2 DEF GoOnAlike
  <2> QED  BY <2>1, <2>3
<1> HIDE DEF S
<1>3. \A k \in 0 .. n : k \in S
  BY <1>1, <1>2, AllUpTo
<1> QED  BY <1>3 DEF S, Alike

Command == KvCommand \cup {[op |-> "Noop"]}
Entry == [command : Command, client : Client \cup {None}]
CommandItem == [type : {"Command"}, command : Command, index : Nat]
SnapshotItem == [type : {"Snapshot"}, data : Map, index : Nat]
RequestItem == [type : {"SnapshotRequest"}]
Item == CommandItem \cup SnapshotItem \cup RequestItem

LEMMA EffectType ==
    ASSUME NEW map \in Map, NEW command \in Command
    PROVE  /\ Effect(map, command) \in Map
           /\ command = [op |-> "Noop"] => Effect(map, command) = map
<1>1. CASE command \in [op : {"Set"}, key : Key, value : Value]
  BY <1>1 DEF Effect, Map
<1>2. CASE command \in [op : {"Delete"}, key : Key]
  BY <1>2 DEF Effect, Map
<1>3. CASE command = [op |-> "Noop"]
  BY <1>3 DEF Effect, Map
<1> QED  BY <1>1, <1>2, <1>3 DEF Command, KvCommand

LEMMA ReplayIs ==
    ASSUME NEW map \in Map, NEW item \in Item
    PROVE  /\ Replay(map, item) \in Map
           /\ item.type = "Command" => Replay(map, item) = Effect(map, item.command)
           /\ item.type = "Snapshot" => Replay(map, item) = item.data
           /\ item.type = "SnapshotRequest" => Replay(map, item) = map
<1>1. CASE item \in CommandItem
  <2>1. item.type = "Command" /\ item.command \in Command
    BY <1>1 DEF CommandItem
  <2>2. Effect(map, item.command) \in Map
    BY <2>1, EffectType
  <2> QED  BY <2>1, <2>2 DEF Replay
<1>2. CASE item \in SnapshotItem
  BY <1>2 DEF Replay, SnapshotItem
<1>3. CASE item \in RequestItem
  BY <1>3 DEF Replay, RequestItem
<1> QED  BY <1>1, <1>2, <1>3 DEF Item

\* What the apply task makes of a map and a channel.
Play(map, items) == FoldLeft(Replay, map, items)

PlayIterates(it, map, items) ==
    it = [s \in SUBSET DOMAIN items |->
             IF s = {} THEN map ELSE Replay(it[s \ {Max(s)}], items[Max(s)])]

AfterIterates(it, map, entries) ==
    it = [s \in SUBSET DOMAIN entries |->
             IF s = {} THEN map ELSE Effect(it[s \ {Max(s)}], entries[Max(s)].command)]

LEMMA PlayIs ==
    ASSUME NEW map, NEW items
    PROVE  Play(map, items) = (CHOOSE it : PlayIterates(it, map, items))[DOMAIN items]
  BY DEF Play, FoldLeft, MapThenFoldSet, PlayIterates

LEMMA AfterIs ==
    ASSUME NEW map, NEW entries
    PROVE  After(map, entries) = (CHOOSE it : AfterIterates(it, map, entries))[DOMAIN entries]
  BY DEF After, FoldLeft, MapThenFoldSet, AfterIterates

LEMMA EmptyType == Empty \in Map
  BY DEF Empty, Map

\* Since, of any log l.
Upto(b, l, i) == After(b.data, SubSeq(l, b.index + 1, i))

LEMMA SinceIs == \A b, i : Since(b, i) = Upto(b, chosen, i)
  BY DEF Since, Upto

PlayRun(r, map, items) ==
    /\ r \in [0 .. Len(items) -> Map]
    /\ r[0] = map
    /\ \A k \in 1 .. Len(items) : r[k] = Replay(r[k - 1], items[k])

AfterRun(r, map, entries) ==
    /\ r \in [0 .. Len(entries) -> Map]
    /\ r[0] = map
    /\ \A k \in 1 .. Len(entries) : r[k] = Effect(r[k - 1], entries[k].command)

\* One map after the other, as the apply task works off its channel.
LEMMA PlayRuns ==
    ASSUME NEW map \in Map, NEW items \in Seq(Item)
    PROVE  \E r : PlayRun(r, map, items) /\ Play(map, items) = r[Len(items)]
<1> DEFINE n == Len(items)
           G == [p \in (1 .. n) \X Map |-> Replay(p[2], items[p[1]])]
<1>1. n \in Nat /\ DOMAIN items = 1 .. n /\ \A i \in 1 .. n : items[i] \in Item
  OBVIOUS
<1> HIDE DEF n
<1>2. \A i \in 1 .. n, v \in Map : G[<<i, v>>] = Replay(v, items[i]) /\ G[<<i, v>>] \in Map
  BY <1>1, ReplayIs
<1> HIDE DEF G
<1>3. PICK it \in [SUBSET (1 .. n) -> Map] :
         \A s \in SUBSET (1 .. n) :
            it[s] = IF s = {} THEN map ELSE G[<<Max(s), it[s \ {Max(s)}]>>]
  <2>1. n \in Nat /\ map \in Map
    BY <1>1, EmptyType
  <2>2. \A i \in 1 .. n, v \in Map : G[<<i, v>>] \in Map
    BY <1>2
  <2>3. PICK it : Iteration(it, n, Map, map, G)
    BY <2>1, <2>2, IterationExists
  <2> QED  BY <2>3 DEF Iteration
<1>4. ASSUME NEW s \in SUBSET (1 .. n)
      PROVE  it[s] = IF s = {} THEN map ELSE Replay(it[s \ {Max(s)}], items[Max(s)])
  <2>1. CASE s = {}
    BY <2>1, <1>3
  <2>2. CASE s # {}
    <3>1. Max(s) \in 1 .. n /\ s \ {Max(s)} \in SUBSET (1 .. n)
      BY <1>1, <2>2, MaxOf
    <3>2. it[s \ {Max(s)}] \in Map
      BY <3>1, <1>3
    <3> QED  BY <3>1, <3>2, <2>2, <1>2, <1>3
  <2> QED  BY <2>1, <2>2
<1>5. PlayIterates(it, map, items)
  BY <1>1, <1>4 DEF PlayIterates
<1>6. PICK c : PlayIterates(c, map, items) /\ Play(map, items) = c[1 .. n]
  <2> DEFINE c == CHOOSE f : PlayIterates(f, map, items)
  <2>1. PlayIterates(c, map, items)
    BY <1>5
  <2>2. Play(map, items) = c[1 .. n]
    BY <1>1, PlayIs
  <2> QED  BY <2>1, <2>2
<1>7. \A s \in SUBSET (1 .. n) :
         c[s] = IF s = {} THEN map ELSE Replay(c[s \ {Max(s)}], items[Max(s)])
  BY <1>1, <1>6 DEF PlayIterates
<1> DEFINE r == [k \in 0 .. n |-> c[1 .. k]]
<1>8. r[0] = map
  <2>1. 1 .. 0 = {} /\ 0 \in 0 .. n /\ {} \in SUBSET (1 .. n)
    BY <1>1
  <2> QED  BY <2>1, <1>7
<1>9. ASSUME NEW k \in 1 .. n PROVE r[k] = Replay(r[k - 1], items[k])
  <2>1. k \in Nat \ {0} /\ k \in 0 .. n /\ k - 1 \in 0 .. n /\ 1 .. k \in SUBSET (1 .. n)
    BY <1>1
  <2>2. Max(1 .. k) = k /\ (1 .. k) \ {k} = 1 .. k - 1 /\ 1 .. k # {}
    BY <2>1, MaxUpTo
  <2>3. c[1 .. k] = Replay(c[1 .. k - 1], items[k])
    BY <2>1, <2>2, <1>7
  <2> QED  BY <2>1, <2>3
<1>10. r[n] = Play(map, items)
  BY <1>1, <1>6
<1>11. DOMAIN r = 0 .. n
  OBVIOUS
<1> HIDE DEF r
<1>12. \A k \in 0 .. n : r[k] \in Map
  <2> DEFINE S == {k \in 0 .. n : r[k] \in Map}
  <2>1. 0 \in S
    BY <1>1, <1>8
  <2>2. ASSUME NEW k \in 0 .. n, k + 1 <= n, k \in S PROVE k + 1 \in S
    <3>1. k + 1 \in 1 .. n /\ (k + 1) - 1 = k /\ k + 1 \in 0 .. n
      BY <2>2, <1>1
    <3>2. r[k + 1] = Replay(r[k], items[k + 1])
      BY <3>1, <1>9
    <3> QED  BY <3>1, <3>2, <2>2, <1>1, ReplayIs
  <2> HIDE DEF S
  <2>3. \A k \in 0 .. n : k \in S
    BY <1>1, <2>1, <2>2, AllUpTo
  <2> QED  BY <2>3 DEF S
<1>13. r \in [0 .. n -> Map]
  <2>1. r = [k \in 0 .. n |-> r[k]]
    BY DEF r
  <2> QED  BY <1>12, <2>1
<1> QED  BY <1>8, <1>9, <1>10, <1>13 DEF n, PlayRun

\* One state after the other, entry by entry.
LEMMA AfterRuns ==
    ASSUME NEW map \in Map, NEW entries \in Seq(Entry)
    PROVE  \E r : AfterRun(r, map, entries) /\ After(map, entries) = r[Len(entries)]
<1> DEFINE n == Len(entries)
           G == [p \in (1 .. n) \X Map |-> Effect(p[2], entries[p[1]].command)]
<1>1. /\ n \in Nat /\ DOMAIN entries = 1 .. n
      /\ \A i \in 1 .. n : entries[i] \in Entry /\ entries[i].command \in Command
  <2>1. n \in Nat /\ DOMAIN entries = 1 .. n /\ \A i \in 1 .. n : entries[i] \in Entry
    OBVIOUS
  <2>2. \A e \in Entry : e.command \in Command
    BY DEF Entry
  <2> QED  BY <2>1, <2>2
<1> HIDE DEF n
<1>2. \A i \in 1 .. n, v \in Map : G[<<i, v>>] = Effect(v, entries[i].command) /\ G[<<i, v>>] \in Map
  BY <1>1, EffectType
<1> HIDE DEF G
<1>3. PICK it \in [SUBSET (1 .. n) -> Map] :
         \A s \in SUBSET (1 .. n) :
            it[s] = IF s = {} THEN map ELSE G[<<Max(s), it[s \ {Max(s)}]>>]
  <2>1. n \in Nat /\ map \in Map
    BY <1>1
  <2>2. \A i \in 1 .. n, v \in Map : G[<<i, v>>] \in Map
    BY <1>2
  <2>3. PICK it : Iteration(it, n, Map, map, G)
    BY <2>1, <2>2, IterationExists
  <2> QED  BY <2>3 DEF Iteration
<1>4. ASSUME NEW s \in SUBSET (1 .. n)
      PROVE  it[s] = IF s = {} THEN map ELSE Effect(it[s \ {Max(s)}], entries[Max(s)].command)
  <2>1. CASE s = {}
    BY <2>1, <1>3
  <2>2. CASE s # {}
    <3>1. Max(s) \in 1 .. n /\ s \ {Max(s)} \in SUBSET (1 .. n)
      BY <1>1, <2>2, MaxOf
    <3>2. it[s \ {Max(s)}] \in Map
      BY <3>1, <1>3
    <3> QED  BY <3>1, <3>2, <2>2, <1>2, <1>3
  <2> QED  BY <2>1, <2>2
<1>5. AfterIterates(it, map, entries)
  BY <1>1, <1>4 DEF AfterIterates
<1>6. PICK c : AfterIterates(c, map, entries) /\ After(map, entries) = c[1 .. n]
  <2> DEFINE c == CHOOSE f : AfterIterates(f, map, entries)
  <2>1. AfterIterates(c, map, entries)
    BY <1>5
  <2>2. After(map, entries) = c[1 .. n]
    BY <1>1, AfterIs
  <2> QED  BY <2>1, <2>2
<1>7. \A s \in SUBSET (1 .. n) :
         c[s] = IF s = {} THEN map ELSE Effect(c[s \ {Max(s)}], entries[Max(s)].command)
  BY <1>1, <1>6 DEF AfterIterates
<1> DEFINE r == [k \in 0 .. n |-> c[1 .. k]]
<1>8. r[0] = map
  <2>1. 1 .. 0 = {} /\ 0 \in 0 .. n /\ {} \in SUBSET (1 .. n)
    BY <1>1
  <2> QED  BY <2>1, <1>7
<1>9. ASSUME NEW k \in 1 .. n PROVE r[k] = Effect(r[k - 1], entries[k].command)
  <2>1. k \in Nat \ {0} /\ k \in 0 .. n /\ k - 1 \in 0 .. n /\ 1 .. k \in SUBSET (1 .. n)
    BY <1>1
  <2>2. Max(1 .. k) = k /\ (1 .. k) \ {k} = 1 .. k - 1 /\ 1 .. k # {}
    BY <2>1, MaxUpTo
  <2>3. c[1 .. k] = Effect(c[1 .. k - 1], entries[k].command)
    BY <2>1, <2>2, <1>7
  <2> QED  BY <2>1, <2>3
<1>10. r[n] = After(map, entries)
  BY <1>1, <1>6
<1>11. DOMAIN r = 0 .. n
  OBVIOUS
<1> HIDE DEF r
<1>12. \A k \in 0 .. n : r[k] \in Map
  <2> DEFINE S == {k \in 0 .. n : r[k] \in Map}
  <2>1. 0 \in S
    BY <1>1, <1>8
  <2>2. ASSUME NEW k \in 0 .. n, k + 1 <= n, k \in S PROVE k + 1 \in S
    <3>1. k + 1 \in 1 .. n /\ (k + 1) - 1 = k /\ k + 1 \in 0 .. n
      BY <2>2, <1>1
    <3>2. r[k + 1] = Effect(r[k], entries[k + 1].command)
      BY <3>1, <1>9
    <3> QED  BY <3>1, <3>2, <2>2, <1>1, EffectType
  <2> HIDE DEF S
  <2>3. \A k \in 0 .. n : k \in S
    BY <1>1, <2>1, <2>2, AllUpTo
  <2> QED  BY <2>3 DEF S
<1>13. r \in [0 .. n -> Map]
  <2>1. r = [k \in 0 .. n |-> r[k]]
    BY DEF r
  <2> QED  BY <1>12, <2>1
<1> QED  BY <1>8, <1>9, <1>10, <1>13 DEF n, AfterRun

LEMMA PlayType ==
    ASSUME NEW map \in Map, NEW items \in Seq(Item)
    PROVE  Play(map, items) \in Map
<1>1. Len(items) \in 0 .. Len(items)
  OBVIOUS
<1> QED  BY <1>1, PlayRuns DEF PlayRun

LEMMA AfterType ==
    ASSUME NEW map \in Map, NEW entries \in Seq(Entry)
    PROVE  After(map, entries) \in Map
<1>1. Len(entries) \in 0 .. Len(entries)
  OBVIOUS
<1> QED  BY <1>1, AfterRuns DEF AfterRun

LEMMA AfterNothing ==
    ASSUME NEW map \in Map
    PROVE  After(map, << >>) = map
<1>1. << >> \in Seq(Entry) /\ Len(<< >>) = 0
  OBVIOUS
<1>2. PICK r : AfterRun(r, map, << >>) /\ After(map, << >>) = r[Len(<< >>)]
  BY <1>1, AfterRuns
<1> QED  BY <1>1, <1>2 DEF AfterRun

LEMMA PlayNothing ==
    ASSUME NEW map \in Map
    PROVE  Play(map, << >>) = map
<1>1. << >> \in Seq(Item) /\ Len(<< >>) = 0
  OBVIOUS
<1>2. PICK r : PlayRun(r, map, << >>) /\ Play(map, << >>) = r[Len(<< >>)]
  BY <1>1, PlayRuns
<1> QED  BY <1>1, <1>2 DEF PlayRun

\* The event loop puts an item on the channel.
LEMMA PlayAppend ==
    ASSUME NEW map \in Map, NEW items \in Seq(Item), NEW item \in Item
    PROVE  Play(map, Append(items, item)) = Replay(Play(map, items), item)
<1> DEFINE n == Len(items)
           all == Append(items, item)
<1>1. /\ n \in Nat /\ all \in Seq(Item) /\ Len(all) = n + 1 /\ all[n + 1] = item
      /\ \A k \in 1 .. n : all[k] = items[k]
  OBVIOUS
<1> HIDE DEF all
<1>2. PICK r : /\ r[0] = map /\ Play(map, items) = r[n]
               /\ \A k \in 1 .. n : r[k] = Replay(r[k - 1], items[k])
  <2>1. PICK r : PlayRun(r, map, items) /\ Play(map, items) = r[Len(items)]
    BY PlayRuns
  <2> QED  BY <2>1 DEF PlayRun
<1> HIDE DEF n
<1>3. PICK q : /\ q[0] = map /\ Play(map, all) = q[n + 1]
               /\ \A k \in 1 .. n + 1 : q[k] = Replay(q[k - 1], all[k])
  <2>1. PICK q : PlayRun(q, map, all) /\ Play(map, all) = q[Len(all)]
    BY <1>1, PlayRuns
  <2> QED  BY <2>1, <1>1 DEF PlayRun
<1>4. \A k \in 0 .. n : r[k] = q[0 + k]
  <2>1. GoOnAlike(r, q, 0, n)
    <3> SUFFICES ASSUME NEW k \in 1 .. n, r[k - 1] = q[0 + k - 1] PROVE r[k] = q[0 + k]
      BY DEF GoOnAlike
    <3>1. k \in 1 .. n + 1 /\ 0 + k - 1 = k - 1 /\ 0 + k = k
      BY <1>1
    <3> QED  BY <3>1, <1>1, <1>2, <1>3
  <2>2. r[0] = q[0] /\ 0 \in Nat
    BY <1>2, <1>3
  <2>3. Alike(r, q, 0, n)
    BY <2>1, <2>2, <1>1, SameRuns
  <2> QED  BY <2>3 DEF Alike
<1>5. n \in 0 .. n /\ 0 + n = n /\ n + 1 \in 1 .. n + 1 /\ (n + 1) - 1 = n
  BY <1>1
<1>6. r[n] = q[n]
  BY <1>4, <1>5
<1>7. q[n + 1] = Replay(q[n], item)
  BY <1>1, <1>3, <1>5
<1> QED  BY <1>2, <1>3, <1>6, <1>7 DEF all

\* The apply task takes an item off the channel.
LEMMA PlayTail ==
    ASSUME NEW map \in Map, NEW items \in Seq(Item), items # << >>
    PROVE  Play(Replay(map, Head(items)), Tail(items)) = Play(map, items)
<1> DEFINE n == Len(items)
           t == Tail(items)
           first == Replay(map, Head(items))
<1>1. /\ n \in Nat /\ n >= 1 /\ t \in Seq(Item) /\ Len(t) = n - 1 /\ n - 1 \in Nat
      /\ Head(items) \in Item /\ Head(items) = items[1]
      /\ \A k \in 1 .. n - 1 : t[k] = items[k + 1]
  OBVIOUS
<1>2. first \in Map
  BY <1>1, ReplayIs
<1>3. PICK q : /\ q[0] = map /\ Play(map, items) = q[n]
               /\ \A k \in 1 .. n : q[k] = Replay(q[k - 1], items[k])
  <2>1. PICK q : PlayRun(q, map, items) /\ Play(map, items) = q[Len(items)]
    BY PlayRuns
  <2> QED  BY <2>1 DEF PlayRun
<1> HIDE DEF t, n
<1>4. first = q[1]
  <2>1. 1 \in 1 .. n /\ 1 - 1 = 0
    BY <1>1
  <2> QED  BY <2>1, <1>1, <1>3
<1> HIDE DEF first
<1>5. PICK r : /\ r[0] = first /\ Play(first, t) = r[n - 1]
               /\ \A k \in 1 .. n - 1 : r[k] = Replay(r[k - 1], t[k])
  <2>1. PICK r : PlayRun(r, first, t) /\ Play(first, t) = r[Len(t)]
    BY <1>1, <1>2, PlayRuns
  <2> QED  BY <2>1, <1>1 DEF PlayRun
<1>6. \A k \in 0 .. n - 1 : r[k] = q[1 + k]
  <2>1. GoOnAlike(r, q, 1, n - 1)
    <3> SUFFICES ASSUME NEW k \in 1 .. n - 1, r[k - 1] = q[1 + k - 1] PROVE r[k] = q[1 + k]
      BY DEF GoOnAlike
    <3>1. PICK m \in 1 .. n : m = 1 + k /\ m = k + 1
      <4>1. 1 + k \in 1 .. n /\ 1 + k = k + 1
        BY <1>1
      <4> QED  BY <4>1
    <3>2. 1 + k - 1 = m - 1
      BY <3>1, <1>1
    <3>3. q[m] = Replay(q[m - 1], items[m])
      BY <1>3
    <3>4. r[k] = Replay(r[k - 1], items[m])
      BY <1>1, <1>5, <3>1
    <3>5. r[k - 1] = q[m - 1]
      BY <3>2
    <3>6. r[k] = q[m]
      BY <3>3, <3>4, <3>5
    <3> QED  BY <3>1, <3>6
  <2>2. r[0] = q[1] /\ 1 \in Nat
    BY <1>4, <1>5
  <2>3. Alike(r, q, 1, n - 1)
    BY <2>1, <2>2, <1>1, SameRuns
  <2> QED  BY <2>3 DEF Alike
<1>7. n - 1 \in 0 .. n - 1 /\ 1 + (n - 1) = n
  BY <1>1
<1>8. r[n - 1] = q[n]
  BY <1>6, <1>7
<1> QED  BY <1>3, <1>5, <1>8 DEF first, t

\* The state one entry further.
LEMMA AfterNext ==
    ASSUME NEW map \in Map, NEW i \in Nat,
           NEW s \in Seq(Entry), Len(s) = i,
           NEW t \in Seq(Entry), Len(t) = i + 1, \A k \in 1 .. i : s[k] = t[k]
    PROVE  /\ After(map, s) \in Map
           /\ After(map, t) = Effect(After(map, s), t[i + 1].command)
<1>2. PICK r : /\ r[0] = map /\ After(map, s) = r[i]
               /\ \A k \in 1 .. i : r[k] = Effect(r[k - 1], s[k].command)
  <2>1. PICK r : AfterRun(r, map, s) /\ After(map, s) = r[Len(s)]
    BY AfterRuns
  <2> QED  BY <2>1 DEF AfterRun
<1>3. PICK q : /\ q[0] = map /\ After(map, t) = q[i + 1]
               /\ \A k \in 1 .. i + 1 : q[k] = Effect(q[k - 1], t[k].command)
  <2>1. PICK q : AfterRun(q, map, t) /\ After(map, t) = q[Len(t)]
    BY AfterRuns
  <2> QED  BY <2>1 DEF AfterRun
<1>4. \A k \in 0 .. i : r[k] = q[0 + k]
  <2>1. GoOnAlike(r, q, 0, i)
    <3> SUFFICES ASSUME NEW k \in 1 .. i, r[k - 1] = q[0 + k - 1] PROVE r[k] = q[0 + k]
      BY DEF GoOnAlike
    <3>1. k \in 1 .. i + 1 /\ 0 + k - 1 = k - 1 /\ 0 + k = k /\ s[k] = t[k]
      OBVIOUS
    <3> QED  BY <3>1, <1>2, <1>3
  <2>2. r[0] = q[0] /\ 0 \in Nat
    BY <1>2, <1>3
  <2>3. Alike(r, q, 0, i)
    BY <2>1, <2>2, SameRuns
  <2> QED  BY <2>3 DEF Alike
<1>5. i \in 0 .. i /\ 0 + i = i /\ i + 1 \in 1 .. i + 1 /\ (i + 1) - 1 = i
  OBVIOUS
<1>6. r[i] = q[i]
  BY <1>4, <1>5
<1>7. q[i + 1] = Effect(q[i], t[i + 1].command)
  BY <1>3, <1>5
<1>8. After(map, s) \in Map
  BY AfterType
<1> QED  BY <1>2, <1>3, <1>6, <1>7, <1>8

-----------------------------------------------------------------------------
(***************************************************************************)
(* The inductive invariant: types, ...                                     *)
(***************************************************************************)
Redirect == [ok : {FALSE}, error : {"FollowerNode"}, leader : Nodes \cup {None}]
Answer == {Ok, LostLeadership} \cup Redirect

ApplyAction == [act : {"Apply"}, index : Nat, entry : Entry]
ReadyAction == [act : {"Ready"}, client : Client]
InstallAction == [act : {"Install"}, index : Nat, data : Map]
SnapshotBase == [data : Map, index : Nat]
Action == ApplyAction \cup ReadyAction \cup InstallAction

HandlerTypes ==
    /\ request \in [Client -> Request \cup {None}]
    /\ stage \in [Client -> {"new", "waiting", "reading", "done"}]
    /\ answer \in [Client -> Answer \cup {None}]
    /\ DOMAIN response = Client
    /\ floor \in [Client -> Nat]
    /\ proposals \in Seq(Client) /\ Len(proposals) <= CHANNEL_BUFFER
    /\ reads \in Seq(Client) /\ Len(reads) <= CHANNEL_BUFFER
    /\ acked \in Nat

LoopTypes ==
    /\ todo \in Seq(Action)
    /\ step \in {"start", "send", "ask", "await"}
    /\ drain \in BOOLEAN /\ alive \in BOOLEAN /\ deposed \in BOOLEAN
    /\ pending_proposals \subseteq [index : 1 .. Len(log), client : Client]
    /\ pending_reads \subseteq Client
    /\ num_entries \in 0 .. SnapshotThreshold
    /\ step \notin {"ask", "await"} => num_entries < SnapshotThreshold
    /\ role \in {"Follower", "Leader"} /\ current_leader \in Nodes \cup {None}
    /\ log \in Seq(Entry) /\ chosen \in Seq(Entry)
    /\ last_applied \in Nat /\ handed \in Nat

ChannelTypes ==
    /\ applied \in Seq(Item) /\ Len(applied) <= CHANNEL_BUFFER
    /\ reply \in Map \cup {None} /\ store \in Map /\ stored \in Nat
    /\ snapshot = None \/ snapshot \in [data : Map, upto : Nat]
    /\ installed \in SnapshotBase

(***************************************************************************)
(* ... how far the event loop is with what Raft has given it, ...          *)
(***************************************************************************)
\* Entries handed over, that of the present action not counted.
Base == IF step \in {"ask", "await"} THEN handed - 1 ELSE handed

\* A snapshot of another leader is to be installed, ...
Installing ==
    /\ \E data \in Map : todo = <<[act |-> "Install", index |-> last_applied, data |-> data]>>
    /\ step = "start" /\ handed < last_applied

\* ... or the entries not yet handed over are to be applied, in their order,
\* and then reads are to be released.
Applying ==
    /\ last_applied - Base <= Len(todo)
    /\ \A i \in 1 .. Len(todo) :
          IF i <= last_applied - Base
          THEN todo[i] = [act |-> "Apply", index |-> Base + i, entry |-> chosen[Base + i]]
          ELSE todo[i] \in ReadyAction
    /\ step # "start" => Base < last_applied

\* The log has what was applied, and a leader that has not been replaced has
\* all that is chosen.
Agrees ==
    /\ last_applied <= Len(chosen) /\ handed <= last_applied
    /\ step \in {"ask", "await"} => handed >= 1
    /\ alive => /\ last_applied <= Len(log)
                /\ \A i \in 1 .. last_applied : log[i] = chosen[i]
    /\ role = "Leader" /\ ~deposed =>
          Len(chosen) <= Len(log) /\ \A i \in 1 .. Len(chosen) : log[i] = chosen[i]

FlowInv ==
    /\ Agrees
    /\ alive => Installing \/ Applying
    /\ ~alive => todo = << >> /\ step = "start" /\ role = "Follower"
    /\ drain => todo = << >> /\ step = "start" /\ role = "Follower"
    /\ Len(todo) <= Len(log) + Cardinality(Client)

(***************************************************************************)
(* ... where each request is, ...                                          *)
(***************************************************************************)
In(c, queue) == \E i \in 1 .. Len(queue) : queue[i] = c
Distinct(queue) == \A i, j \in 1 .. Len(queue) : queue[i] = queue[j] => i = j

Proposed(c) == In(c, proposals)
Asked(c) == In(c, reads)
Pending(c) == \E p \in pending_proposals : p.client = c
Occurs(c, l) == \E i \in 1 .. Len(l) : l[i].client = c

\* A request is in one place, waiting and without an answer.
Place(c) ==
    /\ Proposed(c) => ~Asked(c) /\ ~Pending(c) /\ c \notin pending_reads
    /\ Asked(c) => ~Pending(c) /\ c \notin pending_reads
    /\ Pending(c) => c \notin pending_reads
    /\ Proposed(c) \/ Asked(c) \/ Pending(c) \/ c \in pending_reads =>
          stage[c] = "waiting" /\ answer[c] = None
    /\ Proposed(c) \/ Pending(c) => request[c] \in KvCommand
    /\ Asked(c) \/ c \in pending_reads => request[c].op = "Get"

Places ==
    /\ Distinct(proposals) /\ Distinct(reads)
    /\ \A p, q \in pending_proposals : p.client = q.client => p = q
    /\ \A c \in Client : Place(c)

\* A read is released once, and only while it is pending.
ReadyOnce ==
    /\ \A i, j \in 1 .. Len(todo) :
          todo[i].act = "Ready" /\ todo[j].act = "Ready" /\ todo[i] = todo[j] => i = j
    /\ \A i \in 1 .. Len(todo) : todo[i].act = "Ready" => todo[i].client \in pending_reads

\* Proposals wait with a leader, or with one that is about to tell them that
\* it lost leadership, and their entries are in its log.
Standing ==
    /\ acked <= last_applied
    /\ role # "Leader" => current_leader # node_id
    /\ pending_proposals # {} => alive /\ (role = "Leader" \/ drain)
    /\ \A p \in pending_proposals : log[p.index].client = p.client
    /\ ~alive => proposals = << >> /\ reads = << >> /\ pending_reads = {}

\* What an answer says, and what it will go on to say.
Told(c) ==
    /\ stage[c] = "new" => answer[c] = None
    /\ stage[c] = "new" \/ Proposed(c) \/ Asked(c) \/ (answer[c] # None /\ answer[c] \in Redirect) =>
          ~Occurs(c, log) /\ ~Occurs(c, chosen)
    /\ answer[c] # None /\ answer[c] = Ok /\ request[c].op # "Get" => Occurs(c, chosen)
    /\ answer[c] # None /\ answer[c] = Ok /\ request[c].op = "Get" => floor[c] <= handed
    /\ answer[c] # None /\ answer[c] \in Redirect => answer[c].leader # node_id
    /\ floor[c] <= last_applied
    /\ stage[c] = "done" /\ response[c].status = "307" =>
          /\ answer[c] # None /\ answer[c] \in Redirect
          /\ answer[c].leader # None /\ http_addrs(answer[c].leader) # None
          /\ response[c].location = http_addrs(answer[c].leader)

ClientInv == Places /\ ReadyOnce /\ Standing /\ \A c \in Client : Told(c)

(***************************************************************************)
(* ... and what is in the apply channel.                                   *)
(***************************************************************************)
Indexed(i) == applied[i].type # "SnapshotRequest"

SnapshotKept ==
    snapshot # None => /\ snapshot.upto <= Len(chosen) /\ installed.index <= snapshot.upto
                       /\ snapshot.data = Upto(installed, chosen, snapshot.upto)

ChannelInv ==
    /\ Play(store, applied) = Upto(installed, chosen, handed)
    /\ stored <= handed /\ installed.index <= handed
    /\ \A i \in 1 .. Len(applied) :
          Indexed(i) => stored < applied[i].index /\ applied[i].index <= handed
    /\ \A i, j \in 1 .. Len(applied) :
          i < j /\ Indexed(i) /\ Indexed(j) => applied[i].index < applied[j].index
    /\ alive => \A i \in 1 .. Len(applied) : ~Indexed(i) => i = Len(applied) /\ step = "await"
    /\ alive /\ reply # None =>
          step = "await" /\ reply = Upto(installed, chosen, handed) /\ applied = << >>
    /\ SnapshotKept

\* Of the entries of log l behind the first `from' and up to index, all but
\* Noops are in the first n items, or covered by a snapshot there.
NoneMissing(from, index, l, items, n) ==
    \A i \in from + 1 .. index :
        \/ l[i] = Noop
        \/ \E m \in 1 .. n : items[m].type # "SnapshotRequest" /\ i <= items[m].index

\* The channel goes on where the map ends.
InOrder ==
    /\ \A j \in 1 .. Len(applied) :
          applied[j].type = "Command" =>
             /\ applied[j].command = chosen[applied[j].index].command
             /\ NoneMissing(stored, applied[j].index - 1, chosen, applied, j - 1)
    /\ NoneMissing(stored, handed, chosen, applied, Len(applied))

IInv ==
    /\ HandlerTypes /\ LoopTypes /\ ChannelTypes
    /\ FlowInv /\ ClientInv /\ ChannelInv /\ InOrder

-----------------------------------------------------------------------------
(***************************************************************************)
(* Steps and actions.                                                      *)
(***************************************************************************)
\* Next, flat.
Stepping ==
    \/ \E c \in Client : \E r \in Request : Submit(c, r)
    \/ \E c \in Client : Answered(c)
    \/ \E c \in Client : ReadStore(c)
    \/ TakeProposal \/ TakeRead
    \/ ApplyAnswer \/ ApplySend \/ AskSnapshot \/ TakeSnapshot
    \/ InstallSnapshot \/ ReadBarrierReady \/ Drain
    \/ \E k \in last_applied .. Len(log), R \in SUBSET pending_reads : Advance(k, R)
    \/ \E leader \in Nodes, n \in 0 .. Len(chosen) :
          \E k \in last_applied .. n : Follow(leader, n, k)
    \/ \E leader \in Nodes, k \in 1 .. Len(chosen) :
          \E data \in Snapshots(k) : Install(leader, k, data)
    \/ Elected
    \/ \E leader \in Nodes \cup {None} : StepDown(leader)
    \/ \E entry \in Foreign \cup {log[i] : i \in 1 .. Len(log)} : ChosenElsewhere(entry)
    \/ EventLoopPanics \/ ApplyNext

LEMMA FlatNext == Next => Stepping
  BY DEF Next, HandleAction, FromRaft, Stepping

LEMMA SeqParts ==
    ASSUME NEW T, NEW s \in Seq(T), s # << >>
    PROVE  /\ Head(s) \in T /\ Head(s) = s[1] /\ Tail(s) \in Seq(T)
           /\ Len(s) \in Nat /\ Len(s) >= 1 /\ Len(Tail(s)) = Len(s) - 1
           /\ \A i \in 1 .. Len(s) - 1 : Tail(s)[i] = s[i + 1] /\ i + 1 \in 1 .. Len(s)
  OBVIOUS

LEMMA AppendParts ==
    ASSUME NEW T, NEW s \in Seq(T), NEW e \in T
    PROVE  /\ Append(s, e) \in Seq(T) /\ Len(s) \in Nat /\ Len(Append(s, e)) = Len(s) + 1
           /\ Append(s, e)[Len(s) + 1] = e
           /\ \A i \in 1 .. Len(s) : Append(s, e)[i] = s[i]
  OBVIOUS

LEMMA PrefixParts ==
    ASSUME NEW T, NEW s \in Seq(T), NEW n \in 0 .. Len(s)
    PROVE  /\ SubSeq(s, 1, n) \in Seq(T) /\ Len(SubSeq(s, 1, n)) = n
           /\ \A i \in 1 .. n : SubSeq(s, 1, n)[i] = s[i]
  OBVIOUS

LEMMA IsPrefixIs ==
    ASSUME NEW T, NEW s \in Seq(T), NEW t \in Seq(T)
    PROVE  IsPrefix(s, t) <=> Len(s) <= Len(t) /\ \A i \in 1 .. Len(s) : s[i] = t[i]
<1>1. Len(s) \in Nat /\ Len(t) \in Nat
  OBVIOUS
<1>2. CASE ~(Len(s) <= Len(t))
  BY <1>2 DEF IsPrefix
<1>3. CASE Len(s) <= Len(t)
  <2> DEFINE a == SubSeq(s, 1, Len(s))
             b == SubSeq(t, 1, Len(s))
  <2>1. a \in Seq(T) /\ Len(a) = Len(s) /\ \A i \in 1 .. Len(s) : a[i] = s[i]
    BY <1>1
  <2>2. b \in Seq(T) /\ Len(b) = Len(s) /\ \A i \in 1 .. Len(s) : b[i] = t[i]
    BY <1>1, <1>3, PrefixParts
  <2> HIDE DEF a, b
  <2>3. a = b <=> \A i \in 1 .. Len(s) : s[i] = t[i]
    <3>1. a = b => \A i \in 1 .. Len(s) : s[i] = t[i]
      BY <2>1, <2>2
    <3>2. (\A i \in 1 .. Len(s) : s[i] = t[i]) => a = b
      BY <2>1, <2>2, SeqEqual
    <3> QED  BY <3>1, <3>2
  <2> QED  BY <2>3, <1>3 DEF IsPrefix, a, b
<1> QED  BY <1>2, <1>3

LEMMA ActionIs ==
    ASSUME NEW a \in Action
    PROVE  /\ a.act = "Apply" => a \in ApplyAction /\ a.index \in Nat /\ a.entry \in Entry
           /\ a.act = "Ready" => a \in ReadyAction /\ a.client \in Client
           /\ a.act = "Install" => a \in InstallAction /\ a.index \in Nat /\ a.data \in Map
           /\ a \in ReadyAction => a.act = "Ready"
<1>1. CASE a \in ApplyAction
  BY <1>1 DEF ApplyAction, ReadyAction
<1>2. CASE a \in ReadyAction
  BY <1>2 DEF ReadyAction
<1>3. CASE a \in InstallAction
  BY <1>3 DEF InstallAction, ReadyAction
<1> QED  BY <1>1, <1>2, <1>3 DEF Action

LEMMA NodeIdIs == node_id = Pod + 1 /\ node_id \in Nodes /\ node_id # None
<1>1. Pod \in Nat /\ Pod < N /\ N \in Nat /\ MaxNodeId \in Nat /\ N <= MaxNodeId
      /\ None \notin Int
  BY ConstantsOK
<1>2. Pod # None /\ ~(Pod + 1 > MaxNodeId) /\ Pod \in 0 .. N - 1 /\ Pod + 1 \in Int
  BY <1>1
<1>3. node_id = Pod + 1
  BY <1>2 DEF node_id, resolve_id, id_from_hostname
<1>4. node_id \in Nodes
  BY <1>2, <1>3 DEF Nodes
<1> QED  BY <1>1, <1>2, <1>3, <1>4

LEMMA NodesAre == \A id \in Nodes : id \in Nat /\ id >= 1 /\ id <= N /\ id # None
<1>1. N \in Nat /\ None \notin Int
  BY ConstantsOK
<1> SUFFICES ASSUME NEW idx \in 0 .. N - 1
             PROVE  idx + 1 \in Nat /\ idx + 1 >= 1 /\ idx + 1 <= N /\ idx + 1 # None
  BY DEF Nodes
<1>2. idx + 1 \in Nat /\ idx + 1 >= 1 /\ idx + 1 <= N
  BY <1>1
<1> QED  BY <1>1, <1>2

LEMMA AnswersAre ==
    /\ Ok \in Answer /\ LostLeadership \in Answer /\ Ok # None
    /\ Ok \notin Redirect /\ LostLeadership \notin Redirect /\ LostLeadership # Ok
    /\ Ok.ok = TRUE /\ LostLeadership.ok = FALSE /\ LostLeadership.error = "LostLeadership"
    /\ \A a \in Redirect : a.ok = FALSE /\ a.error = "FollowerNode" /\ a.leader \in Nodes \cup {None}
    /\ current_leader \in Nodes \cup {None} =>
          FollowerNode \in Redirect /\ FollowerNode.leader = current_leader
<1>1. Ok # None
  BY ConstantsOK DEF Ok
<1>2. Ok \in Answer /\ LostLeadership \in Answer
  BY DEF Answer
<1>3. Ok \notin Redirect /\ LostLeadership \notin Redirect /\ LostLeadership # Ok
  BY DEF Ok, LostLeadership, Redirect
<1>4. Ok.ok = TRUE /\ LostLeadership.ok = FALSE /\ LostLeadership.error = "LostLeadership"
  BY DEF Ok, LostLeadership
<1>5. \A a \in Redirect : a.ok = FALSE /\ a.error = "FollowerNode" /\ a.leader \in Nodes \cup {None}
  BY DEF Redirect
<1>6. current_leader \in Nodes \cup {None} =>
         FollowerNode \in Redirect /\ FollowerNode.leader = current_leader
  BY DEF FollowerNode, Redirect
<1> QED  BY <1>1, <1>2, <1>3, <1>4, <1>5, <1>6

LEMMA EntriesAre ==
    /\ Noop \in Entry /\ Noop.client = None /\ Noop.command = [op |-> "Noop"]
    /\ Foreign \subseteq Entry /\ \A e \in Foreign : e.client = None
    /\ None \notin Client
<1>1. Noop \in Entry /\ Noop.client = None /\ Noop.command = [op |-> "Noop"]
  BY DEF Noop, Entry, Command
<1>2. Foreign \subseteq Entry /\ \A e \in Foreign : e.client = None
  BY DEF Foreign, Entry, Command, KvCommand
<1> QED  BY <1>1, <1>2, ConstantsOK

-----------------------------------------------------------------------------
(***************************************************************************)
(* Types are kept.                                                         *)
(***************************************************************************)
LEMMA InitTypes == Init => HandlerTypes /\ LoopTypes /\ ChannelTypes
<1> SUFFICES ASSUME Init PROVE HandlerTypes /\ LoopTypes /\ ChannelTypes
  OBVIOUS
<1>1. << >> \in Seq(Client) /\ << >> \in Seq(Action) /\ << >> \in Seq(Entry) /\ << >> \in Seq(Item)
  OBVIOUS
<1>2. Len(<< >>) = 0
  OBVIOUS
<1>3. HandlerTypes
  BY <1>1, <1>2, ConstantsOK DEF Init, HandlerTypes
<1>4. LoopTypes
  <2>1. drain \in BOOLEAN /\ alive \in BOOLEAN /\ deposed \in BOOLEAN
    BY Zenon DEF Init
  <2>2. 0 \in 0 .. SnapshotThreshold /\ 0 < SnapshotThreshold
    BY ConstantsOK
  <2>3. /\ todo = << >> /\ step = "start" /\ pending_proposals = {} /\ pending_reads = {}
        /\ num_entries = 0 /\ role = "Follower" /\ current_leader = None /\ log = << >>
        /\ last_applied = 0 /\ chosen = << >> /\ handed = 0
    BY DEF Init
  <2> QED  BY <1>1, <2>1, <2>2, <2>3 DEF LoopTypes
<1>5. ChannelTypes
  <2>1. installed \in SnapshotBase
    BY EmptyType DEF Init, SnapshotBase
  <2> QED  BY <2>1, <1>1, <1>2, ConstantsOK, EmptyType DEF Init, ChannelTypes
<1> QED  BY <1>3, <1>4, <1>5

LEMMA SubmitHandler ==
    ASSUME IInv, NEW c \in Client, NEW r \in Request, Submit(c, r)
    PROVE  HandlerTypes'
<1>1. HandlerTypes
  BY DEF IInv
<1>2. UNCHANGED <<answer, acked>>
  BY DEF Submit
<1>3. request' \in [Client -> Request \cup {None}] /\ floor' \in [Client -> Nat]
  BY <1>1 DEF Submit, HandlerTypes
<1>4. stage' \in [Client -> {"new", "waiting", "reading", "done"}] /\ DOMAIN response' = Client
  BY <1>1 DEF Submit, HandlerTypes
<1>5. proposals' \in Seq(Client) /\ Len(proposals') <= CHANNEL_BUFFER
  <2>1. CASE proposals' = proposals
    BY <2>1, <1>1 DEF HandlerTypes
  <2>2. CASE Len(proposals) < CHANNEL_BUFFER /\ proposals' = Append(proposals, c)
    BY <2>2, <1>1, ConstantsOK, AppendParts DEF HandlerTypes
  <2> QED  BY <2>1, <2>2 DEF Submit
<1>6. reads' \in Seq(Client) /\ Len(reads') <= CHANNEL_BUFFER
  <2>1. CASE reads' = reads
    BY <2>1, <1>1 DEF HandlerTypes
  <2>2. CASE Len(reads) < CHANNEL_BUFFER /\ reads' = Append(reads, c)
    BY <2>2, <1>1, ConstantsOK, AppendParts DEF HandlerTypes
  <2> QED  BY <2>1, <2>2 DEF Submit
<1> QED  BY <1>1, <1>2, <1>3, <1>4, <1>5, <1>6 DEF HandlerTypes

LEMMA TakeHandler ==
    ASSUME IInv, TakeProposal \/ TakeRead
    PROVE  HandlerTypes'
<1>1. HandlerTypes /\ current_leader \in Nodes \cup {None}
  BY DEF IInv, LoopTypes
<1>2. FollowerNode \in Answer
  BY <1>1, AnswersAre DEF Answer
<1>3. ASSUME NEW s \in Seq(Client), s # << >>, Len(s) <= CHANNEL_BUFFER
      PROVE  Head(s) \in Client /\ Tail(s) \in Seq(Client) /\ Len(Tail(s)) <= CHANNEL_BUFFER
  BY <1>3, SeqParts, ConstantsOK
<1>4. CASE TakeProposal
  <2>1. /\ proposals # << >> /\ proposals' = Tail(proposals)
        /\ answer' = answer \/ answer' = [answer EXCEPT ![Head(proposals)] = FollowerNode]
        /\ UNCHANGED <<request, stage, response, floor, reads, acked>>
    BY <1>4 DEF TakeProposal
  <2>2. proposals' \in Seq(Client) /\ Len(proposals') <= CHANNEL_BUFFER
    BY <2>1, <1>1, <1>3 DEF HandlerTypes
  <2>3. answer' \in [Client -> Answer \cup {None}]
    BY <2>1, <1>1, <1>2 DEF HandlerTypes
  <2> QED  BY <2>1, <2>2, <2>3, <1>1 DEF HandlerTypes
<1>5. CASE TakeRead
  <2>1. /\ reads # << >> /\ reads' = Tail(reads)
        /\ answer' = answer \/ answer' = [answer EXCEPT ![Head(reads)] = FollowerNode]
        /\ UNCHANGED <<request, stage, response, floor, proposals, acked>>
    BY <1>5 DEF TakeRead
  <2>2. reads' \in Seq(Client) /\ Len(reads') <= CHANNEL_BUFFER
    BY <2>1, <1>1, <1>3 DEF HandlerTypes
  <2>3. answer' \in [Client -> Answer \cup {None}]
    BY <2>1, <1>1, <1>2 DEF HandlerTypes
  <2> QED  BY <2>1, <2>2, <2>3, <1>1 DEF HandlerTypes
<1> QED  BY <1>4, <1>5

\* The first action of the event loop.
LEMMA HeadAction ==
    ASSUME IInv, NEW a, NEW s, At(a, s)
    PROVE  /\ alive /\ todo # << >> /\ step = s /\ todo[1].act = a /\ Head(todo) = todo[1]
           /\ todo[1] \in Action /\ Tail(todo) \in Seq(Action)
           /\ Len(todo) \in Nat /\ Len(todo) >= 1 /\ Len(Tail(todo)) = Len(todo) - 1
           /\ \A i \in 1 .. Len(todo) - 1 : Tail(todo)[i] = todo[i + 1] /\ i + 1 \in 1 .. Len(todo)
<1>1. todo \in Seq(Action) /\ todo # << >>
  BY DEF IInv, LoopTypes, At
<1>2. /\ Head(todo) \in Action /\ Head(todo) = todo[1] /\ Tail(todo) \in Seq(Action)
      /\ Len(todo) \in Nat /\ Len(todo) >= 1 /\ Len(Tail(todo)) = Len(todo) - 1
      /\ \A i \in 1 .. Len(todo) - 1 : Tail(todo)[i] = todo[i + 1] /\ i + 1 \in 1 .. Len(todo)
  BY <1>1, SeqParts
<1> QED  BY <1>1, <1>2 DEF At

LEMMA NextHandler == IInv /\ [Next]_vars => HandlerTypes'
<1> SUFFICES ASSUME IInv, [Next]_vars PROVE HandlerTypes'
  OBVIOUS
<1>1. HandlerTypes
  BY DEF IInv
<1> DEFINE hvars == <<request, stage, answer, response, floor, proposals, reads, acked>>
<1>2. ASSUME UNCHANGED hvars PROVE HandlerTypes'
  BY <1>1, <1>2 DEF HandlerTypes
<1>3. ASSUME NEW c \in Client, NEW r \in Request, Submit(c, r) PROVE HandlerTypes'
  BY <1>3, SubmitHandler
<1>4. ASSUME NEW c \in Client, Answered(c) \/ ReadStore(c) PROVE HandlerTypes'
  <2>1. /\ UNCHANGED <<request, answer, floor, proposals, reads, acked>>
        /\ stage' = [stage EXCEPT ![c] = "reading"] \/ stage' = [stage EXCEPT ![c] = "done"]
        /\ DOMAIN response' = DOMAIN response
    BY <1>4 DEF Answered, ReadStore, channels
  <2> QED  BY <2>1, <1>1 DEF HandlerTypes
<1>5. CASE TakeProposal \/ TakeRead
  BY <1>5, TakeHandler
<1>6. CASE ApplyAnswer
  <2>1. /\ answer' = [c \in Client |-> IF \E p \in {p \in pending_proposals : p.index = Head(todo).index} : p.client = c
                                       THEN Ok ELSE answer[c]]
        /\ acked' = acked \/ acked' = Head(todo).index
        /\ UNCHANGED <<request, stage, response, floor, proposals, reads>>
    BY <1>6 DEF ApplyAnswer, channels
  <2>2. answer' \in [Client -> Answer \cup {None}]
    BY <2>1, <1>1, AnswersAre DEF HandlerTypes
  <2>3. Head(todo).index \in Nat
    <3>1. At("Apply", "start")
      BY <1>6 DEF ApplyAnswer
    <3> QED  BY <3>1, HeadAction, ActionIs
  <2>4. acked' \in Nat
    BY <2>1, <2>3, <1>1 DEF HandlerTypes
  <2> QED  BY <2>1, <2>2, <2>4, <1>1 DEF HandlerTypes
<1>7. CASE ApplySend \/ AskSnapshot \/ TakeSnapshot \/ InstallSnapshot
  BY <1>7, <1>2 DEF ApplySend, AskSnapshot, TakeSnapshot, InstallSnapshot, handlers
<1>8. CASE ReadBarrierReady
  <2>1. /\ answer' = [answer EXCEPT ![Head(todo).client] = Ok]
        /\ UNCHANGED <<request, stage, response, floor, proposals, reads, acked>>
    BY <1>8 DEF ReadBarrierReady, channels
  <2>2. answer' \in [Client -> Answer \cup {None}]
    BY <2>1, <1>1, AnswersAre DEF HandlerTypes
  <2> QED  BY <2>1, <2>2, <1>1 DEF HandlerTypes
<1>9. CASE Drain
  <2>1. /\ answer' = [c \in Client |->
                    IF c \in pending_reads \/ \E p \in pending_proposals : p.client = c
                    THEN LostLeadership ELSE answer[c]]
        /\ UNCHANGED <<request, stage, response, floor, proposals, reads, acked>>
    BY <1>9 DEF Drain, channels
  <2>2. answer' \in [Client -> Answer \cup {None}]
    BY <2>1, <1>1, AnswersAre DEF HandlerTypes
  <2> QED  BY <2>1, <2>2, <1>1 DEF HandlerTypes
<1>10. ASSUME NEW k, NEW R, Advance(k, R) PROVE HandlerTypes'
  BY <1>10, <1>2 DEF Advance, handlers, channels
<1>11. ASSUME NEW leader, NEW n, NEW k, Follow(leader, n, k) PROVE HandlerTypes'
  BY <1>11, <1>2 DEF Follow, handlers, channels
<1>12. ASSUME NEW leader, NEW k, NEW data, Install(leader, k, data) PROVE HandlerTypes'
  BY <1>12, <1>2 DEF Install, handlers, channels
<1>13. CASE Elected
  BY <1>13, <1>2 DEF Elected, handlers, channels
<1>14. ASSUME NEW leader, StepDown(leader) PROVE HandlerTypes'
  BY <1>14, <1>2 DEF StepDown, handlers, channels
<1>15. ASSUME NEW entry, ChosenElsewhere(entry) PROVE HandlerTypes'
  BY <1>15, <1>2 DEF ChosenElsewhere, handlers, channels
<1>16. CASE EventLoopPanics
  <2>1. /\ UNCHANGED <<request, stage, answer, response, floor, acked>>
        /\ proposals' = << >> /\ reads' = << >>
    BY <1>16 DEF EventLoopPanics, handlers
  <2>2. << >> \in Seq(Client) /\ Len(<< >>) <= CHANNEL_BUFFER
    BY ConstantsOK
  <2> QED  BY <2>1, <2>2, <1>1 DEF HandlerTypes
<1>17. CASE ApplyNext
  BY <1>17, <1>2 DEF ApplyNext, handlers
<1>18. CASE UNCHANGED vars
  BY <1>18, <1>2 DEF vars, handlers, channels
<1> QED
  BY <1>3, <1>4, <1>5, <1>6, <1>7, <1>8, <1>9, <1>10, <1>11, <1>12, <1>13, <1>14, <1>15,
     <1>16, <1>17, <1>18, FlatNext DEF Stepping

\* What Raft has given to apply.
LEMMA AppliesAre ==
    ASSUME last_applied \in Nat, NEW k \in Nat, last_applied <= k,
           log' \in Seq(Entry), k <= Len(log')
    PROVE  /\ Applies(k) \in Seq(Action) /\ Len(Applies(k)) = k - last_applied
           /\ \A i \in 1 .. k - last_applied :
                 Applies(k)[i] = [act |-> "Apply", index |-> last_applied + i,
                                  entry |-> log'[last_applied + i]]
<1> DEFINE n == k - last_applied
<1>1. n \in Nat
  OBVIOUS
<1>2. ASSUME NEW i \in 1 .. n
      PROVE  [act |-> "Apply", index |-> last_applied + i, entry |-> log'[last_applied + i]] \in Action
  <2>1. last_applied + i \in 1 .. Len(log') /\ last_applied + i \in Nat
    OBVIOUS
  <2>2. log'[last_applied + i] \in Entry
    BY <2>1
  <2> QED  BY <2>1, <2>2 DEF Action, ApplyAction
<1>3. Applies(k) = [i \in 1 .. n |->
         [act |-> "Apply", index |-> last_applied + i, entry |-> log'[last_applied + i]]]
  BY DEF Applies
<1> HIDE DEF n
<1>4. Applies(k) \in Seq(Action) /\ Len(Applies(k)) = n
  <2>1. Applies(k) \in [1 .. n -> Action]
    BY <1>2, <1>3
  <2> QED  BY <1>1, <2>1
<1> QED  BY <1>3, <1>4 DEF n

\* The reads to release, each once.
LEMMA ReadiesAre ==
    ASSUME NEW R \in SUBSET Client
    PROVE  /\ Cardinality(R) \in Nat /\ Cardinality(Client) \in Nat
           /\ Cardinality(R) <= Cardinality(Client)
           /\ Readies(R) \in Seq(Action) /\ Len(Readies(R)) = Cardinality(R)
           /\ \A i \in 1 .. Cardinality(R) :
                 /\ Readies(R)[i] \in ReadyAction
                 /\ Readies(R)[i].client \in R
           /\ \A i, j \in 1 .. Cardinality(R) : Readies(R)[i] = Readies(R)[j] => i = j
<1> DEFINE n == Cardinality(R)
           s == SetToSeq(R)
<1>1. IsFiniteSet(Client) /\ IsFiniteSet(R) /\ n <= Cardinality(Client)
  BY ConstantsOK, FS_Subset
<1>2. n \in Nat /\ Cardinality(Client) \in Nat /\ ExistsBijection(1 .. n, R)
  BY <1>1, FS_CardinalityType
<1>3. \E f \in [1 .. n -> R] : IsInjective(f)
  BY <1>2 DEF ExistsBijection, Bijection, Injection
<1>4. s \in [1 .. n -> R] /\ IsInjective(s)
  BY <1>3 DEF SetToSeq
<1> HIDE DEF s
<1>5. \A i \in 1 .. n : s[i] \in R /\ s[i] \in Client
  BY <1>4
<1>6. \A i, j \in 1 .. n : s[i] = s[j] => i = j
  BY <1>4 DEF IsInjective
<1>7. Readies(R) = [i \in 1 .. n |-> [act |-> "Ready", client |-> s[i]]]
  BY DEF Readies, s
<1> HIDE DEF n
<1>8. ASSUME NEW i \in 1 .. n
      PROVE  /\ [act |-> "Ready", client |-> s[i]] \in ReadyAction
             /\ [act |-> "Ready", client |-> s[i]] \in Action
  BY <1>5 DEF ReadyAction, Action
<1>9. Readies(R) \in Seq(Action) /\ Len(Readies(R)) = n
  BY <1>2, <1>7, <1>8
<1>10. \A i \in 1 .. n : Readies(R)[i] \in ReadyAction /\ Readies(R)[i].client = s[i]
  BY <1>7, <1>8
<1> QED  BY <1>1, <1>2, <1>5, <1>6, <1>9, <1>10 DEF n

(***************************************************************************)
(* What the steps that come from Raft do to the log and to what is chosen. *)
(***************************************************************************)
\* What is chosen stays chosen.
Grows ==
    /\ chosen' \in Seq(Entry) /\ Len(chosen) <= Len(chosen')
    /\ \A i \in 1 .. Len(chosen) : chosen'[i] = chosen[i]

LEMMA AdvanceDoes ==
    ASSUME IInv, NEW k \in last_applied .. Len(log), NEW R \in SUBSET pending_reads,
           Advance(k, R)
    PROVE  /\ Grows /\ k \in Nat /\ k <= Len(chosen')
           /\ \A i \in 1 .. k : chosen'[i] = log[i]
           /\ todo' \in Seq(Action) /\ Cardinality(R) \in Nat
           /\ Cardinality(R) <= Cardinality(Client) /\ Cardinality(Client) \in Nat
           /\ Len(todo') = (k - last_applied) + Cardinality(R)
           /\ \A i \in 1 .. k - last_applied :
                 todo'[i] = [act |-> "Apply", index |-> last_applied + i,
                             entry |-> chosen'[last_applied + i]]
           /\ \A i \in 1 .. Len(todo') : i > k - last_applied =>
                 todo'[i] \in ReadyAction /\ todo'[i].client \in R
           /\ \A i, j \in 1 .. Len(todo') :
                 i > k - last_applied /\ j > k - last_applied /\ todo'[i] = todo'[j] => i = j
           /\ ~deposed => Len(chosen') <= Len(log) /\ \A i \in 1 .. Len(chosen') : log[i] = chosen'[i]
<1>1. /\ log \in Seq(Entry) /\ chosen \in Seq(Entry) /\ last_applied \in Nat
      /\ pending_reads \subseteq Client /\ alive /\ last_applied <= Len(chosen)
      /\ Len(log) \in Nat /\ Len(chosen) \in Nat
  BY DEF IInv, LoopTypes, FlowInv, Agrees, Advance, Idle
<1>2. k \in Nat /\ last_applied <= k /\ k <= Len(log) /\ k \in 0 .. Len(log) /\ k - last_applied \in Nat
  BY <1>1
<1>3. \A i \in 1 .. last_applied : log[i] = chosen[i]
  BY <1>1 DEF IInv, FlowInv, Agrees
<1>4. ~deposed => Len(chosen) <= Len(log) /\ \A i \in 1 .. Len(chosen) : log[i] = chosen[i]
  BY DEF IInv, FlowInv, Agrees, Advance
<1>5. k > last_applied => ~deposed
  BY DEF Advance
<1>6. /\ Grows /\ k <= Len(chosen') /\ \A i \in 1 .. k : chosen'[i] = log[i]
      /\ ~deposed => Len(chosen') <= Len(log) /\ \A i \in 1 .. Len(chosen') : log[i] = chosen'[i]
  <2>1. CASE k > Len(chosen)
    <3>1. ~deposed
      BY <2>1, <1>1, <1>2, <1>5
    <3>2. chosen' = SubSeq(log, 1, k)
      BY <2>1 DEF Advance
    <3>3. chosen' \in Seq(Entry) /\ Len(chosen') = k /\ \A i \in 1 .. k : chosen'[i] = log[i]
      BY <3>2, <1>1, <1>2, PrefixParts
    <3>4. \A i \in 1 .. Len(chosen) : i \in 1 .. k
      BY <2>1, <1>1, <1>2
    <3>5. Grows
      BY <3>1, <3>3, <3>4, <1>4, <2>1, <1>1, <1>2 DEF Grows
    <3> QED  BY <3>3, <3>5, <1>2
  <2>2. CASE ~(k > Len(chosen))
    <3>1. chosen' = chosen
      BY <2>2 DEF Advance
    <3>2. k <= Len(chosen) /\ Grows
      BY <3>1, <2>2, <1>1, <1>2 DEF Grows
    <3>3. \A i \in 1 .. k : chosen[i] = log[i]
      <4>1. CASE k > last_applied
        <5>1. \A i \in 1 .. k : i \in 1 .. Len(chosen)
          BY <3>2, <1>1, <1>2
        <5> QED  BY <4>1, <5>1, <1>5, <1>4
      <4>2. CASE ~(k > last_applied)
        <5>1. k = last_applied
          BY <4>2, <1>1, <1>2
        <5> QED  BY <5>1, <1>3
      <4> QED  BY <4>1, <4>2
    <3> QED  BY <3>1, <3>2, <3>3, <1>4
  <2> QED  BY <2>1, <2>2
<1>7. log' = log /\ todo' = Applies(k) \o Readies(R)
  BY DEF Advance
<1> DEFINE a == Applies(k)
           b == Readies(R)
           n == k - last_applied
           m == Cardinality(R)
<1>8. a \in Seq(Action) /\ Len(a) = n /\ n \in Nat
      /\ \A i \in 1 .. n : a[i] = [act |-> "Apply", index |-> last_applied + i,
                                  entry |-> log'[last_applied + i]]
  BY <1>1, <1>2, <1>7, AppliesAre
<1>9. R \in SUBSET Client
  BY <1>1
<1>10. /\ m \in Nat /\ Cardinality(Client) \in Nat /\ m <= Cardinality(Client)
       /\ b \in Seq(Action) /\ Len(b) = m
       /\ \A i \in 1 .. m : b[i] \in ReadyAction /\ b[i].client \in R
       /\ \A i, j \in 1 .. m : b[i] = b[j] => i = j
  BY <1>9, ReadiesAre
<1>11. ASSUME NEW i \in 1 .. n
       PROVE  a[i] = [act |-> "Apply", index |-> last_applied + i, entry |-> chosen'[last_applied + i]]
  <2>1. last_applied + i \in 1 .. k
    BY <1>1, <1>2, <1>8
  <2> QED  BY <2>1, <1>6, <1>7, <1>8
<1> HIDE DEF a, b, n, m
<1>12. /\ a \o b \in Seq(Action) /\ Len(a \o b) = n + m
       /\ \A i \in 1 .. n : (a \o b)[i] = a[i]
       /\ \A i \in 1 .. n + m : i > n => (a \o b)[i] = b[i - n] /\ i - n \in 1 .. m
  <2>1. a \o b \in Seq(Action) /\ Len(a \o b) = n + m
        /\ \A i \in 1 .. n + m : (a \o b)[i] = IF i <= n THEN a[i] ELSE b[i - n]
    <3>1. a \in Seq(Action) /\ b \in Seq(Action)
      BY <1>8, <1>10
    <3>2. /\ a \o b \in Seq(Action) /\ Len(a \o b) = Len(a) + Len(b)
          /\ \A i \in 1 .. Len(a) + Len(b) :
                (a \o b)[i] = IF i <= Len(a) THEN a[i] ELSE b[i - Len(a)]
      BY ONLY <3>1, ConcatProperties
    <3> QED  BY <3>2, <1>8, <1>10
  <2>2. \A i \in 1 .. n : i \in 1 .. n + m /\ i <= n
    BY <1>8, <1>10
  <2>3. \A i \in 1 .. n + m : i > n => ~(i <= n) /\ i - n \in 1 .. m
    BY <1>8, <1>10
  <2> QED  BY <2>1, <2>2, <2>3
<1> DEFINE t == a \o b
<1> HIDE DEF t
<1>13. /\ t \in Seq(Action) /\ Len(t) = n + m
       /\ \A i \in 1 .. n : t[i] = a[i]
       /\ \A i \in 1 .. n + m : i > n => t[i] = b[i - n] /\ i - n \in 1 .. m
  BY <1>12 DEF t
<1>14. \A i \in 1 .. n + m : i > n => t[i] \in ReadyAction /\ t[i].client \in R
  BY <1>10, <1>13
<1>15. ASSUME NEW i \in 1 .. n + m, NEW j \in 1 .. n + m, i > n, j > n, t[i] = t[j]
       PROVE  i = j
  <2>1. b[i - n] = b[j - n] /\ i - n \in 1 .. m /\ j - n \in 1 .. m
    BY <1>13, <1>15
  <2>2. i - n = j - n
    BY <2>1, <1>10
  <2> QED  BY <2>2, <1>8, <1>10
<1>16. todo' = t
  BY <1>7 DEF a, b, t
<1>17. \A i \in 1 .. n :
          t[i] = [act |-> "Apply", index |-> last_applied + i, entry |-> chosen'[last_applied + i]]
  BY <1>11, <1>13
<1> QED  BY <1>2, <1>6, <1>10, <1>13, <1>14, <1>15, <1>16, <1>17 DEF n, m

LEMMA FollowDoes ==
    ASSUME IInv, NEW leader \in Nodes, NEW n \in 0 .. Len(chosen), NEW k \in last_applied .. n,
           Follow(leader, n, k)
    PROVE  /\ chosen' = chosen /\ log' \in Seq(Entry) /\ n <= Len(log') /\ k \in Nat
           /\ k <= n /\ n <= Len(chosen) /\ last_applied <= k /\ n \in Nat
           /\ \A i \in 1 .. n : log'[i] = chosen[i]
           /\ log' = log \/ (Len(log') = n)
           /\ todo' \in Seq(Action) /\ Len(todo') = k - last_applied
           /\ \A i \in 1 .. k - last_applied :
                 todo'[i] = [act |-> "Apply", index |-> last_applied + i,
                             entry |-> chosen[last_applied + i]]
<1>1. /\ log \in Seq(Entry) /\ chosen \in Seq(Entry) /\ last_applied \in Nat
      /\ Len(log) \in Nat /\ Len(chosen) \in Nat
  BY DEF IInv, LoopTypes
<1>2. k \in Nat /\ last_applied <= k /\ k <= n /\ n \in Nat /\ n <= Len(chosen)
  BY <1>1
<1> DEFINE entries == SubSeq(chosen, 1, n)
<1>3. entries \in Seq(Entry) /\ Len(entries) = n /\ \A i \in 1 .. n : entries[i] = chosen[i]
  BY <1>1, PrefixParts
<1>4. log' = IF IsPrefix(entries, log) THEN log ELSE entries
  BY DEF Follow
<1> HIDE DEF entries
<1>5. /\ log' \in Seq(Entry) /\ n <= Len(log') /\ \A i \in 1 .. n : log'[i] = chosen[i]
      /\ log' = log \/ (Len(log') = n)
  <2>1. CASE IsPrefix(entries, log)
    <3>1. n <= Len(log) /\ \A i \in 1 .. n : entries[i] = log[i]
      BY <2>1, <1>1, <1>3, IsPrefixIs
    <3> QED  BY <3>1, <2>1, <1>1, <1>3, <1>4
  <2>2. CASE ~IsPrefix(entries, log)
    BY <2>2, <1>2, <1>3, <1>4
  <2> QED  BY <2>1, <2>2
<1>6. k <= Len(log')
  BY <1>2, <1>5
<1>7. chosen' = chosen /\ todo' = Applies(k)
  BY DEF Follow
<1>8. /\ Applies(k) \in Seq(Action) /\ Len(Applies(k)) = k - last_applied
      /\ \A i \in 1 .. k - last_applied :
            Applies(k)[i] = [act |-> "Apply", index |-> last_applied + i,
                             entry |-> log'[last_applied + i]]
  BY <1>1, <1>2, <1>5, <1>6, AppliesAre
<1>9. \A i \in 1 .. k - last_applied : last_applied + i \in 1 .. n
  BY <1>1, <1>2
<1> QED  BY <1>2, <1>5, <1>7, <1>8, <1>9

\* What other leaders' snapshots hold is a map.
LEMMA SnapshotsAre ==
    ASSUME IInv, NEW k \in 1 .. Len(chosen), NEW data \in Snapshots(k)
    PROVE  data \in Map
<1>1. chosen \in Seq(Entry) /\ k \in Nat /\ Noop \in Entry
  BY EntriesAre DEF IInv, LoopTypes
<1>2. PICK S \in SUBSET (1 .. k) :
         data = After(Empty, [i \in 1 .. k |-> IF i \in S THEN chosen[i] ELSE Noop])
  BY DEF Snapshots
<1> DEFINE entries == [i \in 1 .. k |-> IF i \in S THEN chosen[i] ELSE Noop]
<1>3. \A i \in 1 .. k : chosen[i] \in Entry
  BY <1>1
<1>4. entries \in Seq(Entry)
  BY <1>1, <1>3
<1> QED  BY <1>2, <1>4, AfterType, EmptyType

LEMMA InstallDoes ==
    ASSUME IInv, NEW leader \in Nodes, NEW k \in 1 .. Len(chosen),
             NEW data \in Snapshots(k), Install(leader, k, data)
    PROVE  /\ chosen' = chosen /\ log' \in Seq(Entry) /\ Len(log') = k /\ k \in Nat
           /\ last_applied < k /\ k <= Len(chosen)
           /\ \A i \in 1 .. k : log'[i] = chosen[i] /\ data \in Map
           /\ todo' = <<[act |-> "Install", index |-> k, data |-> data]>> /\ todo' \in Seq(Action) /\ Len(todo') = 1
<1>1. /\ log \in Seq(Entry) /\ chosen \in Seq(Entry) /\ last_applied \in Nat /\ alive
      /\ Len(log) \in Nat /\ Len(chosen) \in Nat
  BY DEF IInv, LoopTypes, Install, Idle
<1>2. k \in Nat /\ k <= Len(chosen) /\ k \in 0 .. Len(chosen)
  BY <1>1
<1> DEFINE entries == SubSeq(chosen, 1, k)
<1>3. entries \in Seq(Entry) /\ Len(entries) = k /\ \A i \in 1 .. k : entries[i] = chosen[i]
  BY <1>1, <1>2, PrefixParts
<1>4. ~IsPrefix(entries, log) /\ log' = entries /\ chosen' = chosen
      /\ todo' = <<[act |-> "Install", index |-> k, data |-> data]>>
  BY DEF Install
<1> HIDE DEF entries
<1>5. last_applied < k
  <2> SUFFICES ASSUME k <= last_applied PROVE FALSE
    BY <1>1, <1>2
  <2>1. last_applied <= Len(log) /\ \A i \in 1 .. last_applied : log[i] = chosen[i]
    BY <1>1 DEF IInv, FlowInv, Agrees
  <2>2. k <= Len(log) /\ \A i \in 1 .. k : i \in 1 .. last_applied
    BY <2>1, <1>1, <1>2
  <2>3. IsPrefix(entries, log)
    BY <2>1, <2>2, <1>1, <1>3, IsPrefixIs
  <2> QED  BY <2>3, <1>4
<1>6. [act |-> "Install", index |-> k, data |-> data] \in Action
  BY <1>2, SnapshotsAre DEF Action, InstallAction
<1>7. todo' \in Seq(Action) /\ Len(todo') = 1
  BY <1>4, <1>6
<1> QED  BY <1>2, <1>3, <1>4, <1>5, <1>7, SnapshotsAre

LEMMA ElectedDoes ==
    ASSUME IInv, Elected
    PROVE  /\ log' = Append(log, Noop) /\ log' \in Seq(Entry) /\ Len(log') = Len(log) + 1
           /\ Len(log) \in Nat /\ log'[Len(log) + 1] = Noop
           /\ \A i \in 1 .. Len(log) : log'[i] = log[i]
           /\ Len(chosen) <= Len(log) /\ \A i \in 1 .. Len(chosen) : chosen[i] = log[i]
<1>1. log \in Seq(Entry) /\ chosen \in Seq(Entry) /\ Noop \in Entry
  BY EntriesAre DEF IInv, LoopTypes
<1>2. log' = Append(log, Noop) /\ IsPrefix(chosen, log)
  BY DEF Elected
<1>3. Len(chosen) <= Len(log) /\ \A i \in 1 .. Len(chosen) : chosen[i] = log[i]
  BY <1>1, <1>2, IsPrefixIs
<1> QED  BY <1>1, <1>2, <1>3, AppendParts

LEMMA ChosenDoes ==
    ASSUME IInv, NEW entry \in Foreign \cup {log[i] : i \in 1 .. Len(log)}, ChosenElsewhere(entry)
    PROVE  /\ entry \in Entry /\ chosen' = Append(chosen, entry) /\ chosen' \in Seq(Entry)
           /\ Len(chosen) \in Nat /\ Len(chosen') = Len(chosen) + 1
           /\ chosen'[Len(chosen) + 1] = entry
           /\ \A i \in 1 .. Len(chosen) : chosen'[i] = chosen[i]
           /\ \/ entry.client = None
              \/ Len(chosen) + 1 \in 1 .. Len(log) /\ log[Len(chosen) + 1] = entry
<1>1. log \in Seq(Entry) /\ chosen \in Seq(Entry)
  BY DEF IInv, LoopTypes
<1>2. entry \in Entry
  BY <1>1, EntriesAre
<1>3. chosen' = Append(chosen, entry)
  BY DEF ChosenElsewhere
<1>4. /\ Append(chosen, entry) \in Seq(Entry) /\ Len(chosen) \in Nat
      /\ Len(Append(chosen, entry)) = Len(chosen) + 1
      /\ Append(chosen, entry)[Len(chosen) + 1] = entry
      /\ \A i \in 1 .. Len(chosen) : Append(chosen, entry)[i] = chosen[i]
  BY <1>1, <1>2, AppendParts
<1>5. \/ entry.client = None
      \/ Len(chosen) + 1 \in 1 .. Len(log) /\ log[Len(chosen) + 1] = entry
  <2>1. CASE entry \in Foreign
    BY <2>1, EntriesAre
  <2>2. CASE IsPrefix(Append(chosen, entry), log)
    <3> DEFINE longer == Append(chosen, entry)
    <3>1. longer \in Seq(Entry) /\ Len(longer) = Len(chosen) + 1 /\ longer[Len(chosen) + 1] = entry
          /\ Len(chosen) + 1 \in Nat /\ Len(chosen) + 1 >= 1
      BY <1>4
    <3>2. IsPrefix(longer, log)
      BY <2>2
    <3> HIDE DEF longer
    <3>3. Len(longer) <= Len(log) /\ \A i \in 1 .. Len(longer) : longer[i] = log[i]
      BY <3>1, <3>2, <1>1, IsPrefixIs
    <3>4. Len(chosen) + 1 \in 1 .. Len(longer) /\ Len(chosen) + 1 \in 1 .. Len(log)
      BY <3>1, <3>3, <1>1
    <3> QED  BY <3>1, <3>3, <3>4
  <2> QED  BY <2>1, <2>2 DEF ChosenElsewhere
<1> QED  BY <1>2, <1>3, <1>4, <1>5

\* A follower that has told those who waited has no proposals pending.
LEMMA NonePending ==
    ASSUME IInv, Idle, role = "Follower"
    PROVE  pending_proposals = {} /\ alive /\ todo = << >> /\ step = "start"
<1>1. pending_proposals = {}
  BY DEF IInv, ClientInv, Standing, Idle
<1>2. alive /\ todo = << >>
  BY DEF Idle
<1>3. Len(todo) = 0 /\ last_applied \in Nat /\ handed \in Nat
  BY <1>2 DEF IInv, LoopTypes
<1>4. ~Installing
  BY <1>2 DEF Installing
<1>5. Applying
  BY <1>2, <1>4 DEF IInv, FlowInv
<1>6. step = "start"
  <2> SUFFICES ASSUME step # "start" PROVE FALSE
    OBVIOUS
  <2>1. Base < last_applied /\ last_applied - Base <= 0 /\ Base \in Int
    BY <1>5, <1>3 DEF Applying, Base
  <2> QED  BY <2>1, <1>3
<1> QED  BY <1>1, <1>2, <1>6

LEMMA TakeLoop ==
    ASSUME IInv, TakeProposal \/ TakeRead
    PROVE  LoopTypes'
<1>1. LoopTypes /\ HandlerTypes
  BY DEF IInv
<1>2. CASE TakeRead
  <2>1. reads # << >> /\ Head(reads) \in Client
    BY <1>2, <1>1, SeqParts DEF TakeRead, HandlerTypes
  <2>2. pending_reads' = pending_reads \/ pending_reads' = pending_reads \cup {Head(reads)}
    BY <1>2 DEF TakeRead
  <2>3. pending_reads' \subseteq Client
    BY <2>1, <2>2, <1>1 DEF LoopTypes
  <2>4. UNCHANGED <<todo, step, drain, alive, deposed, pending_proposals, num_entries, role,
                    current_leader, log, chosen, last_applied, handed>>
    BY <1>2 DEF TakeRead, raft
  <2> QED  BY <2>3, <2>4, <1>1 DEF LoopTypes
<1>3. CASE TakeProposal
  <2> DEFINE c == Head(proposals)
  <2>1. proposals # << >> /\ c \in Client /\ c = proposals[1] /\ 1 \in 1 .. Len(proposals)
    BY <1>3, <1>1, SeqParts DEF TakeProposal, HandlerTypes
  <2>2. UNCHANGED <<todo, step, drain, alive, deposed, pending_reads, num_entries, role,
                    current_leader, chosen, last_applied, handed>>
    BY <1>3 DEF TakeProposal
  <2>3. CASE role = "Leader"
    <3>1. /\ log' = Append(log, EntryOf(c))
          /\ pending_proposals' = pending_proposals \cup {[index |-> Len(log) + 1, client |-> c]}
      BY <1>3, <2>3 DEF TakeProposal
    <3>2. Proposed(c)
      BY <2>1 DEF Proposed, In
    <3>3. request[c] \in KvCommand
      BY <3>2, <2>1 DEF IInv, ClientInv, Places, Place
    <3>4. EntryOf(c) \in Entry
      BY <3>3, <2>1 DEF EntryOf, Entry, Command
    <3>5. log' \in Seq(Entry) /\ Len(log) \in Nat /\ Len(log') = Len(log) + 1
      BY <3>1, <3>4, <1>1, AppendParts DEF LoopTypes
    <3>6. Len(log) + 1 \in 1 .. Len(log') /\ \A i \in 1 .. Len(log) : i \in 1 .. Len(log')
      BY <3>5
    <3>7. pending_proposals' \subseteq [index : 1 .. Len(log'), client : Client]
      <4>1. \A p \in pending_proposals : p \in [index : 1 .. Len(log'), client : Client]
        BY <3>6, <1>1 DEF LoopTypes
      <4> QED  BY <4>1, <3>1, <3>6, <2>1
    <3> QED  BY <2>2, <3>5, <3>7, <1>1 DEF LoopTypes
  <2>4. CASE role # "Leader"
    <3>1. UNCHANGED <<log, pending_proposals>>
      BY <1>3, <2>4 DEF TakeProposal
    <3> QED  BY <2>2, <3>1, <1>1 DEF LoopTypes
  <2> QED  BY <2>3, <2>4
<1> QED  BY <1>2, <1>3

LEMMA ActionLoop ==
    ASSUME IInv,
           \/ ApplyAnswer \/ ApplySend \/ AskSnapshot \/ TakeSnapshot
           \/ InstallSnapshot \/ ReadBarrierReady \/ Drain
    PROVE  LoopTypes'
<1>1. LoopTypes
  BY DEF IInv
<1>2. ASSUME NEW a, NEW s, At(a, s)
      PROVE  /\ Tail(todo) \in Seq(Action) /\ step = s
             /\ a \in {"Apply", "Install"} => Head(todo).index \in Nat
  BY <1>2, HeadAction, ActionIs
<1>3. CASE ApplyAnswer
  <2> DEFINE mine == {p \in pending_proposals : p.index = Head(todo).index}
  <2>1. /\ At("Apply", "start") /\ pending_proposals' = pending_proposals \ mine
        /\ \/ todo' = Tail(todo) /\ step' = "start" /\ handed' = Head(todo).index
           \/ todo' = todo /\ step' = "send" /\ handed' = handed
        /\ UNCHANGED <<drain, alive, deposed, pending_reads, num_entries, role,
                       current_leader, log, chosen, last_applied>>
    BY <1>3 DEF ApplyAnswer, NextAction, raft
  <2>2. step = "start" /\ Tail(todo) \in Seq(Action) /\ Head(todo).index \in Nat
    BY <2>1, <1>2
  <2>3. num_entries < SnapshotThreshold
    BY <2>2, <1>1 DEF LoopTypes
  <2>4. pending_proposals' \subseteq [index : 1 .. Len(log), client : Client]
    BY <2>1, <1>1 DEF LoopTypes
  <2> QED  BY <2>1, <2>2, <2>3, <2>4, <1>1 DEF LoopTypes
<1>4. CASE ApplySend
  <2>1. /\ At("Apply", "send") /\ handed' = Head(todo).index /\ num_entries' = num_entries + 1
        /\ \/ num_entries + 1 >= SnapshotThreshold /\ step' = "ask" /\ todo' = todo
           \/ ~(num_entries + 1 >= SnapshotThreshold) /\ todo' = Tail(todo) /\ step' = "start"
        /\ UNCHANGED <<drain, alive, deposed, pending_proposals, pending_reads, role,
                       current_leader, log, chosen, last_applied>>
    BY <1>4 DEF ApplySend, NextAction, raft
  <2>2. step = "send" /\ Tail(todo) \in Seq(Action) /\ Head(todo).index \in Nat
    BY <2>1, <1>2
  <2>3. num_entries < SnapshotThreshold /\ num_entries \in Nat /\ SnapshotThreshold \in Nat
    BY <2>2, <1>1, ConstantsOK DEF LoopTypes
  <2>4. /\ num_entries' \in 0 .. SnapshotThreshold
        /\ step' \notin {"ask", "await"} => num_entries' < SnapshotThreshold
    BY <2>1, <2>3
  <2>5. todo' \in Seq(Action) /\ step' \in {"start", "send", "ask", "await"} /\ handed' \in Nat
    BY <2>1, <2>2, <1>1 DEF LoopTypes
  <2> QED  BY <2>1, <2>4, <2>5, <1>1 DEF LoopTypes
<1>5. CASE AskSnapshot
  <2>1. /\ step' = "await"
        /\ UNCHANGED <<todo, drain, alive, deposed, pending_proposals, pending_reads, role,
                       num_entries, current_leader, log, chosen, last_applied, handed>>
    BY <1>5 DEF AskSnapshot, raft
  <2> QED  BY <2>1, <1>1 DEF LoopTypes
<1>6. CASE TakeSnapshot
  <2>1. /\ At("Apply", "await") /\ num_entries' = 0 /\ todo' = Tail(todo) /\ step' = "start"
        /\ UNCHANGED <<drain, alive, deposed, pending_proposals, pending_reads, role,
                       current_leader, log, chosen, last_applied, handed>>
    BY <1>6 DEF TakeSnapshot, NextAction, raft
  <2>2. 0 \in 0 .. SnapshotThreshold /\ 0 < SnapshotThreshold
    BY ConstantsOK
  <2>3. Tail(todo) \in Seq(Action)
    BY <2>1, <1>2
  <2> QED  BY <2>1, <2>2, <2>3, <1>1 DEF LoopTypes
<1>7. CASE InstallSnapshot
  <2>1. /\ At("Install", "start") /\ handed' = Head(todo).index
        /\ todo' = Tail(todo) /\ step' = "start"
        /\ UNCHANGED <<drain, alive, deposed, pending_proposals, pending_reads, role,
                       num_entries, current_leader, log, chosen, last_applied>>
    BY <1>7, Zenon DEF InstallSnapshot, NextAction, raft
  <2>2. Tail(todo) \in Seq(Action) /\ Head(todo).index \in Nat /\ step = "start"
    BY <2>1, <1>2
  <2> QED  BY <2>1, <2>2, <1>1 DEF LoopTypes
<1>8. CASE ReadBarrierReady
  <2>1. /\ At("Ready", "start") /\ pending_reads' = pending_reads \ {Head(todo).client}
        /\ todo' = Tail(todo) /\ step' = "start"
        /\ UNCHANGED <<drain, alive, deposed, pending_proposals, role, handed,
                       num_entries, current_leader, log, chosen, last_applied>>
    BY <1>8 DEF ReadBarrierReady, NextAction, raft
  <2>2. Tail(todo) \in Seq(Action) /\ step = "start"
    BY <2>1, <1>2
  <2>3. pending_reads' \subseteq Client
    BY <2>1, <1>1 DEF LoopTypes
  <2> QED  BY <2>1, <2>2, <2>3, <1>1 DEF LoopTypes
<1>9. CASE Drain
  <2>1. /\ pending_proposals' = {} /\ pending_reads' = {} /\ drain' = FALSE
        /\ UNCHANGED <<todo, step, alive, deposed, role, handed,
                       num_entries, current_leader, log, chosen, last_applied>>
    BY <1>9 DEF Drain, raft
  <2>2. drain' \in BOOLEAN
    BY <2>1, Zenon
  <2> QED  BY <2>1, <2>2, <1>1 DEF LoopTypes
<1> QED  BY <1>3, <1>4, <1>5, <1>6, <1>7, <1>8, <1>9

LEMMA RaftLoop ==
    ASSUME IInv,
           \/ \E k \in last_applied .. Len(log), R \in SUBSET pending_reads : Advance(k, R)
           \/ \E leader \in Nodes, n \in 0 .. Len(chosen) :
                 \E k \in last_applied .. n : Follow(leader, n, k)
           \/ \E leader \in Nodes, k \in 1 .. Len(chosen) :
                 \E data \in Snapshots(k) : Install(leader, k, data)
           \/ Elected
           \/ \E leader \in Nodes \cup {None} : StepDown(leader)
           \/ \E entry \in Foreign \cup {log[i] : i \in 1 .. Len(log)} : ChosenElsewhere(entry)
           \/ EventLoopPanics
    PROVE  LoopTypes'
<1>1. LoopTypes
  BY DEF IInv
<1>2. ASSUME NEW k \in last_applied .. Len(log), NEW R \in SUBSET pending_reads, Advance(k, R)
      PROVE  LoopTypes'
  <2>1. todo' \in Seq(Action) /\ k \in Nat /\ chosen' \in Seq(Entry)
    BY <1>2, AdvanceDoes DEF Grows
  <2>2. /\ last_applied' = k
        /\ UNCHANGED <<step, drain, pending_proposals, pending_reads, num_entries, alive, role,
                       current_leader, deposed, handed, log>>
    BY <1>2 DEF Advance
  <2> QED  BY <2>1, <2>2, <1>1 DEF LoopTypes
<1>3. ASSUME NEW leader \in Nodes, NEW n \in 0 .. Len(chosen), NEW k \in last_applied .. n,
             Follow(leader, n, k)
      PROVE  LoopTypes'
  <2>1. todo' \in Seq(Action) /\ k \in Nat /\ chosen' = chosen /\ log' \in Seq(Entry)
    BY <1>3, FollowDoes
  <2>2. /\ last_applied' = k /\ current_leader' = leader
        /\ UNCHANGED <<step, drain, pending_proposals, pending_reads, num_entries, alive, role,
                       deposed, handed>>
    BY <1>3 DEF Follow
  <2>3. pending_proposals = {}
    BY <1>3, NonePending DEF Follow
  <2> QED  BY <2>1, <2>2, <2>3, <1>1 DEF LoopTypes
<1>4. ASSUME NEW leader \in Nodes, NEW k \in 1 .. Len(chosen),
             NEW data \in Snapshots(k), Install(leader, k, data)
      PROVE  LoopTypes'
  <2>1. todo' \in Seq(Action) /\ k \in Nat /\ chosen' = chosen /\ log' \in Seq(Entry)
    BY <1>4, InstallDoes
  <2>2. /\ last_applied' = k /\ current_leader' = leader
        /\ UNCHANGED <<step, drain, pending_proposals, pending_reads, num_entries, alive, role,
                       deposed, handed>>
    BY <1>4 DEF Install
  <2>3. pending_proposals = {}
    BY <1>4, NonePending DEF Install
  <2> QED  BY <2>1, <2>2, <2>3, <1>1 DEF LoopTypes
<1>5. CASE Elected
  <2>1. log' \in Seq(Entry) /\ pending_proposals = {}
    BY <1>5, ElectedDoes, NonePending DEF Elected
  <2>2. /\ role' = "Leader" /\ current_leader' = node_id /\ deposed' = FALSE
        /\ UNCHANGED <<todo, step, drain, pending_proposals, pending_reads, num_entries, alive,
                       last_applied, chosen, handed>>
    BY <1>5 DEF Elected, loop
  <2>3. deposed' \in BOOLEAN
    BY <2>2, Zenon
  <2> QED  BY <2>1, <2>2, <2>3, <1>1, NodeIdIs DEF LoopTypes
<1>6. ASSUME NEW leader \in Nodes \cup {None}, StepDown(leader) PROVE LoopTypes'
  <2>1. /\ role' = "Follower" /\ current_leader' = leader /\ drain' = TRUE
        /\ UNCHANGED <<todo, step, deposed, pending_proposals, pending_reads, num_entries, alive,
                       last_applied, chosen, handed, log>>
    BY <1>6 DEF StepDown
  <2>2. drain' \in BOOLEAN
    BY <2>1, Zenon
  <2> QED  BY <2>1, <2>2, <1>1 DEF LoopTypes
<1>7. ASSUME NEW entry \in Foreign \cup {log[i] : i \in 1 .. Len(log)}, ChosenElsewhere(entry)
      PROVE  LoopTypes'
  <2>1. chosen' \in Seq(Entry)
    BY <1>7, ChosenDoes
  <2>2. /\ deposed' = (role = "Leader")
        /\ UNCHANGED <<todo, step, drain, pending_proposals, pending_reads, num_entries, alive,
                       last_applied, role, current_leader, handed, log>>
    BY <1>7 DEF ChosenElsewhere, loop
  <2>3. deposed' \in BOOLEAN
    BY <2>2, Zenon
  <2> QED  BY <2>1, <2>2, <2>3, <1>1 DEF LoopTypes
<1>8. CASE EventLoopPanics
  <2>1. /\ alive' = FALSE /\ drain' = FALSE /\ deposed' = FALSE
        /\ todo' = << >> /\ step' = "start" /\ pending_proposals' = {} /\ pending_reads' = {}
        /\ num_entries' = 0 /\ role' = "Follower" /\ current_leader' = None /\ log' = << >>
        /\ UNCHANGED <<last_applied, chosen, handed>>
    BY <1>8 DEF EventLoopPanics
  <2>2. alive' \in BOOLEAN /\ drain' \in BOOLEAN /\ deposed' \in BOOLEAN
    BY <2>1, Zenon
  <2>3. << >> \in Seq(Action) /\ << >> \in Seq(Entry)
    OBVIOUS
  <2>4. 0 \in 0 .. SnapshotThreshold /\ 0 < SnapshotThreshold
    BY ConstantsOK
  <2> QED  BY <2>1, <2>2, <2>3, <2>4, <1>1 DEF LoopTypes
<1> QED  BY <1>2, <1>3, <1>4, <1>5, <1>6, <1>7, <1>8

LEMMA NextLoop == IInv /\ [Next]_vars => LoopTypes'
<1> SUFFICES ASSUME IInv, [Next]_vars PROVE LoopTypes'
  OBVIOUS
<1>1. LoopTypes
  BY DEF IInv
<1>2. ASSUME UNCHANGED <<loop, raft, handed>> PROVE LoopTypes'
  <2>1. UNCHANGED <<todo, step, drain, pending_proposals, pending_reads, num_entries, alive,
                    role, current_leader, log, last_applied, chosen, deposed, handed>>
    BY <1>2 DEF loop, raft
  <2> QED  BY <2>1, <1>1 DEF LoopTypes
<1>3. ASSUME NEW c \in Client, NEW r \in Request, Submit(c, r) PROVE LoopTypes'
  BY <1>3, <1>2 DEF Submit
<1>4. ASSUME NEW c \in Client, Answered(c) \/ ReadStore(c) PROVE LoopTypes'
  BY <1>4, <1>2 DEF Answered, ReadStore
<1>5. CASE ApplyNext
  BY <1>5, <1>2 DEF ApplyNext
<1>6. CASE UNCHANGED vars
  BY <1>6, <1>2 DEF vars
<1> QED
  BY <1>3, <1>4, <1>5, <1>6, TakeLoop, ActionLoop, RaftLoop, FlatNext DEF Stepping

(***************************************************************************)
(* The first action of the event loop, by its kind.                        *)
(***************************************************************************)
LEMMA BaseIs ==
    ASSUME IInv
    PROVE  /\ Base \in Nat /\ Base <= handed /\ handed \in Nat /\ last_applied \in Nat
           /\ handed <= last_applied /\ last_applied <= Len(chosen) /\ Len(chosen) \in Nat
           /\ step \in {"ask", "await"} => Base = handed - 1 /\ handed >= 1
           /\ step \notin {"ask", "await"} => Base = handed
<1>1. handed \in Nat /\ last_applied \in Nat /\ chosen \in Seq(Entry)
  BY DEF IInv, LoopTypes
<1>2. /\ handed <= last_applied /\ last_applied <= Len(chosen)
      /\ step \in {"ask", "await"} => handed >= 1
  BY DEF IInv, FlowInv, Agrees
<1> QED  BY <1>1, <1>2 DEF Base

LEMMA HeadApply ==
    ASSUME IInv, NEW s, At("Apply", s)
    PROVE  /\ Applying /\ Base + 1 \in 1 .. last_applied /\ Base + 1 \in 1 .. Len(chosen)
           /\ Base + 1 \in Nat
           /\ Head(todo) = [act |-> "Apply", index |-> Base + 1, entry |-> chosen[Base + 1]]
           /\ Head(todo).index = Base + 1 /\ Head(todo).entry = chosen[Base + 1]
           /\ chosen[Base + 1] \in Entry /\ Head(todo).entry.command \in Command
<1>1. /\ alive /\ todo[1].act = "Apply" /\ Head(todo) = todo[1] /\ todo[1] \in Action
      /\ Len(todo) \in Nat /\ Len(todo) >= 1
  BY HeadAction
<1>2. Base \in Nat /\ last_applied \in Nat /\ last_applied <= Len(chosen) /\ Len(chosen) \in Nat
  BY BaseIs
<1>3. ~Installing
  <2> SUFFICES ASSUME Installing PROVE FALSE
    OBVIOUS
  <2>1. PICK data : todo = <<[act |-> "Install", index |-> last_applied, data |-> data]>>
    BY DEF Installing
  <2>2. todo[1].act = "Install"
    BY <2>1
  <2> QED  BY <2>2, <1>1
<1>4. Applying
  BY <1>1, <1>3 DEF IInv, FlowInv
<1>5. 1 \in 1 .. Len(todo)
  BY <1>1
<1>6. 1 <= last_applied - Base
  <2> SUFFICES ASSUME ~(1 <= last_applied - Base) PROVE FALSE
    OBVIOUS
  <2>1. todo[1] \in ReadyAction
    BY <1>4, <1>5 DEF Applying
  <2> QED  BY <2>1, <1>1, ActionIs
<1>7. todo[1] = [act |-> "Apply", index |-> Base + 1, entry |-> chosen[Base + 1]]
  BY <1>4, <1>5, <1>6 DEF Applying
<1>8. Base + 1 \in 1 .. last_applied /\ Base + 1 \in 1 .. Len(chosen) /\ Base + 1 \in Nat
  BY <1>2, <1>6
<1>9. chosen[Base + 1] \in Entry
  BY <1>8 DEF IInv, LoopTypes
<1>10. chosen[Base + 1].command \in Command
  BY <1>9 DEF Entry
<1> QED  BY <1>1, <1>4, <1>7, <1>8, <1>9, <1>10

LEMMA HeadInstall ==
    ASSUME IInv, NEW s, At("Install", s)
    PROVE  /\ Installing /\ Head(todo).index = last_applied /\ Tail(todo) = << >>
           /\ Head(todo).data \in Map
<1>1. /\ alive /\ todo[1].act = "Install" /\ Head(todo) = todo[1] /\ todo[1] \in Action
      /\ Len(todo) \in Nat /\ Len(todo) >= 1 /\ Tail(todo) \in Seq(Action)
      /\ Len(Tail(todo)) = Len(todo) - 1
  BY HeadAction
<1>2. ~Applying
  <2> SUFFICES ASSUME Applying PROVE FALSE
    OBVIOUS
  <2>1. 1 \in 1 .. Len(todo)
    BY <1>1
  <2>2. \/ todo[1] = [act |-> "Apply", index |-> Base + 1, entry |-> chosen[Base + 1]]
        \/ todo[1] \in ReadyAction
    BY <2>1 DEF Applying
  <2> QED  BY <2>2, <1>1, ActionIs
<1>3. Installing
  BY <1>1, <1>2 DEF IInv, FlowInv
<1>4. PICK data \in Map : todo = <<[act |-> "Install", index |-> last_applied, data |-> data]>>
  BY <1>3 DEF Installing
<1>5. /\ todo[1] = [act |-> "Install", index |-> last_applied, data |-> data]
      /\ todo[1].index = last_applied /\ todo[1].data = data
  BY <1>4
<1>6. Tail(todo) = << >>
  BY <1>4
<1> QED  BY <1>1, <1>3, <1>5, <1>6

LEMMA HeadReady ==
    ASSUME IInv, NEW s, At("Ready", s)
    PROVE  /\ Applying /\ step = "start" /\ handed = last_applied /\ Base = handed
           /\ Head(todo).client \in Client /\ Head(todo).client \in pending_reads
<1>1. /\ alive /\ todo[1].act = "Ready" /\ Head(todo) = todo[1] /\ todo[1] \in Action
      /\ Len(todo) \in Nat /\ Len(todo) >= 1
  BY HeadAction
<1>2. Base \in Nat /\ last_applied \in Nat /\ handed \in Nat /\ handed <= last_applied
      /\ (step \notin {"ask", "await"} => Base = handed)
  BY BaseIs
<1>3. ~Installing
  <2> SUFFICES ASSUME Installing PROVE FALSE
    OBVIOUS
  <2>1. PICK data : todo = <<[act |-> "Install", index |-> last_applied, data |-> data]>>
    BY DEF Installing
  <2>2. todo[1].act = "Install"
    BY <2>1
  <2> QED  BY <2>2, <1>1
<1>4. Applying
  BY <1>1, <1>3 DEF IInv, FlowInv
<1>5. 1 \in 1 .. Len(todo)
  BY <1>1
<1>6. ~(1 <= last_applied - Base)
  <2> SUFFICES ASSUME 1 <= last_applied - Base PROVE FALSE
    OBVIOUS
  <2>1. todo[1] = [act |-> "Apply", index |-> Base + 1, entry |-> chosen[Base + 1]]
    BY <1>4, <1>5 DEF Applying
  <2> QED  BY <2>1, <1>1
<1>7. step = "start"
  BY <1>2, <1>4, <1>6 DEF Applying
<1>8. Base = handed /\ handed = last_applied
  BY <1>2, <1>6, <1>7
<1>9. todo[1].client \in Client
  BY <1>1, ActionIs
<1>10. todo[1].client \in pending_reads
  BY <1>1, <1>5 DEF IInv, ClientInv, ReadyOnce
<1> QED  BY <1>1, <1>4, <1>7, <1>8, <1>9, <1>10

\* The states since a snapshot, and that they stay.
LEMMA UptoEntries ==
    ASSUME NEW l \in Seq(Entry), NEW b \in SnapshotBase, NEW i \in Nat, b.index <= i, i <= Len(l)
    PROVE  /\ SubSeq(l, b.index + 1, i) \in Seq(Entry)
           /\ Len(SubSeq(l, b.index + 1, i)) = i - b.index
           /\ \A k \in 1 .. i - b.index : SubSeq(l, b.index + 1, i)[k] = l[b.index + k]
           /\ b.index \in Nat /\ b.data \in Map /\ i - b.index \in Nat
<1>1. b.index \in Nat /\ b.data \in Map /\ Len(l) \in Nat
  BY DEF SnapshotBase
<1> DEFINE m == b.index + 1
<1>2. m \in Int /\ i \in Int /\ \A k \in m .. i : l[k] \in Entry
  BY <1>1
<1>3. /\ SubSeq(l, m, i) \in Seq(Entry)
      /\ Len(SubSeq(l, m, i)) = IF m <= i THEN i - m + 1 ELSE 0
      /\ \A k \in 1 .. i - m + 1 : SubSeq(l, m, i)[k] = l[m + k - 1]
  <2> HIDE DEF m
  <2> QED  BY <1>2, SubSeqProperties, SMTT(30)
<1>4. i - m + 1 = i - b.index /\ (~(m <= i) => i - b.index = 0) /\ i - b.index \in Nat
      /\ \A k \in 1 .. i - b.index : m + k - 1 = b.index + k
  BY <1>1
<1> QED  BY <1>1, <1>3, <1>4

LEMMA UptoType ==
    ASSUME IInv, NEW b \in SnapshotBase, NEW i \in Nat, b.index <= i, i <= Len(chosen)
    PROVE  Upto(b, chosen, i) \in Map
<1>1. chosen \in Seq(Entry)
  BY DEF IInv, LoopTypes
<1>2. SubSeq(chosen, b.index + 1, i) \in Seq(Entry) /\ b.data \in Map
  BY <1>1, UptoEntries
<1> QED  BY <1>2, AfterType DEF Upto

LEMMA UptoStart ==
    ASSUME NEW b \in SnapshotBase, NEW l
    PROVE  Upto(b, l, b.index) = b.data
<1>1. b.index \in Int /\ b.index + 1 \in Int /\ b.index < b.index + 1 /\ b.data \in Map
  BY DEF SnapshotBase
<1>2. SubSeq(l, b.index + 1, b.index) = << >>
  BY <1>1, SubSeqEmpty
<1> QED  BY <1>1, <1>2, AfterNothing DEF Upto

LEMMA UptoStays ==
    ASSUME IInv, Grows, NEW b \in SnapshotBase, NEW i \in Nat, b.index <= i, i <= Len(chosen)
    PROVE  Upto(b, chosen', i) = Upto(b, chosen, i) /\ i <= Len(chosen')
<1>1. /\ chosen \in Seq(Entry) /\ chosen' \in Seq(Entry) /\ Len(chosen) <= Len(chosen')
      /\ Len(chosen) \in Nat /\ Len(chosen') \in Nat
      /\ \A k \in 1 .. Len(chosen) : chosen'[k] = chosen[k]
  BY DEF IInv, LoopTypes, Grows
<1>2. i <= Len(chosen')
  BY <1>1
<1> DEFINE n == i - b.index
           s == SubSeq(chosen, b.index + 1, i)
           t == SubSeq(chosen', b.index + 1, i)
<1>3. s \in Seq(Entry) /\ Len(s) = n /\ \A k \in 1 .. n : s[k] = chosen[b.index + k]
  BY <1>1, UptoEntries
<1>4. t \in Seq(Entry) /\ Len(t) = n /\ \A k \in 1 .. n : t[k] = chosen'[b.index + k]
  BY <1>1, <1>2, UptoEntries
<1>5. \A k \in 1 .. n : b.index + k \in 1 .. Len(chosen)
  BY <1>1 DEF SnapshotBase
<1> HIDE DEF s, t, n
<1>6. \A k \in 1 .. n : s[k] = t[k]
  BY <1>1, <1>3, <1>4, <1>5
<1>7. s = t
  BY <1>3, <1>4, <1>6, SeqEqual
<1> QED  BY <1>2, <1>7 DEF s, t, Upto

LEMMA UptoNext ==
    ASSUME IInv, NEW b \in SnapshotBase, NEW i \in Nat, b.index <= i, i + 1 <= Len(chosen)
    PROVE  /\ Upto(b, chosen, i + 1) = Effect(Upto(b, chosen, i), chosen[i + 1].command)
           /\ Upto(b, chosen, i) \in Map
<1>1. chosen \in Seq(Entry) /\ Len(chosen) \in Nat /\ b.index \in Nat
  BY DEF IInv, LoopTypes, SnapshotBase
<1> DEFINE n == i - b.index
           s == SubSeq(chosen, b.index + 1, i)
           t == SubSeq(chosen, b.index + 1, i + 1)
<1>2. /\ s \in Seq(Entry) /\ Len(s) = n /\ \A k \in 1 .. n : s[k] = chosen[b.index + k]
      /\ b.data \in Map /\ n \in Nat
  BY <1>1, UptoEntries, SMTT(30)
<1>3. /\ i + 1 \in Nat /\ b.index <= i + 1 /\ (i + 1) - b.index = n + 1
      /\ n + 1 \in 1 .. n + 1 /\ b.index + (n + 1) = i + 1
  <2> DEFINE x == b.index
  <2>1. x \in Nat /\ x <= i
    BY <1>1
  <2> HIDE DEF x
  <2>2. /\ i + 1 \in Nat /\ x <= i + 1 /\ (i + 1) - x = (i - x) + 1
        /\ (i - x) + 1 \in 1 .. (i - x) + 1 /\ x + ((i - x) + 1) = i + 1
    BY <2>1
  <2> QED  BY <2>2 DEF x
<1>4. t \in Seq(Entry) /\ Len(t) = n + 1 /\ \A k \in 1 .. n + 1 : t[k] = chosen[b.index + k]
  <2> DEFINE j == i + 1
  <2>1. j \in Nat /\ b.index <= j /\ j <= Len(chosen)
    BY <1>1, <1>3
  <2> HIDE DEF j
  <2>2. /\ SubSeq(chosen, b.index + 1, j) \in Seq(Entry)
        /\ Len(SubSeq(chosen, b.index + 1, j)) = j - b.index
        /\ \A k \in 1 .. j - b.index : SubSeq(chosen, b.index + 1, j)[k] = chosen[b.index + k]
    BY <1>1, <2>1, UptoEntries
  <2>3. j - b.index = n + 1
    BY <1>3 DEF j
  <2> HIDE DEF n
  <2> QED  BY <2>2, <2>3 DEF j
<1> HIDE DEF s, t, n
<1>5. (\A k \in 1 .. n : s[k] = t[k]) /\ t[n + 1] = chosen[i + 1]
  BY <1>2, <1>3, <1>4
<1>6. /\ After(b.data, s) \in Map
      /\ After(b.data, t) = Effect(After(b.data, s), t[n + 1].command)
  BY <1>2, <1>4, <1>5, AfterNext
<1> QED  BY <1>5, <1>6 DEF s, t, Upto

\* Between two inputs all that was applied has been handed over.
LEMMA IdleIs ==
    ASSUME IInv, Idle
    PROVE  /\ alive /\ ~drain /\ todo = << >> /\ Len(todo) = 0 /\ step = "start"
           /\ handed = last_applied /\ Base = handed
<1>1. alive /\ ~drain /\ todo = << >> /\ Len(todo) = 0
  BY DEF Idle
<1>2. Base \in Nat /\ last_applied \in Nat /\ handed \in Nat /\ handed <= last_applied
      /\ Base <= handed /\ (step \notin {"ask", "await"} => Base = handed)
  BY BaseIs
<1>3. Applying
  BY <1>1 DEF IInv, FlowInv, Installing
<1>4. last_applied - Base <= 0 /\ (step # "start" => Base < last_applied)
  BY <1>1, <1>3 DEF Applying
<1> QED  BY <1>1, <1>2, <1>4

-----------------------------------------------------------------------------
(***************************************************************************)
(* What is chosen only grows; the channels keep their types.               *)
(***************************************************************************)
LEMMA NextGrows == IInv /\ [Next]_vars => Grows
<1> SUFFICES ASSUME IInv, [Next]_vars PROVE Grows
  OBVIOUS
<1>1. chosen \in Seq(Entry)
  BY DEF IInv, LoopTypes
<1>2. ASSUME chosen' = chosen PROVE Grows
  BY <1>1, <1>2 DEF Grows
<1>3. ASSUME NEW c \in Client, NEW r \in Request, Submit(c, r) PROVE Grows
  BY <1>3, <1>2 DEF Submit, raft
<1>4. ASSUME NEW c \in Client, Answered(c) \/ ReadStore(c) PROVE Grows
  BY <1>4, <1>2 DEF Answered, ReadStore, raft
<1>5. CASE TakeProposal \/ TakeRead \/ ApplyAnswer \/ ApplySend \/ AskSnapshot \/ TakeSnapshot
  BY <1>5, <1>2 DEF TakeProposal, TakeRead, ApplyAnswer, ApplySend, AskSnapshot, TakeSnapshot, raft
<1>6. CASE InstallSnapshot \/ ReadBarrierReady \/ Drain
  BY <1>6, <1>2, Zenon DEF InstallSnapshot, ReadBarrierReady, Drain, raft
<1>7. ASSUME NEW k \in last_applied .. Len(log), NEW R \in SUBSET pending_reads, Advance(k, R)
      PROVE  Grows
  BY <1>7, AdvanceDoes
<1>8. ASSUME NEW leader, NEW n, NEW k, Follow(leader, n, k) PROVE Grows
  BY <1>8, <1>2 DEF Follow
<1>9. ASSUME NEW leader, NEW k, NEW data, Install(leader, k, data) PROVE Grows
  BY <1>9, <1>2 DEF Install
<1>10. CASE Elected
  BY <1>10, <1>2 DEF Elected
<1>11. ASSUME NEW leader, StepDown(leader) PROVE Grows
  BY <1>11, <1>2 DEF StepDown
<1>12. ASSUME NEW entry \in Foreign \cup {log[i] : i \in 1 .. Len(log)}, ChosenElsewhere(entry)
       PROVE  Grows
  BY <1>12, ChosenDoes DEF Grows
<1>13. CASE EventLoopPanics
  BY <1>13, <1>2 DEF EventLoopPanics
<1>14. CASE ApplyNext
  BY <1>14, <1>2 DEF ApplyNext, raft
<1>15. CASE UNCHANGED vars
  BY <1>15, <1>2 DEF vars, raft
<1> QED
  BY <1>3, <1>4, <1>5, <1>6, <1>7, <1>8, <1>9, <1>10, <1>11, <1>12, <1>13, <1>14, <1>15,
     FlatNext DEF Stepping

LEMMA ItemsAre ==
    /\ [type |-> "SnapshotRequest"] \in Item
    /\ \A command \in Command, index \in Nat :
          [type |-> "Command", command |-> command, index |-> index] \in Item
    /\ \A data \in Map, index \in Nat :
          [type |-> "Snapshot", data |-> data, index |-> index] \in Item
    /\ \A item \in Item :
          /\ item.type \in {"Command", "Snapshot", "SnapshotRequest"}
          /\ item.type # "SnapshotRequest" => item.index \in Nat
<1>1. /\ [type |-> "SnapshotRequest"] \in Item
      /\ \A command \in Command, index \in Nat :
            [type |-> "Command", command |-> command, index |-> index] \in Item
      /\ \A data \in Map, index \in Nat :
            [type |-> "Snapshot", data |-> data, index |-> index] \in Item
  BY DEF Item, CommandItem, SnapshotItem, RequestItem
<1>2. ASSUME NEW item \in Item
      PROVE  /\ item.type \in {"Command", "Snapshot", "SnapshotRequest"}
             /\ item.type # "SnapshotRequest" => item.index \in Nat
  <2>1. CASE item \in CommandItem
    BY <2>1 DEF CommandItem
  <2>2. CASE item \in SnapshotItem
    BY <2>2 DEF SnapshotItem
  <2>3. CASE item \in RequestItem
    BY <2>3 DEF RequestItem
  <2> QED  BY <2>1, <2>2, <2>3 DEF Item
<1> QED  BY <1>1, <1>2

\* Something is put on the apply channel.
LEMMA SendTypes ==
    ASSUME IInv, NEW item \in Item, ToApplication(item)
    PROVE  applied' \in Seq(Item) /\ Len(applied') <= CHANNEL_BUFFER
<1>1. applied \in Seq(Item)
  BY DEF IInv, ChannelTypes
<1>2. Len(applied) < CHANNEL_BUFFER /\ applied' = Append(applied, item)
  BY DEF ToApplication
<1> QED  BY <1>1, <1>2, AppendParts, ConstantsOK

LEMMA NextChannelTypes == IInv /\ [Next]_vars => ChannelTypes'
<1> SUFFICES ASSUME IInv, [Next]_vars PROVE ChannelTypes'
  OBVIOUS
<1>1. ChannelTypes
  BY DEF IInv
<1>2. ASSUME UNCHANGED <<applied, reply, store, stored, snapshot, installed>> PROVE ChannelTypes'
  BY <1>1, <1>2 DEF ChannelTypes
<1>3. ASSUME NEW c \in Client, NEW r \in Request, Submit(c, r) PROVE ChannelTypes'
  BY <1>3, <1>2 DEF Submit, loop, app
<1>4. ASSUME NEW c \in Client, Answered(c) \/ ReadStore(c) PROVE ChannelTypes'
  BY <1>4, <1>2 DEF Answered, ReadStore, loop, app, channels
<1>5. CASE TakeProposal \/ TakeRead \/ ApplyAnswer \/ ReadBarrierReady \/ Drain
  BY <1>5, <1>2 DEF TakeProposal, TakeRead, ApplyAnswer, ReadBarrierReady, Drain, app, channels
<1>6. CASE ApplySend
  <2> DEFINE item == [type |-> "Command", command |-> Head(todo).entry.command,
                      index |-> Head(todo).index]
  <2>1. At("Apply", "send") /\ ToApplication(item) /\ UNCHANGED <<reply, snapshot, store, stored, installed>>
    BY <1>6 DEF ApplySend, app
  <2>2. Head(todo).entry.command \in Command /\ Head(todo).index \in Nat
    BY <2>1, HeadApply
  <2>3. item \in Item
    BY <2>2, ItemsAre
  <2> HIDE DEF item
  <2>4. applied' \in Seq(Item) /\ Len(applied') <= CHANNEL_BUFFER
    BY <2>1, <2>3, SendTypes
  <2> QED  BY <2>1, <2>4, <1>1 DEF ChannelTypes
<1>7. CASE AskSnapshot
  <2>1. ToApplication([type |-> "SnapshotRequest"]) /\ UNCHANGED <<reply, snapshot, store, stored, installed>>
    BY <1>7 DEF AskSnapshot, app
  <2>2. applied' \in Seq(Item) /\ Len(applied') <= CHANNEL_BUFFER
    BY <2>1, ItemsAre, SendTypes
  <2> QED  BY <2>1, <2>2, <1>1 DEF ChannelTypes
<1>8. CASE TakeSnapshot
  <2>1. /\ reply # None /\ snapshot' = [data |-> reply, upto |-> handed] /\ reply' = None
        /\ UNCHANGED <<applied, store, stored, installed>>
    BY <1>8 DEF TakeSnapshot, app
  <2>2. snapshot' \in [data : Map, upto : Nat]
    BY <2>1, <1>1 DEF ChannelTypes, IInv, LoopTypes
  <2> QED  BY <2>1, <2>2, <1>1 DEF ChannelTypes
<1>9. CASE InstallSnapshot
  <2> DEFINE index == Head(todo).index
             data == Head(todo).data
             item == [type |-> "Snapshot", data |-> data, index |-> index]
  <2>1. /\ At("Install", "start") /\ ToApplication(item)
        /\ snapshot' = [data |-> data, upto |-> index]
        /\ installed' = [data |-> data, index |-> index]
        /\ UNCHANGED <<reply, store, stored>>
    BY <1>9, Zenon DEF InstallSnapshot, app
  <2>2. index = last_applied /\ last_applied \in Nat /\ data \in Map
    BY <2>1, HeadInstall, BaseIs
  <2> HIDE DEF data, index
  <2>4. /\ item \in Item /\ snapshot' \in [data : Map, upto : Nat]
        /\ installed' \in SnapshotBase
    BY <2>1, <2>2, ItemsAre DEF SnapshotBase
  <2> HIDE DEF item
  <2>5. applied' \in Seq(Item) /\ Len(applied') <= CHANNEL_BUFFER
    BY <2>1, <2>4, SendTypes
  <2> QED  BY <2>1, <2>4, <2>5, <1>1 DEF ChannelTypes
<1>10. ASSUME NEW k, NEW R, Advance(k, R) PROVE ChannelTypes'
  BY <1>10, <1>2 DEF Advance, channels, app
<1>11. ASSUME NEW leader, NEW n, NEW k, Follow(leader, n, k) PROVE ChannelTypes'
  BY <1>11, <1>2 DEF Follow, channels, app
<1>12. ASSUME NEW leader, NEW k, NEW data, Install(leader, k, data) PROVE ChannelTypes'
  BY <1>12, <1>2 DEF Install, channels, app
<1>13. CASE Elected
  BY <1>13, <1>2 DEF Elected, channels, loop, app
<1>14. ASSUME NEW leader, StepDown(leader) PROVE ChannelTypes'
  BY <1>14, <1>2 DEF StepDown, channels, app
<1>15. ASSUME NEW entry, ChosenElsewhere(entry) PROVE ChannelTypes'
  BY <1>15, <1>2 DEF ChosenElsewhere, channels, loop, app
<1>16. CASE EventLoopPanics
  <2>1. reply' = None /\ UNCHANGED <<applied, snapshot, store, stored, installed>>
    BY <1>16 DEF EventLoopPanics, app
  <2> QED  BY <2>1, <1>1 DEF ChannelTypes
<1>17. CASE ApplyNext
  <2> DEFINE item == Head(applied)
  <2>1. /\ applied # << >> /\ applied' = Tail(applied) /\ store' = Replay(store, item)
        /\ stored' = IF item.type = "SnapshotRequest" THEN stored ELSE item.index
        /\ reply' = store \/ reply' = reply
        /\ UNCHANGED <<snapshot, installed>>
    BY <1>17 DEF ApplyNext, loop
  <2>2. item \in Item /\ applied' \in Seq(Item) /\ Len(applied') <= CHANNEL_BUFFER
    BY <2>1, <1>1, SeqParts, ConstantsOK DEF ChannelTypes
  <2> HIDE DEF item
  <2>3. store' \in Map
    BY <2>1, <2>2, <1>1, ReplayIs DEF ChannelTypes
  <2>4. stored' \in Nat
    BY <2>1, <2>2, <1>1, ItemsAre DEF ChannelTypes
  <2> QED  BY <2>1, <2>2, <2>3, <2>4, <1>1 DEF ChannelTypes
<1>18. CASE UNCHANGED vars
  BY <1>18, <1>2 DEF vars, channels, loop, app
<1> QED
  BY <1>3, <1>4, <1>5, <1>6, <1>7, <1>8, <1>9, <1>10, <1>11, <1>12, <1>13, <1>14, <1>15,
     <1>16, <1>17, <1>18, FlatNext DEF Stepping

-----------------------------------------------------------------------------
(***************************************************************************)
(* The event loop keeps its place in the log.                              *)
(***************************************************************************)
\* Agrees and the rest of FlowInv where neither Raft's part nor the number of
\* entries handed over is touched.
LEMMA FlowFrame ==
    ASSUME IInv, UNCHANGED <<todo, step, alive, role, log, last_applied, chosen, deposed, handed>>,
           drain' = drain \/ drain' = FALSE
    PROVE  FlowInv'
<1>1. FlowInv
  BY DEF IInv
<1>2. Base' = Base
  BY DEF Base
<1>3. Agrees'
  BY <1>1 DEF FlowInv, Agrees
<1>4. alive' => Installing' \/ Applying'
  <2>1. Installing => Installing'
    BY DEF Installing
  <2>2. Applying => Applying'
    BY <1>2 DEF Applying
  <2> QED  BY <2>1, <2>2, <1>1 DEF FlowInv
<1>5. drain' => drain
  OBVIOUS
<1> QED  BY <1>1, <1>3, <1>4, <1>5 DEF FlowInv

\* One more entry has been handed over, and the event loop goes on to the
\* next action.
LEMMA NextEntry ==
    ASSUME IInv, NEW s, At("Apply", s), NextAction, handed' = Base + 1,
           UNCHANGED <<alive, role, log, last_applied, chosen, deposed, drain>>
    PROVE  FlowInv'
<1>1. /\ alive /\ todo # << >> /\ Tail(todo) \in Seq(Action)
      /\ Len(todo) \in Nat /\ Len(todo) >= 1 /\ Len(Tail(todo)) = Len(todo) - 1
      /\ \A i \in 1 .. Len(todo) - 1 : Tail(todo)[i] = todo[i + 1] /\ i + 1 \in 1 .. Len(todo)
  BY HeadAction
<1>2. Applying /\ Base + 1 \in 1 .. last_applied
  BY HeadApply
<1>3. Base \in Nat /\ last_applied \in Nat /\ last_applied <= Len(chosen)
  BY BaseIs
<1>4. todo' = Tail(todo) /\ step' = "start"
  BY DEF NextAction
<1>5. Base' = Base + 1
  BY <1>4 DEF Base
<1>6. Agrees'
  BY <1>2, <1>3, <1>4 DEF IInv, FlowInv, Agrees
<1>7. Applying'
  <2>1. last_applied - (Base + 1) <= Len(todo')
    BY <1>1, <1>2, <1>3, <1>4 DEF Applying
  <2>2. ASSUME NEW i \in 1 .. Len(todo')
        PROVE  IF i <= last_applied - (Base + 1)
               THEN todo'[i] = [act |-> "Apply", index |-> (Base + 1) + i, entry |-> chosen[(Base + 1) + i]]
               ELSE todo'[i] \in ReadyAction
    <3>1. i \in 1 .. Len(todo) - 1 /\ i \in Nat
      BY <1>1, <1>4
    <3>2. PICK m \in 1 .. Len(todo) : m = i + 1
      BY <3>1, <1>1
    <3>3. todo'[i] = todo[m]
      BY <3>1, <3>2, <1>1, <1>4
    <3>4. IF m <= last_applied - Base
          THEN todo[m] = [act |-> "Apply", index |-> Base + m, entry |-> chosen[Base + m]]
          ELSE todo[m] \in ReadyAction
      BY <1>2 DEF Applying
    <3>5. Base + m = (Base + 1) + i /\ (m <= last_applied - Base <=> i <= last_applied - (Base + 1))
      BY <3>1, <3>2, <1>3
    <3> QED  BY <3>3, <3>4, <3>5
  <2> QED  BY <2>1, <2>2, <1>4, <1>5 DEF Applying
<1>8. alive' /\ ~drain'
  BY <1>1 DEF IInv, FlowInv
<1>9. Len(todo') <= Len(log') + Cardinality(Client)
  <2>1. Len(todo) <= Len(log) + Cardinality(Client) /\ Len(log) \in Nat /\ Cardinality(Client) \in Nat
    BY ConstantsOK, FS_CardinalityType DEF IInv, FlowInv, LoopTypes
  <2> QED  BY <2>1, <1>1, <1>4
<1> QED  BY <1>6, <1>7, <1>8, <1>9 DEF FlowInv

LEMMA ActionFlow ==
    ASSUME IInv,
           \/ ApplyAnswer \/ ApplySend \/ AskSnapshot \/ TakeSnapshot
           \/ InstallSnapshot \/ ReadBarrierReady \/ Drain
    PROVE  FlowInv'
<1>1. FlowInv
  BY DEF IInv
<1>2. /\ Base \in Nat /\ handed \in Nat /\ last_applied \in Nat
      /\ handed <= last_applied /\ last_applied <= Len(chosen)
      /\ step \in {"ask", "await"} => Base = handed - 1 /\ handed >= 1
      /\ step \notin {"ask", "await"} => Base = handed
  BY BaseIs
\* The next part of the same action.
<1>3. ASSUME NEW s, At("Apply", s), Base' = Base, step' # "start", todo' = todo,
             handed' \in Nat, handed' <= last_applied, step' \in {"ask", "await"} => handed' >= 1,
             UNCHANGED <<alive, role, log, last_applied, chosen, deposed, drain>>
      PROVE  FlowInv'
  <2>1. Applying /\ Base + 1 \in 1 .. last_applied
    BY <1>3, HeadApply
  <2>2. alive /\ todo # << >>
    BY <1>3 DEF At
  <2>3. Agrees'
    BY <1>1, <1>3 DEF FlowInv, Agrees
  <2>4. Base < last_applied
    BY <2>1, <1>2
  <2>5. Applying'
    BY <2>1, <2>4, <1>3 DEF Applying
  <2>6. alive' /\ ~drain'
    BY <2>2, <1>1, <1>3 DEF FlowInv
  <2> QED  BY <2>3, <2>5, <2>6, <1>1, <1>3 DEF FlowInv
<1>4. CASE ApplyAnswer
  <2>1. /\ At("Apply", "start")
        /\ \/ NextAction /\ handed' = Head(todo).index
           \/ todo' = todo /\ step' = "send" /\ handed' = handed
        /\ UNCHANGED <<alive, role, log, last_applied, chosen, deposed, drain>>
    BY <1>4 DEF ApplyAnswer, raft
  <2>2. step = "start" /\ Head(todo).index = Base + 1
    BY <2>1, HeadApply DEF At
  <2>3. CASE NextAction /\ handed' = Head(todo).index
    BY <2>1, <2>2, <2>3, NextEntry
  <2>4. CASE todo' = todo /\ step' = "send" /\ handed' = handed
    <3>1. Base' = Base
      BY <2>4, <2>2 DEF Base
    <3> QED  BY <3>1, <2>1, <2>4, <1>2, <1>3
  <2> QED  BY <2>1, <2>3, <2>4
<1>5. CASE ApplySend
  <2>1. /\ At("Apply", "send") /\ handed' = Head(todo).index
        /\ \/ NextAction
           \/ todo' = todo /\ step' = "ask"
        /\ UNCHANGED <<alive, role, log, last_applied, chosen, deposed, drain>>
    BY <1>5 DEF ApplySend, raft
  <2>2. step = "send" /\ Head(todo).index = Base + 1 /\ Base + 1 \in 1 .. last_applied
    BY <2>1, HeadApply DEF At
  <2>3. CASE NextAction
    BY <2>1, <2>2, <2>3, NextEntry
  <2>4. CASE todo' = todo /\ step' = "ask"
    <3>1. handed' = Base + 1 /\ handed' \in Nat /\ handed' >= 1 /\ handed' <= last_applied
      BY <2>1, <2>2, <1>2
    <3>2. Base' = handed' - 1
      BY <2>4 DEF Base
    <3>3. Base' = Base
      BY <3>1, <3>2, <1>2
    <3> QED  BY <3>1, <3>3, <2>1, <2>4, <1>3
  <2> QED  BY <2>1, <2>3, <2>4
<1>6. CASE AskSnapshot
  <2>1. /\ At("Apply", "ask") /\ step' = "await" /\ todo' = todo /\ handed' = handed
        /\ UNCHANGED <<alive, role, log, last_applied, chosen, deposed, drain>>
    BY <1>6 DEF AskSnapshot, raft
  <2>2. step = "ask" /\ handed >= 1
    BY <2>1, <1>2 DEF At
  <2>3. Base' = Base
    BY <2>1, <2>2 DEF Base
  <2> QED  BY <2>1, <2>2, <2>3, <1>2, <1>3
<1>7. CASE TakeSnapshot
  <2>1. /\ At("Apply", "await") /\ NextAction /\ handed' = handed
        /\ UNCHANGED <<alive, role, log, last_applied, chosen, deposed, drain>>
    BY <1>7 DEF TakeSnapshot, raft
  <2>2. step = "await"
    BY <2>1 DEF At
  <2>3. handed' = Base + 1
    BY <2>1, <2>2, <1>2
  <2> QED  BY <2>1, <2>3, NextEntry
<1>8. CASE InstallSnapshot
  <2>1. /\ At("Install", "start") /\ NextAction /\ handed' = Head(todo).index
        /\ UNCHANGED <<alive, role, log, last_applied, chosen, deposed, drain>>
    BY <1>8, Zenon DEF InstallSnapshot, raft
  <2>2. handed' = last_applied /\ todo' = << >> /\ step' = "start"
    BY <2>1, HeadInstall DEF NextAction
  <2>3. Agrees'
    BY <2>1, <2>2, <1>1, <1>2 DEF FlowInv, Agrees
  <2>4. Base' = last_applied
    BY <2>2 DEF Base
  <2>5. Len(todo') = 0
    BY <2>2
  <2>6. Applying'
    <3>1. last_applied' - Base' <= Len(todo') /\ 1 .. Len(todo') = {}
      BY <2>1, <2>4, <2>5, <1>2
    <3> QED  BY <3>1, <2>2 DEF Applying
  <2>7. alive' /\ ~drain'
    BY <2>1, <1>1 DEF FlowInv, At
  <2>8. Len(log) \in Nat /\ Cardinality(Client) \in Nat
    BY ConstantsOK, FS_CardinalityType DEF IInv, LoopTypes
  <2> QED  BY <2>1, <2>3, <2>5, <2>6, <2>7, <2>8 DEF FlowInv
<1>9. CASE ReadBarrierReady
  <2>1. /\ At("Ready", "start") /\ NextAction /\ handed' = handed
        /\ UNCHANGED <<alive, role, log, last_applied, chosen, deposed, drain>>
    BY <1>9 DEF ReadBarrierReady, raft
  <2>2. Applying /\ step = "start" /\ handed = last_applied /\ Base = handed
    BY <2>1, HeadReady
  <2>3. /\ alive /\ todo # << >> /\ Len(todo) \in Nat /\ Len(todo) >= 1 /\ Len(Tail(todo)) = Len(todo) - 1
        /\ \A i \in 1 .. Len(todo) - 1 : Tail(todo)[i] = todo[i + 1] /\ i + 1 \in 1 .. Len(todo)
    BY <2>1, HeadAction
  <2>4. todo' = Tail(todo) /\ step' = "start"
    BY <2>1 DEF NextAction
  <2>5. Base' = handed
    BY <2>1, <2>4 DEF Base
  <2>6. Agrees'
    BY <2>1, <2>2, <2>4, <1>1, <1>2 DEF FlowInv, Agrees
  <2>7. Applying'
    <3>1. last_applied - handed <= Len(todo')
      BY <2>2, <2>3, <2>4, <1>2
    <3>2. ASSUME NEW i \in 1 .. Len(todo')
          PROVE  ~(i <= last_applied - handed) /\ todo'[i] \in ReadyAction
      <4>1. i \in 1 .. Len(todo) - 1
        BY <2>3, <2>4
      <4>2. PICK m \in 1 .. Len(todo) : m = i + 1
        BY <4>1, <2>3
      <4>3. ~(i <= last_applied - handed) /\ ~(m <= last_applied - Base)
        BY <4>1, <4>2, <2>2, <2>3, <1>2
      <4>4. todo[m] \in ReadyAction
        BY <4>3, <2>2 DEF Applying
      <4> QED  BY <4>1, <4>2, <4>3, <4>4, <2>3, <2>4
    <3> QED  BY <3>1, <3>2, <2>1, <2>4, <2>5 DEF Applying
  <2>8. alive' /\ ~drain'
    BY <2>1, <2>3, <1>1 DEF FlowInv
  <2>9. Len(todo') <= Len(log') + Cardinality(Client)
    <3>1. Len(todo) <= Len(log) + Cardinality(Client) /\ Len(log) \in Nat /\ Cardinality(Client) \in Nat
      BY ConstantsOK, FS_CardinalityType DEF IInv, FlowInv, LoopTypes
    <3> QED  BY <3>1, <2>1, <2>3, <2>4
  <2> QED  BY <2>6, <2>7, <2>8, <2>9 DEF FlowInv
<1>10. CASE Drain
  BY <1>10, FlowFrame DEF Drain, raft
<1> QED  BY <1>4, <1>5, <1>6, <1>7, <1>8, <1>9, <1>10

LEMMA RaftFlow ==
    ASSUME IInv,
           \/ \E k \in last_applied .. Len(log), R \in SUBSET pending_reads : Advance(k, R)
           \/ \E leader \in Nodes, n \in 0 .. Len(chosen) :
                 \E k \in last_applied .. n : Follow(leader, n, k)
           \/ \E leader \in Nodes, k \in 1 .. Len(chosen) :
                 \E data \in Snapshots(k) : Install(leader, k, data)
           \/ Elected
           \/ \E leader \in Nodes \cup {None} : StepDown(leader)
           \/ \E entry \in Foreign \cup {log[i] : i \in 1 .. Len(log)} : ChosenElsewhere(entry)
           \/ EventLoopPanics
    PROVE  FlowInv'
<1>1. /\ FlowInv /\ Agrees /\ log \in Seq(Entry) /\ chosen \in Seq(Entry)
      /\ Len(log) \in Nat /\ Len(chosen) \in Nat
  BY DEF IInv, FlowInv, LoopTypes
<1>2. /\ last_applied \in Nat /\ handed \in Nat /\ handed <= last_applied /\ last_applied <= Len(chosen)
  BY BaseIs
<1>3. Cardinality(Client) \in Nat
  BY ConstantsOK, FS_CardinalityType
<1>4. Idle => /\ alive /\ ~drain /\ todo = << >> /\ Len(todo) = 0 /\ step = "start"
              /\ handed = last_applied
              /\ last_applied <= Len(log) /\ \A i \in 1 .. last_applied : log[i] = chosen[i]
  BY <1>1, IdleIs DEF Agrees
\* Nothing is left to do, before and after.
<1>5. ASSUME Idle, UNCHANGED <<todo, step, alive, last_applied, handed>>, Agrees',
             drain' => role' = "Follower"
      PROVE  FlowInv'
  <2>1. Base' = last_applied /\ Len(todo') = 0 /\ todo' = << >> /\ step' = "start" /\ alive'
    BY <1>4, <1>5 DEF Base
  <2>2. last_applied' - Base' <= Len(todo') /\ 1 .. Len(todo') = {}
    BY <2>1, <1>2, <1>5
  <2>3. Applying'
    BY <2>1, <2>2 DEF Applying
  <2>4. Len(todo') <= Len(log') + Cardinality(Client)
    <3>1. log' \in Seq(Entry)
      BY RaftLoop DEF LoopTypes
    <3>2. Len(log') \in Nat
      BY <3>1
    <3> QED  BY <3>2, <2>1, <1>3
  <2> QED  BY <2>1, <2>3, <2>4, <1>5 DEF FlowInv
<1>6. ASSUME NEW k \in last_applied .. Len(log), NEW R \in SUBSET pending_reads, Advance(k, R)
      PROVE  FlowInv'
  <2>1. /\ Grows /\ k \in Nat /\ k <= Len(chosen')
        /\ \A i \in 1 .. k : chosen'[i] = log[i]
        /\ todo' \in Seq(Action) /\ Cardinality(R) \in Nat
        /\ Cardinality(R) <= Cardinality(Client)
        /\ Len(todo') = (k - last_applied) + Cardinality(R)
        /\ \A i \in 1 .. k - last_applied :
              todo'[i] = [act |-> "Apply", index |-> last_applied + i,
                          entry |-> chosen'[last_applied + i]]
        /\ \A i \in 1 .. Len(todo') : i > k - last_applied => todo'[i] \in ReadyAction
        /\ ~deposed => Len(chosen') <= Len(log) /\ \A i \in 1 .. Len(chosen') : log[i] = chosen'[i]
    BY <1>6, AdvanceDoes
  <2>2. /\ Idle /\ last_applied' = k /\ log' = log
        /\ UNCHANGED <<step, drain, alive, role, deposed, handed>>
    BY <1>6 DEF Advance
  <2>3. /\ alive /\ ~drain /\ step = "start" /\ handed = last_applied
        /\ k <= Len(log) /\ last_applied <= k
    BY <2>2, <1>1, <1>2, <1>4
  <2>4. Base' = last_applied
    BY <2>2, <2>3 DEF Base
  <2>5. Agrees'
    BY <2>1, <2>2, <2>3, <1>2 DEF Agrees
  <2>6. Applying'
    <3>1. k - last_applied <= Len(todo')
      BY <2>1, <2>3, <1>2
    <3>2. ASSUME NEW i \in 1 .. Len(todo')
          PROVE  IF i <= k - last_applied
                 THEN todo'[i] = [act |-> "Apply", index |-> last_applied + i,
                                  entry |-> chosen'[last_applied + i]]
                 ELSE todo'[i] \in ReadyAction
      <4>1. CASE i <= k - last_applied
        <5>1. i \in 1 .. k - last_applied
          BY <4>1, <2>1, <2>3, <1>2
        <5> QED  BY <5>1, <4>1, <2>1
      <4>2. CASE ~(i <= k - last_applied)
        <5>1. i > k - last_applied
          BY <4>2, <2>1, <2>3, <1>2
        <5> QED  BY <5>1, <4>2, <2>1
      <4> QED  BY <4>1, <4>2
    <3> QED  BY <3>1, <3>2, <2>2, <2>3, <2>4 DEF Applying
  <2>7. Len(todo') <= Len(log') + Cardinality(Client)
    BY <2>1, <2>2, <2>3, <1>1, <1>2, <1>3
  <2> QED  BY <2>2, <2>3, <2>5, <2>6, <2>7 DEF FlowInv
<1>7. ASSUME NEW leader \in Nodes, NEW n \in 0 .. Len(chosen), NEW k \in last_applied .. n,
             Follow(leader, n, k)
      PROVE  FlowInv'
  <2>1. /\ chosen' = chosen /\ log' \in Seq(Entry) /\ n <= Len(log') /\ k \in Nat
        /\ k <= n /\ n <= Len(chosen) /\ last_applied <= k /\ n \in Nat
        /\ \A i \in 1 .. n : log'[i] = chosen[i]
        /\ todo' \in Seq(Action) /\ Len(todo') = k - last_applied
        /\ \A i \in 1 .. k - last_applied :
              todo'[i] = [act |-> "Apply", index |-> last_applied + i,
                          entry |-> chosen[last_applied + i]]
    BY <1>7, FollowDoes
  <2>2. /\ Idle /\ last_applied' = k /\ role = "Follower"
        /\ UNCHANGED <<step, drain, alive, role, deposed, handed>>
    BY <1>7 DEF Follow
  <2>3. alive /\ ~drain /\ step = "start" /\ handed = last_applied
    BY <2>2, <1>4
  <2>4. Base' = last_applied
    BY <2>2, <2>3 DEF Base
  <2>5. Agrees'
    <3>1. \A i \in 1 .. k : i \in 1 .. n
      BY <2>1
    <3>2. k <= Len(log') /\ k <= Len(chosen)
      <4>1. Len(log') \in Nat
        BY <2>1
      <4> QED  BY <4>1, <2>1, <1>1
    <3> QED  BY <3>1, <3>2, <2>1, <2>2, <2>3, <1>2 DEF Agrees
  <2>6. Applying'
    <3>1. k - last_applied <= Len(todo') /\ \A i \in 1 .. Len(todo') : i <= k - last_applied
      BY <2>1, <1>2
    <3> QED  BY <3>1, <2>1, <2>2, <2>3, <2>4 DEF Applying
  <2>7. Len(todo') <= Len(log') + Cardinality(Client)
    <3>1. Len(log') \in Nat
      BY <2>1
    <3> QED  BY <3>1, <2>1, <1>2, <1>3
  <2> QED  BY <2>2, <2>3, <2>5, <2>6, <2>7 DEF FlowInv
<1>8. ASSUME NEW leader \in Nodes, NEW k \in 1 .. Len(chosen),
             NEW data \in Snapshots(k), Install(leader, k, data)
      PROVE  FlowInv'
  <2>1. /\ chosen' = chosen /\ log' \in Seq(Entry) /\ Len(log') = k /\ k \in Nat
        /\ last_applied < k /\ k <= Len(chosen)
        /\ \A i \in 1 .. k : log'[i] = chosen[i]
        /\ todo' = <<[act |-> "Install", index |-> k, data |-> data]>> /\ Len(todo') = 1
    BY <1>8, InstallDoes
  <2>2. /\ Idle /\ last_applied' = k /\ role = "Follower"
        /\ UNCHANGED <<step, drain, alive, role, deposed, handed>>
    BY <1>8 DEF Install
  <2>3. alive /\ ~drain /\ step = "start" /\ handed = last_applied
    BY <2>2, <1>4
  <2>4. Agrees'
    BY <2>1, <2>2, <2>3, <1>2 DEF Agrees
  <2>5. Installing'
    <3>1. data \in Map
      BY <1>8, SnapshotsAre
    <3> QED  BY <3>1, <2>1, <2>2, <2>3, SMTT(30) DEF Installing
  <2>6. Len(todo') <= Len(log') + Cardinality(Client)
    BY <2>1, <1>2, <1>3
  <2> QED  BY <2>2, <2>3, <2>4, <2>5, <2>6 DEF FlowInv
<1>9. CASE Elected
  <2>1. /\ Len(log') = Len(log) + 1 /\ \A i \in 1 .. Len(log) : log'[i] = log[i]
        /\ Len(chosen) <= Len(log) /\ \A i \in 1 .. Len(chosen) : chosen[i] = log[i]
    BY <1>9, ElectedDoes
  <2>2. /\ Idle /\ UNCHANGED <<todo, step, alive, last_applied, handed, chosen, drain>>
    BY <1>9 DEF Elected, loop
  <2>3. \A i \in 1 .. Len(chosen) : i \in 1 .. Len(log)
    BY <2>1, <1>1
  <2>4. \A i \in 1 .. last_applied : i \in 1 .. Len(chosen)
    BY <1>1, <1>2
  <2>5. Len(chosen) <= Len(log') /\ \A i \in 1 .. Len(chosen) : log'[i] = chosen[i]
    BY <2>1, <2>3, <1>1
  <2>6. last_applied <= Len(log') /\ \A i \in 1 .. last_applied : log'[i] = chosen[i]
    BY <2>1, <2>4, <2>5, <1>1, <1>2
  <2>7. Agrees'
    BY <2>2, <2>5, <2>6, <1>1 DEF Agrees
  <2>8. ~drain'
    BY <2>2, <1>4
  <2> QED  BY <2>2, <2>7, <2>8, <1>5
<1>10. ASSUME NEW leader \in Nodes \cup {None}, StepDown(leader) PROVE FlowInv'
  <2>1. /\ Idle /\ role' = "Follower"
        /\ UNCHANGED <<todo, step, alive, last_applied, handed, chosen, log>>
    BY <1>10 DEF StepDown
  <2>2. Agrees'
    BY <2>1, <1>1 DEF Agrees
  <2> QED  BY <2>1, <2>2, <1>5
<1>11. ASSUME NEW entry \in Foreign \cup {log[i] : i \in 1 .. Len(log)}, ChosenElsewhere(entry)
       PROVE  FlowInv'
  <2>1. Len(chosen') = Len(chosen) + 1 /\ \A i \in 1 .. Len(chosen) : chosen'[i] = chosen[i]
    BY <1>11, ChosenDoes
  <2>2. /\ Idle /\ UNCHANGED <<todo, step, alive, last_applied, handed, log, role, drain>>
        /\ deposed' = (role = "Leader")
    BY <1>11 DEF ChosenElsewhere, loop
  <2>3. ~(role' = "Leader" /\ ~deposed')
    BY <2>2
  <2>4. \A i \in 1 .. last_applied : i \in 1 .. Len(chosen)
    BY <1>1, <1>2
  <2>5. last_applied <= Len(chosen')
    BY <2>1, <1>1, <1>2
  <2>6. Agrees'
    BY <2>1, <2>2, <2>3, <2>4, <2>5, <1>1 DEF Agrees
  <2>7. ~drain'
    BY <2>2, <1>4
  <2> QED  BY <2>2, <2>6, <2>7, <1>5
<1>12. CASE EventLoopPanics
  <2>1. /\ ~alive' /\ todo' = << >> /\ step' = "start" /\ ~drain' /\ role' = "Follower"
        /\ log' = << >> /\ UNCHANGED <<last_applied, chosen, handed>>
    BY <1>12 DEF EventLoopPanics
  <2>2. Agrees'
    BY <2>1, <1>1 DEF Agrees
  <2>3. Len(todo') = 0 /\ Len(log') = 0
    BY <2>1
  <2>4. Len(todo') <= Len(log') + Cardinality(Client)
    BY <2>3, <1>3
  <2> QED  BY <2>1, <2>2, <2>4 DEF FlowInv
<1> QED  BY <1>6, <1>7, <1>8, <1>9, <1>10, <1>11, <1>12

LEMMA NextFlow == IInv /\ [Next]_vars => FlowInv'
<1> SUFFICES ASSUME IInv, [Next]_vars PROVE FlowInv'
  OBVIOUS
<1>1. ASSUME UNCHANGED <<loop, raft, handed>> PROVE FlowInv'
  BY <1>1, FlowFrame DEF loop, raft
<1>2. ASSUME NEW c \in Client, NEW r \in Request, Submit(c, r) PROVE FlowInv'
  BY <1>2, <1>1 DEF Submit
<1>3. ASSUME NEW c \in Client, Answered(c) \/ ReadStore(c) PROVE FlowInv'
  BY <1>3, <1>1 DEF Answered, ReadStore
<1>4. CASE TakeRead
  BY <1>4, FlowFrame DEF TakeRead, raft
<1>5. CASE TakeProposal
  <2>1. /\ Idle /\ UNCHANGED <<todo, step, drain, alive, role, last_applied, chosen, deposed, handed>>
    BY <1>5 DEF TakeProposal
  <2>2. CASE log' = log
    BY <2>1, <2>2, FlowFrame
  <2>3. CASE log' = Append(log, EntryOf(Head(proposals)))
    <3>1. log \in Seq(Entry) /\ chosen \in Seq(Entry) /\ Len(log) \in Nat /\ Len(chosen) \in Nat
      BY DEF IInv, LoopTypes
    <3>2. log' \in Seq(Entry) /\ Len(log') \in Nat
      <4>1. LoopTypes'
        BY <1>5, TakeLoop
      <4> QED  BY <4>1 DEF LoopTypes
    <3>3. Len(log') = Len(log) + 1 /\ \A i \in 1 .. Len(log) : log'[i] = log[i]
      BY <3>1, <2>3
    <3>4. /\ last_applied \in Nat /\ Agrees /\ FlowInv
      BY BaseIs DEF IInv, FlowInv
    <3>5. alive /\ todo = << >> /\ last_applied <= Len(log)
      BY <2>1, <3>4, IdleIs DEF Agrees
    <3>6. \A i \in 1 .. last_applied : i \in 1 .. Len(log)
      BY <3>4, <3>5, <3>1
    <3>7. last_applied <= Len(log') /\ \A i \in 1 .. last_applied : log'[i] = chosen[i]
      <4>1. last_applied <= Len(log')
        BY <3>1, <3>3, <3>4, <3>5
      <4> QED  BY <4>1, <3>3, <3>4, <3>5, <3>6 DEF Agrees
    <3>8. ASSUME role = "Leader", ~deposed
          PROVE  Len(chosen) <= Len(log') /\ \A i \in 1 .. Len(chosen) : log'[i] = chosen[i]
      <4>1. Len(chosen) <= Len(log) /\ \A i \in 1 .. Len(chosen) : log[i] = chosen[i]
        BY <3>4, <3>8 DEF Agrees
      <4>2. \A i \in 1 .. Len(chosen) : i \in 1 .. Len(log)
        BY <4>1, <3>1
      <4>3. Len(chosen) <= Len(log')
        BY <4>1, <3>1, <3>3
      <4> QED  BY <4>1, <4>2, <4>3, <3>3
    <3>9. Agrees'
      BY <3>4, <3>7, <3>8, <2>1 DEF Agrees
    <3>10. Base' = Base
      BY <2>1 DEF Base
    <3>11. alive' => Installing' \/ Applying'
      <4>1. Installing => Installing'
        BY <2>1 DEF Installing
      <4>2. Applying => Applying'
        BY <2>1, <3>10 DEF Applying
      <4> QED  BY <4>1, <4>2, <3>4, <3>5 DEF FlowInv
    <3>12. Len(todo') <= Len(log') + Cardinality(Client)
      <4>1. Len(todo') = 0 /\ Cardinality(Client) \in Nat
        BY <2>1, <3>5, ConstantsOK, FS_CardinalityType
      <4> QED  BY <4>1, <3>2
    <3> QED  BY <3>4, <3>9, <3>11, <3>12, <2>1 DEF FlowInv
  <2> QED  BY <2>2, <2>3, <1>5 DEF TakeProposal
<1>6. CASE ApplyNext
  BY <1>6, <1>1 DEF ApplyNext
<1>7. CASE UNCHANGED vars
  BY <1>7, <1>1 DEF vars
<1> QED
  BY <1>2, <1>3, <1>4, <1>5, <1>6, <1>7, ActionFlow, RaftFlow, FlatNext DEF Stepping

-----------------------------------------------------------------------------
(***************************************************************************)
(* The apply channel.                                                      *)
(***************************************************************************)
\* Nobody waits for a snapshot: the channel holds no request for one.
LEMMA NoRequest ==
    ASSUME IInv, alive, step # "await"
    PROVE  (\A i \in 1 .. Len(applied) : Indexed(i)) /\ reply = None
  BY DEF IInv, ChannelInv

LEMMA HandedIs ==
    ASSUME IInv
    PROVE  /\ handed \in Nat /\ handed <= Len(chosen) /\ stored \in Nat /\ Len(chosen) \in Nat
           /\ installed \in SnapshotBase /\ installed.index \in Nat /\ installed.index <= handed
<1>1. handed \in Nat /\ last_applied \in Nat /\ handed <= last_applied
      /\ last_applied <= Len(chosen) /\ Len(chosen) \in Nat
  BY BaseIs
<1>2. installed \in SnapshotBase /\ stored \in Nat /\ installed.index <= handed
  BY DEF IInv, ChannelTypes, ChannelInv
<1> QED  BY <1>1, <1>2 DEF SnapshotBase

\* The snapshot on disk stays the state it was.
LEMMA SnapshotStays ==
    ASSUME IInv, Grows, snapshot' = snapshot, installed' = installed
    PROVE  SnapshotKept'
<1> SUFFICES ASSUME snapshot # None
             PROVE  /\ snapshot.upto <= Len(chosen') /\ installed.index <= snapshot.upto
                    /\ snapshot.data = Upto(installed, chosen', snapshot.upto)
  BY DEF SnapshotKept
<1>1. /\ snapshot.upto <= Len(chosen) /\ installed.index <= snapshot.upto
      /\ snapshot.data = Upto(installed, chosen, snapshot.upto)
  BY DEF IInv, ChannelInv, SnapshotKept
<1>2. snapshot.upto \in Nat /\ installed \in SnapshotBase
  BY HandedIs DEF IInv, ChannelTypes
<1>3. /\ Upto(installed, chosen', snapshot.upto) = Upto(installed, chosen, snapshot.upto)
      /\ snapshot.upto <= Len(chosen')
  BY <1>1, <1>2, UptoStays
<1> QED  BY <1>1, <1>3

\* A step that leaves the channel and both its ends alone.
LEMMA ChannelFrame ==
    ASSUME IInv, Grows, UNCHANGED <<applied, store, stored, handed, snapshot, installed>>,
           ~alive' \/ UNCHANGED <<alive, step, reply>>
    PROVE  ChannelInv'
<1>1. ChannelInv
  BY DEF IInv
<1>3. Upto(installed, chosen', handed) = Upto(installed, chosen, handed)
  BY HandedIs, UptoStays
<1>4. Play(store, applied) = Upto(installed, chosen, handed)
  BY <1>1 DEF ChannelInv
<1>5. Play(store', applied') = Upto(installed', chosen', handed')
  BY <1>3, <1>4
<1>6. SnapshotKept'
  BY SnapshotStays
<1>7. \A i : Indexed(i)' <=> Indexed(i)
  BY DEF Indexed
<1>8. alive' /\ reply' # None =>
         step' = "await" /\ reply' = Upto(installed', chosen', handed') /\ applied' = << >>
  BY <1>1, <1>3 DEF ChannelInv
<1>9. alive' => \A i \in 1 .. Len(applied') : ~Indexed(i)' => i = Len(applied') /\ step' = "await"
  BY <1>1, <1>7 DEF ChannelInv
<1>10. /\ stored' <= handed' /\ installed'.index <= handed'
       /\ \A i \in 1 .. Len(applied') :
             Indexed(i)' => stored' < applied'[i].index /\ applied'[i].index <= handed'
       /\ \A i, j \in 1 .. Len(applied') :
             i < j /\ Indexed(i)' /\ Indexed(j)' => applied'[i].index < applied'[j].index
  BY <1>1, <1>7 DEF ChannelInv
<1> QED  BY <1>5, <1>6, <1>8, <1>9, <1>10 DEF ChannelInv

\* Something with an index is handed over, or the index of what was handed
\* over is raised.
LEMMA ChannelSend ==
    ASSUME IInv, alive, step # "await", Grows, NEW index \in Nat, handed <= index,
           handed' = index, UNCHANGED <<store, stored, reply, alive>>, SnapshotKept',
           installed'.index <= index,
           \/ applied' = applied /\ Upto(installed', chosen', index) = Play(store, applied)
           \/ \E item \in Item :
                 /\ applied' = Append(applied, item)
                 /\ item.type # "SnapshotRequest" /\ item.index = index /\ handed < index
                 /\ Upto(installed', chosen', index) = Replay(Play(store, applied), item)
    PROVE  ChannelInv'
<1>1. ChannelInv /\ applied \in Seq(Item) /\ store \in Map /\ Len(applied) \in Nat
  BY DEF IInv, ChannelTypes
<1>2. (\A i \in 1 .. Len(applied) : Indexed(i)) /\ reply = None
  BY NoRequest
<1>3. handed \in Nat /\ stored \in Nat /\ stored <= handed /\ stored <= index
  BY <1>1, HandedIs DEF ChannelInv
<1>4. \A i \in 1 .. Len(applied) :
         stored < applied[i].index /\ applied[i].index <= handed /\ applied[i].index \in Nat
  <2>1. \A i \in 1 .. Len(applied) : stored < applied[i].index /\ applied[i].index <= handed
    BY <1>1, <1>2 DEF ChannelInv
  <2>2. \A i \in 1 .. Len(applied) : applied[i] \in Item /\ applied[i].type # "SnapshotRequest"
    BY <1>1, <1>2 DEF Indexed
  <2>3. \A i \in 1 .. Len(applied) : applied[i].index \in Nat
    BY <2>2, ItemsAre
  <2> QED  BY <2>1, <2>3
<1>5. \A i \in 1 .. Len(applied) : applied[i].index <= index
  BY <1>3, <1>4
<1>6. \A i, j \in 1 .. Len(applied) : i < j => applied[i].index < applied[j].index
  BY <1>1, <1>2 DEF ChannelInv
<1>7. CASE applied' = applied /\ Upto(installed', chosen', index) = Play(store, applied)
  <2>1. \A i \in 1 .. Len(applied') : Indexed(i)'
    BY <1>2, <1>7 DEF Indexed
  <2>2. Play(store', applied') = Upto(installed', chosen', handed')
    BY <1>7
  <2> QED  BY <2>1, <2>2, <1>2, <1>3, <1>4, <1>5, <1>6, <1>7 DEF ChannelInv
<1>8. ASSUME NEW item \in Item, applied' = Append(applied, item),
             item.type # "SnapshotRequest", item.index = index, handed < index,
             Upto(installed', chosen', index) = Replay(Play(store, applied), item)
      PROVE  ChannelInv'
  <2>1. /\ Len(applied') = Len(applied) + 1 /\ applied'[Len(applied) + 1] = item
        /\ \A i \in 1 .. Len(applied) : applied'[i] = applied[i]
    BY <1>1, <1>8, AppendParts
  <2>2. \A i \in 1 .. Len(applied') : i \in 1 .. Len(applied) \/ i = Len(applied) + 1
    BY <2>1, <1>1
  <2>3. \A i \in 1 .. Len(applied') : Indexed(i)'
    BY <2>1, <2>2, <1>2, <1>8 DEF Indexed
  <2>4. \A i \in 1 .. Len(applied') :
           stored' < applied'[i].index /\ applied'[i].index <= handed'
    BY <2>1, <2>2, <1>3, <1>4, <1>5, <1>8
  <2>5. ASSUME NEW i \in 1 .. Len(applied'), NEW j \in 1 .. Len(applied'), i < j
        PROVE  applied'[i].index < applied'[j].index
    <3>1. CASE j = Len(applied) + 1
      <4>1. i \in 1 .. Len(applied)
        BY <3>1, <2>2, <2>5, <1>1
      <4>2. applied'[i].index <= handed /\ applied'[i].index \in Nat
        BY <4>1, <2>1, <1>4
      <4> QED  BY <4>2, <3>1, <2>1, <1>3, <1>8
    <3>2. CASE j \in 1 .. Len(applied)
      <4>1. i \in 1 .. Len(applied)
        BY <3>2, <2>5, <2>1, <1>1
      <4> QED  BY <4>1, <3>2, <2>1, <2>5, <1>6
    <3> QED  BY <3>1, <3>2, <2>2
  <2>6. Play(store', applied') = Upto(installed', chosen', handed')
    BY <1>1, <1>8, PlayAppend
  <2> QED  BY <2>3, <2>4, <2>5, <2>6, <1>2, <1>3 DEF ChannelInv
<1> QED  BY <1>7, <1>8

\* The apply task takes the next item.
LEMMA ChannelTake ==
    ASSUME IInv, ApplyNext
    PROVE  /\ ChannelInv' /\ stored <= stored'
           /\ Head(applied).type # "SnapshotRequest" => stored < stored'
<1> DEFINE item == Head(applied)
<1>1. /\ applied # << >> /\ applied' = Tail(applied) /\ store' = Replay(store, item)
      /\ stored' = IF item.type = "SnapshotRequest" THEN stored ELSE item.index
      /\ reply' = IF item.type = "SnapshotRequest" /\ alive THEN store ELSE reply
      /\ UNCHANGED <<snapshot, handed, alive, step, chosen, installed>>
  BY DEF ApplyNext, loop, raft
<1>2. ChannelInv /\ applied \in Seq(Item) /\ store \in Map
  BY DEF IInv, ChannelTypes
<1>3. /\ item \in Item /\ item = applied[1] /\ applied' \in Seq(Item)
      /\ Len(applied) \in Nat /\ Len(applied) >= 1 /\ Len(applied') = Len(applied) - 1
      /\ \A i \in 1 .. Len(applied) - 1 : applied'[i] = applied[i + 1] /\ i + 1 \in 1 .. Len(applied)
  BY <1>1, <1>2, SeqParts
<1>4. 1 \in 1 .. Len(applied)
  BY <1>3
<1>5. stored \in Nat /\ handed \in Nat /\ stored <= handed
  BY <1>2, HandedIs DEF ChannelInv
<1>6. Play(store', applied') = Upto(installed', chosen', handed')
  BY <1>1, <1>2, PlayTail DEF ChannelInv
<1>7. SnapshotKept'
  BY <1>1, <1>2 DEF ChannelInv, SnapshotKept
<1> HIDE DEF item
<1>8. ASSUME NEW i \in 1 .. Len(applied')
      PROVE  \E m \in 1 .. Len(applied) :
                /\ m = i + 1 /\ 1 <= m /\ applied'[i] = applied[m] /\ (Indexed(i)' <=> Indexed(m))
                /\ m = Len(applied) <=> i = Len(applied')
  <2>1. i \in 1 .. Len(applied) - 1
    BY <1>3
  <2>2. PICK m \in 1 .. Len(applied) : m = i + 1
    BY <2>1, <1>3
  <2>3. applied'[i] = applied[m]
    BY <2>1, <2>2, <1>3
  <2>4. Indexed(i)' <=> Indexed(m)
    BY <2>3 DEF Indexed
  <2>5. 1 <= m /\ (m = Len(applied) <=> i = Len(applied'))
    BY <2>1, <2>2, <1>3
  <2> QED  BY <2>2, <2>3, <2>4, <2>5
<1>9. item.type # "SnapshotRequest" <=> Indexed(1)
  BY <1>3 DEF Indexed
<1>10. Indexed(1) => stored < applied[1].index /\ applied[1].index <= handed
  BY <1>2, <1>4 DEF ChannelInv
<1>11. stored <= stored' /\ stored' <= handed'
       /\ (Indexed(1) => stored' = applied[1].index /\ stored < stored')
       /\ (~Indexed(1) => stored' = stored)
  <2>1. Indexed(1) => applied[1].index \in Nat
    BY <1>3, ItemsAre DEF Indexed
  <2> QED  BY <2>1, <1>1, <1>3, <1>5, <1>9, <1>10
<1>12. ASSUME NEW i \in 1 .. Len(applied'), Indexed(i)'
       PROVE  stored' < applied'[i].index /\ applied'[i].index <= handed'
  <2>1. PICK m \in 1 .. Len(applied) : m = i + 1 /\ applied'[i] = applied[m] /\ Indexed(m)
    BY <1>8, <1>12
  <2>2. stored < applied[m].index /\ applied[m].index <= handed
    BY <2>1, <1>2 DEF ChannelInv
  <2>3. Indexed(1) => applied[1].index < applied[m].index
    <3>1. 1 < m
      BY <2>1
    <3> QED  BY <3>1, <2>1, <1>2, <1>4 DEF ChannelInv
  <2> QED  BY <2>1, <2>2, <2>3, <1>1, <1>11
<1>13. ASSUME NEW i \in 1 .. Len(applied'), NEW j \in 1 .. Len(applied'), i < j,
              Indexed(i)', Indexed(j)'
       PROVE  applied'[i].index < applied'[j].index
  <2>1. PICK m \in 1 .. Len(applied) : m = i + 1 /\ applied'[i] = applied[m] /\ Indexed(m)
    BY <1>8, <1>13
  <2>2. PICK n \in 1 .. Len(applied) : n = j + 1 /\ applied'[j] = applied[n] /\ Indexed(n)
    BY <1>8, <1>13
  <2>3. m < n
    BY <2>1, <2>2, <1>13, <1>3
  <2>4. applied[m].index < applied[n].index
    BY <2>1, <2>2, <2>3, <1>2 DEF ChannelInv
  <2> QED  BY <2>1, <2>2, <2>4
<1>14. ASSUME alive', NEW i \in 1 .. Len(applied'), ~Indexed(i)'
       PROVE  i = Len(applied') /\ step' = "await"
  <2>1. PICK m \in 1 .. Len(applied) : ~Indexed(m) /\ (m = Len(applied) <=> i = Len(applied'))
    BY <1>8, <1>14
  <2>2. m = Len(applied) /\ step = "await"
    BY <2>1, <1>1, <1>2, <1>14 DEF ChannelInv
  <2> QED  BY <2>1, <2>2, <1>1
<1>15. ASSUME alive', reply' # None
       PROVE  step' = "await" /\ reply' = Upto(installed', chosen', handed') /\ applied' = << >>
  <2>1. CASE item.type # "SnapshotRequest"
    <3>1. reply # None /\ alive
      BY <2>1, <1>1, <1>15
    <3>2. applied = << >>
      BY <3>1, <1>2 DEF ChannelInv
    <3> QED  BY <3>2, <1>1
  <2>2. CASE item.type = "SnapshotRequest"
    <3>1. 1 = Len(applied) /\ step = "await" /\ alive
      BY <2>2, <1>1, <1>2, <1>4, <1>9, <1>15 DEF ChannelInv
    <3>2. Len(applied') = 0
      BY <3>1, <1>3
    <3>3. applied' = << >>
      BY <3>2, <1>3, EmptySeq
    <3>4. reply' = store /\ store' = store
      BY <3>1, <2>2, <1>1, <1>2, <1>3, ReplayIs
    <3>5. Play(store, << >>) = store
      BY <1>2, PlayNothing
    <3> QED  BY <3>1, <3>3, <3>4, <3>5, <1>1, <1>6
  <2> QED  BY <2>1, <2>2
<1>16. ChannelInv'
  <2>1. installed'.index <= handed'
    BY <1>1, <1>2 DEF ChannelInv
  <2> QED  BY <2>1, <1>6, <1>7, <1>11, <1>12, <1>13, <1>14, <1>15 DEF ChannelInv
<1>17. Head(applied).type # "SnapshotRequest" => stored < stored'
  BY <1>9, <1>11 DEF item
<1> QED  BY <1>11, <1>16, <1>17

\* A snapshot is asked for, or arrives.
LEMMA ChannelAsk ==
    ASSUME IInv, AskSnapshot
    PROVE  ChannelInv'
<1> DEFINE item == [type |-> "SnapshotRequest"]
<1>1. /\ At("Apply", "ask") /\ applied' = Append(applied, item) /\ step' = "await"
      /\ UNCHANGED <<store, stored, reply, snapshot, handed, alive, chosen, installed>>
  BY DEF AskSnapshot, ToApplication, raft, app
<1>2. alive /\ step = "ask"
  BY <1>1 DEF At
<1>3. (\A i \in 1 .. Len(applied) : Indexed(i)) /\ reply = None
  BY <1>2, NoRequest
<1>4. ChannelInv /\ applied \in Seq(Item) /\ store \in Map /\ item \in Item /\ Len(applied) \in Nat
  BY ItemsAre DEF IInv, ChannelTypes
<1>5. /\ Len(applied') = Len(applied) + 1 /\ applied'[Len(applied) + 1] = item
      /\ \A i \in 1 .. Len(applied) : applied'[i] = applied[i]
  BY <1>1, <1>4, AppendParts
<1>6. item.type = "SnapshotRequest"
  OBVIOUS
<1> HIDE DEF item
<1>7. Play(store', applied') = Upto(installed', chosen', handed')
  <2>1. Play(store, applied) \in Map
    BY <1>4, PlayType
  <2>2. Replay(Play(store, applied), item) = Play(store, applied)
    BY <2>1, <1>4, <1>6, ReplayIs
  <2> QED  BY <2>2, <1>1, <1>4, PlayAppend DEF ChannelInv
<1>8. \A i \in 1 .. Len(applied') : i \in 1 .. Len(applied) \/ i = Len(applied')
  BY <1>4, <1>5
<1>9. \A i \in 1 .. Len(applied') : Indexed(i)' => i \in 1 .. Len(applied)
  BY <1>5, <1>6, <1>8 DEF Indexed
<1>10. \A i \in 1 .. Len(applied') : ~Indexed(i)' => i = Len(applied')
  <2> SUFFICES ASSUME NEW i \in 1 .. Len(applied), ~Indexed(i)' PROVE FALSE
    BY <1>8
  <2> QED  BY <1>3, <1>5 DEF Indexed
<1>11. \A i \in 1 .. Len(applied') :
          Indexed(i)' => stored' < applied'[i].index /\ applied'[i].index <= handed'
  BY <1>1, <1>3, <1>4, <1>5, <1>9 DEF ChannelInv
<1>12. \A i, j \in 1 .. Len(applied') :
          i < j /\ Indexed(i)' /\ Indexed(j)' => applied'[i].index < applied'[j].index
  BY <1>3, <1>4, <1>5, <1>9 DEF ChannelInv
<1>13. SnapshotKept' /\ stored' <= handed' /\ installed'.index <= handed'
  BY <1>1, <1>4 DEF ChannelInv, SnapshotKept
<1> QED  BY <1>1, <1>3, <1>7, <1>10, <1>11, <1>12, <1>13 DEF ChannelInv

LEMMA ChannelTakeSnapshot ==
    ASSUME IInv, TakeSnapshot
    PROVE  ChannelInv'
<1>1. /\ At("Apply", "await") /\ reply # None /\ snapshot' = [data |-> reply, upto |-> handed]
      /\ reply' = None /\ UNCHANGED <<applied, store, stored, handed, alive, chosen, installed>>
  BY DEF TakeSnapshot, raft, app
<1>2. ChannelInv /\ alive
  BY <1>1 DEF IInv, At
<1>3. reply = Upto(installed, chosen, handed) /\ applied = << >>
  BY <1>1, <1>2 DEF ChannelInv
<1>4. handed \in Nat /\ handed <= Len(chosen) /\ installed.index <= handed
  BY HandedIs
<1>5. SnapshotKept'
  BY <1>1, <1>3, <1>4 DEF SnapshotKept
<1>6. 1 .. Len(applied') = {}
  <2>1. Len(applied') = 0
    BY <1>1, <1>3
  <2> QED  BY <2>1
<1> QED  BY <1>1, <1>2, <1>5, <1>6 DEF ChannelInv

LEMMA NextChannel == IInv /\ [Next]_vars => ChannelInv'
<1> SUFFICES ASSUME IInv, [Next]_vars PROVE ChannelInv'
  OBVIOUS
<1>1. Grows /\ stored \in Nat /\ handed \in Nat /\ handed <= Len(chosen)
  BY NextGrows, HandedIs
<1>2. ASSUME UNCHANGED <<applied, store, stored, handed, snapshot, installed>>,
             ~alive' \/ UNCHANGED <<alive, step, reply>>
      PROVE  ChannelInv'
  BY <1>1, <1>2, ChannelFrame
<1>3. ASSUME NEW c \in Client, NEW r \in Request, Submit(c, r) PROVE ChannelInv'
  BY <1>3, <1>2 DEF Submit, loop, app
<1>4. ASSUME NEW c \in Client, Answered(c) \/ ReadStore(c) PROVE ChannelInv'
  BY <1>4, <1>2 DEF Answered, ReadStore, loop, app, channels
<1>5. CASE TakeProposal \/ TakeRead \/ Drain
  BY <1>5, <1>2 DEF TakeProposal, TakeRead, Drain, app, channels
<1>6. CASE ApplyAnswer
  <2>1. /\ At("Apply", "start") /\ UNCHANGED <<applied, store, stored, snapshot, reply, alive, chosen, installed>>
        /\ \/ Head(todo).entry = Noop /\ handed' = Head(todo).index /\ step' = "start"
           \/ handed' = handed /\ step' = "send"
    BY <1>6 DEF ApplyAnswer, NextAction, app, channels, raft
  <2>2. alive /\ step = "start"
    BY <2>1 DEF At
  <2>3. /\ Head(todo).index = Base + 1 /\ Head(todo).entry = chosen[Base + 1]
        /\ Base + 1 \in 1 .. last_applied /\ Base + 1 \in 1 .. Len(chosen)
    BY <2>1, HeadApply
  <2>4. Base = handed
    BY <2>2, BaseIs
  <2>5. SnapshotKept'
    BY <2>1, <1>1, SnapshotStays
  <2>6. Play(store, applied) = Upto(installed, chosen, handed)
    BY DEF IInv, ChannelInv
  <2>7. CASE Head(todo).entry = Noop /\ handed' = Head(todo).index
    <3>1. handed + 1 \in Nat /\ handed <= handed + 1 /\ handed + 1 <= Len(chosen)
      BY <2>3, <2>4, <1>1, HandedIs
    <3>2. Upto(installed, chosen, handed + 1) = Effect(Upto(installed, chosen, handed), chosen[handed + 1].command)
          /\ Upto(installed, chosen, handed) \in Map
      BY <3>1, HandedIs, UptoNext
    <3>3. chosen[handed + 1].command = [op |-> "Noop"] /\ [op |-> "Noop"] \in Command
      BY <2>3, <2>4, <2>7, EntriesAre DEF Command
    <3>4. Upto(installed', chosen', handed + 1) = Play(store, applied)
      BY <3>2, <3>3, <2>1, <2>6, EffectType
    <3>5. handed' = handed + 1
      BY <2>3, <2>4, <2>7
    <3>6. installed'.index <= handed + 1
      BY <3>1, <2>1, HandedIs
    <3> QED  BY <3>1, <3>4, <3>5, <3>6, <2>1, <2>2, <2>5, <1>1, ChannelSend
  <2>8. CASE handed' = handed
    <3>1. Upto(installed', chosen', handed) = Play(store, applied)
      BY <2>1, <2>6
    <3>2. installed'.index <= handed
      BY <2>1, HandedIs
    <3> QED  BY <3>1, <3>2, <2>1, <2>2, <2>5, <2>8, <1>1, ChannelSend
  <2> QED  BY <2>1, <2>7, <2>8
<1>7. CASE ApplySend
  <2> DEFINE item == [type |-> "Command", command |-> Head(todo).entry.command,
                      index |-> Head(todo).index]
  <2>1. /\ At("Apply", "send") /\ applied' = Append(applied, item) /\ handed' = Head(todo).index
        /\ UNCHANGED <<store, stored, snapshot, reply, alive, chosen, installed>>
    BY <1>7 DEF ApplySend, ToApplication, app, raft
  <2>2. alive /\ step = "send"
    BY <2>1 DEF At
  <2>3. /\ Head(todo).index = Base + 1 /\ Head(todo).entry = chosen[Base + 1]
        /\ Base + 1 \in 1 .. last_applied /\ Base + 1 \in 1 .. Len(chosen) /\ Base + 1 \in Nat
        /\ Head(todo).entry.command \in Command
    BY <2>1, HeadApply
  <2>4. Base = handed
    BY <2>2, BaseIs
  <2>5. SnapshotKept'
    BY <2>1, <1>1, SnapshotStays
  <2>6. Play(store, applied) = Upto(installed, chosen, handed)
    BY DEF IInv, ChannelInv
  <2>7. /\ item \in Item /\ item.type = "Command" /\ item.index = handed + 1
        /\ item.command = chosen[handed + 1].command
    BY <2>3, <2>4, ItemsAre
  <2> HIDE DEF item
  <2>8. /\ handed + 1 \in Nat /\ handed <= handed + 1 /\ handed + 1 <= Len(chosen)
        /\ handed < handed + 1 /\ installed.index <= handed + 1
    BY <2>3, <2>4, <1>1, HandedIs
  <2>9. Upto(installed, chosen, handed + 1) = Effect(Upto(installed, chosen, handed), chosen[handed + 1].command)
        /\ Upto(installed, chosen, handed) \in Map
    BY <2>8, HandedIs, UptoNext
  <2>10. Upto(installed', chosen', handed + 1) = Replay(Play(store, applied), item)
    BY <2>1, <2>6, <2>7, <2>9, ReplayIs
  <2>11. handed' = handed + 1 /\ item.type # "SnapshotRequest"
    BY <2>1, <2>3, <2>4, <2>7
  <2> QED  BY <2>1, <2>2, <2>5, <2>7, <2>8, <2>10, <2>11, <1>1, ChannelSend
<1>8. CASE AskSnapshot
  BY <1>8, ChannelAsk
<1>9. CASE TakeSnapshot
  BY <1>9, ChannelTakeSnapshot
<1>10. CASE InstallSnapshot
  <2> DEFINE index == Head(todo).index
             data == Head(todo).data
             item == [type |-> "Snapshot", data |-> data, index |-> index]
  <2>1. /\ At("Install", "start") /\ applied' = Append(applied, item)
        /\ snapshot' = [data |-> data, upto |-> index] /\ handed' = index
        /\ installed' = [data |-> data, index |-> index]
        /\ UNCHANGED <<reply, store, stored, alive, chosen>>
    BY <1>10, Zenon DEF InstallSnapshot, ToApplication, app, raft
  <2>2. alive /\ step = "start" /\ Len(chosen) \in Nat
    BY <2>1, <1>1, HandedIs DEF At
  <2>3. /\ index = last_applied /\ last_applied \in Nat /\ last_applied <= Len(chosen)
        /\ handed < last_applied /\ handed <= last_applied /\ data \in Map
    BY <2>1, <1>1, HeadInstall, BaseIs DEF Installing
  <2> HIDE DEF data, index
  <2>4. /\ installed' \in SnapshotBase /\ installed'.index = last_applied
        /\ installed'.data = data
    BY <2>1, <2>3 DEF SnapshotBase
  <2>5. item \in Item /\ item.type = "Snapshot" /\ item.index = last_applied /\ item.data = data
    BY <2>3, ItemsAre
  <2>6. Upto(installed', chosen', last_applied) = data
    BY <2>4, UptoStart
  <2>7. SnapshotKept'
    <3>1. snapshot'.upto = last_applied /\ snapshot'.data = data
      BY <2>1, <2>3
    <3> QED  BY <3>1, <2>1, <2>3, <2>4, <2>6 DEF SnapshotKept
  <2>8. Play(store, applied) \in Map
    BY PlayType DEF IInv, ChannelTypes
  <2> HIDE DEF item
  <2>9. Upto(installed', chosen', last_applied) = Replay(Play(store, applied), item)
    BY <2>5, <2>6, <2>8, ReplayIs
  <2>10. handed' = last_applied /\ item.type # "SnapshotRequest" /\ installed'.index <= last_applied
    BY <2>1, <2>3, <2>4, <2>5
  <2> QED  BY <2>1, <2>2, <2>3, <2>5, <2>7, <2>9, <2>10, <1>1, ChannelSend
<1>11. CASE ReadBarrierReady
  <2>1. /\ At("Ready", "start") /\ step' = "start"
        /\ UNCHANGED <<applied, store, stored, handed, snapshot, alive, reply, installed>>
    BY <1>11 DEF ReadBarrierReady, NextAction, app, channels
  <2>2. step = "start"
    BY <2>1 DEF At
  <2> QED  BY <2>1, <2>2, <1>2
<1>12. ASSUME NEW k, NEW R, Advance(k, R) PROVE ChannelInv'
  BY <1>12, <1>2 DEF Advance, channels, app
<1>13. ASSUME NEW leader, NEW n, NEW k, Follow(leader, n, k) PROVE ChannelInv'
  BY <1>13, <1>2 DEF Follow, channels, app
<1>14. ASSUME NEW leader, NEW k, NEW data, Install(leader, k, data) PROVE ChannelInv'
  BY <1>14, <1>2 DEF Install, channels, app
<1>15. CASE Elected
  BY <1>15, <1>2 DEF Elected, channels, loop, app
<1>16. ASSUME NEW leader, StepDown(leader) PROVE ChannelInv'
  BY <1>16, <1>2 DEF StepDown, channels, app
<1>17. ASSUME NEW entry, ChosenElsewhere(entry) PROVE ChannelInv'
  BY <1>17, <1>2 DEF ChosenElsewhere, channels, loop, app
<1>18. CASE EventLoopPanics
  BY <1>18, <1>2 DEF EventLoopPanics, app
<1>19. CASE ApplyNext
  BY <1>19, ChannelTake
<1>20. CASE UNCHANGED vars
  BY <1>20, <1>2 DEF vars, channels, loop, app
<1> QED
  BY <1>3, <1>4, <1>5, <1>6, <1>7, <1>8, <1>9, <1>10, <1>11, <1>12, <1>13, <1>14, <1>15,
     <1>16, <1>17, <1>18, <1>19, <1>20, FlatNext DEF Stepping

\* The channel stays in the order of the log.
LEMMA CommandIs ==
    ASSUME IInv, NEW j \in 1 .. Len(applied), applied[j].type = "Command"
    PROVE  /\ applied[j].index \in Nat /\ stored < applied[j].index /\ applied[j].index <= handed
           /\ applied[j].command = chosen[applied[j].index].command
           /\ NoneMissing(stored, applied[j].index - 1, chosen, applied, j - 1)
<1>1. applied \in Seq(Item) /\ Indexed(j)
  BY DEF IInv, ChannelTypes, Indexed
<1>2. applied[j] \in Item
  BY <1>1
<1>3. applied[j].index \in Nat
  BY <1>2, ItemsAre DEF Indexed
<1>4. stored < applied[j].index /\ applied[j].index <= handed
  BY <1>1 DEF IInv, ChannelInv
<1> QED  BY <1>3, <1>4 DEF IInv, InOrder

LEMMA NoneMissingStays ==
    ASSUME IInv, Grows, NEW n \in Nat, NEW m \in Nat, n <= m,
           NEW index \in Int, index <= handed, NoneMissing(stored, index, chosen, applied, n),
           \A i \in 1 .. n : applied'[i] = applied[i]
    PROVE  NoneMissing(stored, index, chosen', applied', m)
<1>1. stored \in Nat /\ handed \in Nat /\ handed <= Len(chosen) /\ Len(chosen) \in Nat
  BY HandedIs
<1> SUFFICES ASSUME NEW i \in stored + 1 .. index, chosen'[i] # Noop
             PROVE  \E k \in 1 .. m : applied'[k].type # "SnapshotRequest" /\ i <= applied'[k].index
  BY DEF NoneMissing
<1>2. i \in 1 .. Len(chosen)
  BY <1>1
<1>3. chosen[i] # Noop
  BY <1>2 DEF Grows
<1>4. PICK k \in 1 .. n : applied[k].type # "SnapshotRequest" /\ i <= applied[k].index
  BY <1>3 DEF NoneMissing
<1>5. k \in 1 .. m /\ applied'[k] = applied[k]
  BY <1>4
<1> QED  BY <1>4, <1>5

\* What is in the channel stays where it is.
LEMMA OrderStays ==
    ASSUME IInv, Grows, NEW j \in 1 .. Len(applied),
           \A i \in 1 .. Len(applied) : applied'[i] = applied[i], applied'[j].type = "Command"
    PROVE  /\ applied'[j].command = chosen'[applied'[j].index].command
           /\ NoneMissing(stored, applied'[j].index - 1, chosen', applied', j - 1)
<1>1. /\ applied'[j] = applied[j] /\ Len(applied) \in Nat /\ j - 1 \in Nat /\ j - 1 <= j - 1
      /\ \A i \in 1 .. j - 1 : i \in 1 .. Len(applied)
  BY DEF IInv, ChannelTypes
<1>2. /\ applied[j].index \in Nat /\ stored < applied[j].index /\ applied[j].index <= handed
      /\ applied[j].command = chosen[applied[j].index].command
      /\ NoneMissing(stored, applied[j].index - 1, chosen, applied, j - 1)
  BY <1>1, CommandIs
<1>3. stored \in Nat /\ handed \in Nat /\ handed <= Len(chosen) /\ Len(chosen) \in Nat
  BY HandedIs
<1>4. /\ applied[j].index \in 1 .. Len(chosen)
      /\ applied[j].index - 1 \in Int /\ applied[j].index - 1 <= handed
  BY <1>2, <1>3
<1>5. chosen'[applied[j].index] = chosen[applied[j].index]
  BY <1>4 DEF Grows
<1>6. NoneMissing(stored, applied[j].index - 1, chosen', applied', j - 1)
  BY <1>1, <1>2, <1>4, NoneMissingStays
<1> QED  BY <1>1, <1>2, <1>5, <1>6

LEMMA OrderFrame ==
    ASSUME IInv, Grows, UNCHANGED <<applied, stored>>, handed' \in Nat,
           handed' = handed \/ (handed' = handed + 1 /\ chosen'[handed + 1] = Noop)
    PROVE  InOrder'
<1>1. /\ Len(applied) \in Nat /\ handed \in Nat /\ stored \in Nat
      /\ NoneMissing(stored, handed, chosen, applied, Len(applied))
  BY HandedIs DEF IInv, ChannelTypes, InOrder
<1>2. NoneMissing(stored, handed, chosen', applied', Len(applied))
  BY <1>1, NoneMissingStays
<1>3. NoneMissing(stored', handed', chosen', applied', Len(applied'))
  <2>1. \A i \in stored + 1 .. handed' : i \in stored + 1 .. handed \/ (i = handed + 1 /\ handed' = handed + 1)
    BY <1>1
  <2> QED  BY <2>1, <1>2 DEF NoneMissing
<1>4. ASSUME NEW j \in 1 .. Len(applied), applied'[j].type = "Command"
      PROVE  /\ applied'[j].command = chosen'[applied'[j].index].command
             /\ NoneMissing(stored', applied'[j].index - 1, chosen', applied', j - 1)
  BY <1>4, OrderStays
<1> QED  BY <1>3, <1>4 DEF InOrder

\* One more item, which covers whatever more was handed over.
LEMMA OrderSend ==
    ASSUME IInv, Grows, stored' = stored, NEW item \in Item, applied' = Append(applied, item),
           handed' \in Nat,
           \/ item.type = "SnapshotRequest" /\ handed' = handed
           \/ item.type = "Snapshot" /\ item.index = handed'
           \/ /\ item.type = "Command" /\ item.index = handed' /\ handed' = handed + 1
              /\ item.command = chosen'[handed'].command
    PROVE  InOrder'
<1> DEFINE n == Len(applied)
<1>1. applied \in Seq(Item) /\ n \in Nat /\ handed \in Nat /\ stored \in Nat
      /\ NoneMissing(stored, handed, chosen, applied, n)
  BY HandedIs DEF IInv, ChannelTypes, InOrder
<1>2. /\ Len(applied') = n + 1 /\ applied'[n + 1] = item
      /\ \A i \in 1 .. n : applied'[i] = applied[i]
  BY <1>1, AppendParts
<1>3. \A j \in 1 .. n + 1 : j \in 1 .. n \/ (j = n + 1 /\ j - 1 = n)
  BY <1>1
<1>4. ASSUME NEW j \in 1 .. n, applied'[j].type = "Command"
      PROVE  /\ applied'[j].command = chosen'[applied'[j].index].command
             /\ NoneMissing(stored', applied'[j].index - 1, chosen', applied', j - 1)
  BY <1>2, <1>4, OrderStays
<1> HIDE DEF n
<1>5. /\ NoneMissing(stored, handed, chosen', applied', n)
      /\ NoneMissing(stored, handed, chosen', applied', n + 1)
  <2>1. n <= n /\ n <= n + 1 /\ n + 1 \in Nat /\ handed \in Int /\ handed <= handed
    BY <1>1
  <2> QED  BY <2>1, <1>1, <1>2, NoneMissingStays
<1>6. NoneMissing(stored', handed', chosen', applied', n + 1)
  <2>1. CASE item.type = "SnapshotRequest" /\ handed' = handed
    BY <2>1, <1>5
  <2>2. CASE item.type # "SnapshotRequest" /\ item.index = handed'
    <3>1. n + 1 \in 1 .. n + 1
      BY <1>1
    <3>2. \A i \in stored' + 1 .. handed' : i <= applied'[n + 1].index
      BY <2>2, <1>1, <1>2
    <3> QED  BY <3>1, <3>2, <2>2, <1>2 DEF NoneMissing
  <2> QED  BY <2>1, <2>2
<1>7. ASSUME item.type = "Command"
      PROVE  /\ item.command = chosen'[item.index].command
             /\ NoneMissing(stored', item.index - 1, chosen', applied', n)
  <2>1. item.index = handed' /\ handed' = handed + 1 /\ item.command = chosen'[handed'].command
    BY <1>7
  <2>2. item.index - 1 = handed
    BY <2>1, <1>1
  <2> QED  BY <2>1, <2>2, <1>5
<1>8. ASSUME NEW j \in 1 .. Len(applied'), applied'[j].type = "Command"
      PROVE  /\ applied'[j].command = chosen'[applied'[j].index].command
             /\ NoneMissing(stored', applied'[j].index - 1, chosen', applied', j - 1)
  <2>1. CASE j \in 1 .. n
    BY <2>1, <1>4, <1>8
  <2>2. CASE j = n + 1 /\ j - 1 = n
    BY <2>2, <1>2, <1>7, <1>8
  <2> QED  BY <2>1, <2>2, <1>2, <1>3
<1> QED  BY <1>2, <1>6, <1>8 DEF InOrder

\* The next item is carried out: what it does not cover is further back.
LEMMA OrderTake ==
    ASSUME IInv, ApplyNext
    PROVE  InOrder'
<1>1. /\ applied # << >> /\ applied' = Tail(applied) /\ UNCHANGED <<handed, chosen>>
      /\ stored' = IF Head(applied).type = "SnapshotRequest" THEN stored ELSE Head(applied).index
  BY DEF ApplyNext, raft
<1>2. applied \in Seq(Item) /\ stored \in Nat /\ stored' \in Nat /\ stored <= stored'
      /\ Len(applied) \in Nat
  BY ChannelTake, NextChannelTypes DEF IInv, ChannelTypes, Next
<1>3. /\ Head(applied) = applied[1] /\ Len(applied) >= 1 /\ Len(applied') = Len(applied) - 1
      /\ \A i \in 1 .. Len(applied) - 1 : applied'[i] = applied[i + 1] /\ i + 1 \in 1 .. Len(applied)
  BY <1>1, <1>2, SeqParts
<1>4. ASSUME NEW n \in 1 .. Len(applied), NEW index, NoneMissing(stored, index, chosen, applied, n),
             index \in Int
      PROVE  NoneMissing(stored', index, chosen', applied', n - 1)
  <2> SUFFICES ASSUME NEW i \in stored' + 1 .. index, chosen[i] # Noop
               PROVE  \E m \in 1 .. n - 1 :
                         applied'[m].type # "SnapshotRequest" /\ i <= applied'[m].index
    BY <1>1 DEF NoneMissing
  <2>1. i \in stored + 1 .. index /\ i > stored' /\ i \in Int
    <3> DEFINE x == stored'
    <3>1. x \in Nat /\ stored <= x /\ i \in x + 1 .. index
      BY <1>2
    <3> HIDE DEF x
    <3>2. i \in stored + 1 .. index /\ i > x /\ i \in Int
      BY <3>1, <1>2, <1>4
    <3> QED  BY <3>2 DEF x
  <2>2. PICK k \in 1 .. n : applied[k].type # "SnapshotRequest" /\ i <= applied[k].index
    BY <2>1, <1>4 DEF NoneMissing
  <2>3. k # 1
    <3> SUFFICES ASSUME k = 1 PROVE FALSE
      OBVIOUS
    <3>1. stored' = applied[1].index /\ i <= applied[1].index
      BY <2>2, <1>1, <1>3
    <3> QED  BY <3>1, <2>1, <1>2
  <2>4. PICK m \in 1 .. n - 1 : k = m + 1
    <3>1. k - 1 \in 1 .. n - 1 /\ k = (k - 1) + 1
      BY <2>2, <2>3, <1>2
    <3> QED  BY <3>1
  <2>5. applied'[m] = applied[k]
    BY <2>4, <1>2, <1>3
  <2> QED  BY <2>2, <2>5
<1>5. ASSUME NEW j \in 1 .. Len(applied'), applied'[j].type = "Command"
      PROVE  /\ applied'[j].command = chosen'[applied'[j].index].command
             /\ NoneMissing(stored', applied'[j].index - 1, chosen', applied', j - 1)
  <2>1. j + 1 \in 1 .. Len(applied) /\ applied'[j] = applied[j + 1] /\ (j + 1) - 1 = j
        /\ j \in 1 .. Len(applied)
    BY <1>2, <1>3
  <2>2. /\ applied[j + 1].index \in Nat
        /\ applied[j + 1].command = chosen[applied[j + 1].index].command
        /\ NoneMissing(stored, applied[j + 1].index - 1, chosen, applied, (j + 1) - 1)
    BY <2>1, <1>5, CommandIs
  <2>3. NoneMissing(stored', applied[j + 1].index - 1, chosen', applied', j - 1)
    BY <2>1, <2>2, <1>4
  <2> QED  BY <2>1, <2>2, <2>3, <1>1
<1>6. NoneMissing(stored', handed', chosen', applied', Len(applied'))
  <2>1. NoneMissing(stored, handed, chosen, applied, Len(applied)) /\ handed \in Int
    BY HandedIs DEF IInv, InOrder
  <2>2. Len(applied) \in 1 .. Len(applied)
    BY <1>2, <1>3
  <2> QED  BY <2>1, <2>2, <1>1, <1>3, <1>4
<1> QED  BY <1>5, <1>6 DEF InOrder

LEMMA NextInOrder == IInv /\ [Next]_vars => InOrder'
<1> SUFFICES ASSUME IInv, [Next]_vars PROVE InOrder'
  OBVIOUS
<1>1. Grows /\ handed \in Nat /\ handed' \in Nat
  BY NextGrows, NextLoop, HandedIs DEF LoopTypes
<1>2. ASSUME UNCHANGED <<applied, stored, handed>> PROVE InOrder'
  BY <1>1, <1>2, OrderFrame
<1>3. ASSUME NEW c \in Client, NEW r \in Request, Submit(c, r) PROVE InOrder'
  BY <1>3, <1>2 DEF Submit, app
<1>4. ASSUME NEW c \in Client, Answered(c) \/ ReadStore(c) PROVE InOrder'
  BY <1>4, <1>2 DEF Answered, ReadStore, app, channels
<1>5. CASE TakeProposal \/ TakeRead \/ Drain \/ ReadBarrierReady \/ TakeSnapshot
  BY <1>5, <1>2 DEF TakeProposal, TakeRead, Drain, ReadBarrierReady, TakeSnapshot, app, channels
<1>6. CASE ApplyAnswer
  <2>1. /\ At("Apply", "start") /\ UNCHANGED <<applied, stored, chosen>>
        /\ \/ Head(todo).entry = Noop /\ handed' = Head(todo).index
           \/ handed' = handed
    BY <1>6 DEF ApplyAnswer, app, channels, raft
  <2>2. Base = handed
    BY <2>1, BaseIs DEF At
  <2>3. Head(todo).index = handed + 1 /\ Head(todo).entry = chosen[handed + 1]
    BY <2>1, <2>2, HeadApply
  <2> QED  BY <2>1, <2>3, <1>1, OrderFrame
<1>7. CASE ApplySend
  <2> DEFINE item == [type |-> "Command", command |-> Head(todo).entry.command,
                      index |-> Head(todo).index]
  <2>1. /\ At("Apply", "send") /\ applied' = Append(applied, item) /\ handed' = Head(todo).index
        /\ UNCHANGED <<stored, chosen>>
    BY <1>7 DEF ApplySend, ToApplication, app, raft
  <2>2. Base = handed
    BY <2>1, BaseIs DEF At
  <2>3. /\ Head(todo).index = handed + 1 /\ Head(todo).entry = chosen[handed + 1]
        /\ Head(todo).entry.command \in Command
    BY <2>1, <2>2, HeadApply
  <2>4. /\ item \in Item /\ item.type = "Command" /\ item.index = handed'
        /\ item.command = chosen'[handed'].command /\ handed' = handed + 1
    BY <2>1, <2>3, <1>1, ItemsAre
  <2> HIDE DEF item
  <2> QED  BY <2>1, <2>4, <1>1, OrderSend
<1>8. CASE AskSnapshot
  <2> DEFINE item == [type |-> "SnapshotRequest"]
  <2>1. applied' = Append(applied, item) /\ handed' = handed /\ stored' = stored
    BY <1>8 DEF AskSnapshot, ToApplication, app
  <2>2. item \in Item /\ item.type = "SnapshotRequest"
    BY ItemsAre
  <2> HIDE DEF item
  <2> QED  BY <2>1, <2>2, <1>1, OrderSend
<1>9. CASE InstallSnapshot
  <2> DEFINE item == [type |-> "Snapshot", data |-> Head(todo).data, index |-> Head(todo).index]
  <2>1. /\ At("Install", "start") /\ applied' = Append(applied, item)
        /\ handed' = Head(todo).index /\ UNCHANGED stored
    BY <1>9, Zenon DEF InstallSnapshot, ToApplication, app
  <2>2. Head(todo).data \in Map
    BY <2>1, HeadInstall
  <2>3. item \in Item /\ item.type = "Snapshot" /\ item.index = handed'
    BY <2>1, <2>2, <1>1, ItemsAre
  <2> HIDE DEF item
  <2> QED  BY <2>1, <2>3, <1>1, OrderSend
<1>10. ASSUME NEW k, NEW R, Advance(k, R) PROVE InOrder'
  BY <1>10, <1>2 DEF Advance, channels, app
<1>11. ASSUME NEW leader, NEW n, NEW k, NEW data, Follow(leader, n, k) \/ Install(leader, k, data)
       PROVE  InOrder'
  BY <1>11, <1>2 DEF Follow, Install, channels, app
<1>12. CASE Elected
  BY <1>12, <1>2 DEF Elected, channels, app
<1>13. ASSUME NEW leader, StepDown(leader) PROVE InOrder'
  BY <1>13, <1>2 DEF StepDown, channels, app
<1>14. ASSUME NEW entry, ChosenElsewhere(entry) PROVE InOrder'
  BY <1>14, <1>2 DEF ChosenElsewhere, channels, app
<1>15. CASE EventLoopPanics
  BY <1>15, <1>2 DEF EventLoopPanics, app
<1>16. CASE ApplyNext
  BY <1>16, OrderTake
<1>17. CASE UNCHANGED vars
  BY <1>17, <1>2 DEF vars, channels, app
<1> QED
  BY <1>3, <1>4, <1>5, <1>6, <1>7, <1>8, <1>9, <1>10, <1>11, <1>12, <1>13, <1>14, <1>15,
     <1>16, <1>17, FlatNext DEF Stepping

\* Only the apply task writes the map.
LEMMA OnlyApplyNext ==
    ASSUME [Next]_vars, ~ApplyNext
    PROVE  UNCHANGED <<store, stored>>
<1>1. ASSUME UNCHANGED app PROVE UNCHANGED <<store, stored>>
  BY <1>1 DEF app
<1>2. ASSUME NEW c, NEW r, Submit(c, r) \/ Answered(c) \/ ReadStore(c) PROVE UNCHANGED app
  BY <1>2 DEF Submit, Answered, ReadStore
<1>3. CASE TakeProposal \/ TakeRead \/ ApplyAnswer \/ ApplySend \/ AskSnapshot \/ TakeSnapshot
  BY <1>1, <1>3 DEF TakeProposal, TakeRead, ApplyAnswer, ApplySend, AskSnapshot, TakeSnapshot
<1>4. CASE InstallSnapshot \/ ReadBarrierReady \/ Drain \/ Elected \/ EventLoopPanics
  BY <1>1, <1>4, Zenon DEF InstallSnapshot, ReadBarrierReady, Drain, Elected, EventLoopPanics
<1>5. ASSUME NEW k, NEW R, Advance(k, R) PROVE UNCHANGED app
  BY <1>5 DEF Advance
<1>6. ASSUME NEW leader, NEW n, NEW k, NEW data, Follow(leader, n, k) \/ Install(leader, k, data)
      PROVE  UNCHANGED app
  BY <1>6 DEF Follow, Install
<1>7. ASSUME NEW x, StepDown(x) \/ ChosenElsewhere(x) PROVE UNCHANGED app
  BY <1>7 DEF StepDown, ChosenElsewhere
<1>8. CASE UNCHANGED vars
  BY <1>8 DEF vars, app
<1> QED
  BY <1>1, <1>2, <1>3, <1>4, <1>5, <1>6, <1>7, <1>8, FlatNext DEF Stepping

-----------------------------------------------------------------------------
(***************************************************************************)
(* The requests.                                                           *)
(***************************************************************************)
\* Neither index goes back.
LEMMA NextForward == IInv /\ [Next]_vars => handed <= handed' /\ last_applied <= last_applied'
<1> SUFFICES ASSUME IInv, [Next]_vars PROVE handed <= handed' /\ last_applied <= last_applied'
  OBVIOUS
<1>1. handed \in Nat /\ last_applied \in Nat /\ handed <= last_applied /\ Base \in Nat /\ Base <= handed
  BY BaseIs
<1>2. ASSUME UNCHANGED <<handed, last_applied>> PROVE handed <= handed' /\ last_applied <= last_applied'
  BY <1>1, <1>2
<1>3. ASSUME NEW c \in Client, NEW r \in Request, Submit(c, r)
      PROVE  UNCHANGED <<handed, last_applied>>
  BY <1>3 DEF Submit, raft
<1>4. ASSUME NEW c \in Client, Answered(c) \/ ReadStore(c) PROVE UNCHANGED <<handed, last_applied>>
  BY <1>4 DEF Answered, ReadStore, raft
<1>5. CASE TakeProposal \/ TakeRead \/ AskSnapshot \/ TakeSnapshot \/ ReadBarrierReady \/ Drain
  BY <1>5, <1>2 DEF TakeProposal, TakeRead, AskSnapshot, TakeSnapshot, ReadBarrierReady, Drain, raft
<1>6. CASE ApplyAnswer \/ ApplySend
  <2>1. At("Apply", "start") \/ At("Apply", "send")
    BY <1>6 DEF ApplyAnswer, ApplySend
  <2>2. last_applied' = last_applied /\ (handed' = handed \/ handed' = Head(todo).index)
    BY <1>6 DEF ApplyAnswer, ApplySend, raft
  <2>3. Head(todo).index = Base + 1
    BY <2>1, HeadApply
  <2>4. Base = handed
    BY <2>1, BaseIs DEF At
  <2> QED  BY <2>2, <2>3, <2>4, <1>1
<1>7. CASE InstallSnapshot
  <2>1. At("Install", "start") /\ handed' = Head(todo).index /\ last_applied' = last_applied
    BY <1>7, Zenon DEF InstallSnapshot, raft
  <2> QED  BY <2>1, <1>1, HeadInstall
<1>8. ASSUME NEW k \in last_applied .. Len(log), NEW R, Advance(k, R)
      PROVE  handed <= handed' /\ last_applied <= last_applied'
  BY <1>8, <1>1 DEF Advance, IInv, LoopTypes
<1>9. ASSUME NEW leader \in Nodes, NEW n \in 0 .. Len(chosen), NEW k \in last_applied .. n,
             Follow(leader, n, k)
      PROVE  handed <= handed' /\ last_applied <= last_applied'
  BY <1>9, <1>1, FollowDoes DEF Follow
<1>10. ASSUME NEW leader \in Nodes, NEW k \in 1 .. Len(chosen),
             NEW data \in Snapshots(k), Install(leader, k, data)
       PROVE  handed <= handed' /\ last_applied <= last_applied'
  BY <1>10, <1>1, InstallDoes DEF Install
<1>11. CASE Elected
  BY <1>11, <1>2 DEF Elected
<1>12. ASSUME NEW leader, StepDown(leader) PROVE UNCHANGED <<handed, last_applied>>
  BY <1>12 DEF StepDown
<1>13. ASSUME NEW entry, ChosenElsewhere(entry) PROVE UNCHANGED <<handed, last_applied>>
  BY <1>13 DEF ChosenElsewhere
<1>14. CASE EventLoopPanics
  BY <1>14, <1>2 DEF EventLoopPanics
<1>15. CASE ApplyNext
  BY <1>15, <1>2 DEF ApplyNext, raft
<1>16. CASE UNCHANGED vars
  BY <1>16, <1>2 DEF vars, raft
<1> QED
  BY <1>2, <1>3, <1>4, <1>5, <1>6, <1>7, <1>8, <1>9, <1>10, <1>11, <1>12, <1>13, <1>14, <1>15,
     <1>16, FlatNext DEF Stepping

\* A request gets into the log when it is proposed, and in no other way.
Heard(c) ==
    /\ Occurs(c, chosen) => Occurs(c, chosen')
    /\ Occurs(c, log') \/ Occurs(c, chosen') => Occurs(c, log) \/ Occurs(c, chosen)

LEMMA HeardFrame ==
    ASSUME IInv, NEW c \in Client, log' = log \/ log' = << >>, chosen' = chosen
    PROVE  Heard(c)
<1>1. Len(<< >>) = 0 /\ 1 .. 0 = {}
  OBVIOUS
<1>2. ~Occurs(c, << >>)
  BY <1>1 DEF Occurs
<1>3. Occurs(c, log') => Occurs(c, log)
  BY <1>2
<1> QED  BY <1>3 DEF Heard

LEMMA NextHeard ==
    ASSUME IInv, [Next]_vars, ~TakeProposal, NEW c \in Client
    PROVE  Heard(c)
<1>1. /\ log \in Seq(Entry) /\ chosen \in Seq(Entry) /\ c # None
      /\ Len(log) \in Nat /\ Len(chosen) \in Nat
  BY ConstantsOK DEF IInv, LoopTypes
<1>2. ASSUME NEW a \in Client, NEW r \in Request, Submit(a, r) PROVE Heard(c)
  BY <1>2, HeardFrame DEF Submit, raft
<1>3. ASSUME NEW a \in Client, Answered(a) \/ ReadStore(a) PROVE Heard(c)
  BY <1>3, HeardFrame DEF Answered, ReadStore, raft
<1>4. CASE TakeRead \/ ApplyAnswer \/ ApplySend \/ AskSnapshot \/ TakeSnapshot \/ ReadBarrierReady \/ Drain
  BY <1>4, HeardFrame DEF TakeRead, ApplyAnswer, ApplySend, AskSnapshot, TakeSnapshot,
     ReadBarrierReady, Drain, raft
<1>5. CASE InstallSnapshot
  <2>1. log' = log /\ chosen' = chosen
    BY <1>5, Zenon DEF InstallSnapshot, raft
  <2> QED  BY <2>1, HeardFrame
<1>6. Occurs(c, chosen) => Occurs(c, chosen')
  <2>1. /\ chosen' \in Seq(Entry) /\ Len(chosen) <= Len(chosen')
        /\ \A i \in 1 .. Len(chosen) : chosen'[i] = chosen[i]
    BY NextGrows DEF Grows
  <2>2. \A i \in 1 .. Len(chosen) : i \in 1 .. Len(chosen')
    BY <2>1, <1>1
  <2> QED  BY <2>1, <2>2 DEF Occurs
<1>7. ASSUME NEW k \in last_applied .. Len(log), NEW R \in SUBSET pending_reads, Advance(k, R)
      PROVE  Heard(c)
  <2>2. log' = log /\ chosen' = IF k > Len(chosen) THEN SubSeq(log, 1, k) ELSE chosen
    BY <1>7 DEF Advance
  <2>3. CASE ~(k > Len(chosen))
    BY <2>2, <2>3, HeardFrame
  <2>4. CASE k > Len(chosen)
    <3>1. k \in 0 .. Len(log)
      BY <1>1 DEF IInv, LoopTypes
    <3>2. Len(chosen') = k /\ \A i \in 1 .. k : chosen'[i] = log[i]
      BY <2>2, <2>4, <3>1, <1>1, PrefixParts
    <3>3. \A i \in 1 .. Len(chosen') : i \in 1 .. Len(log) /\ chosen'[i] = log[i]
      <4>1. \A i \in 1 .. k : i \in 1 .. Len(log)
        BY <3>1, <1>1
      <4> QED  BY <4>1, <3>2
    <3> QED  BY <3>3, <2>2, <1>6 DEF Heard, Occurs
  <2> QED  BY <2>3, <2>4
<1>8. ASSUME NEW leader \in Nodes, NEW n \in 0 .. Len(chosen), NEW k \in last_applied .. n,
             Follow(leader, n, k)
      PROVE  Heard(c)
  <2>1. /\ chosen' = chosen /\ log' \in Seq(Entry) /\ n \in Nat /\ n <= Len(chosen)
        /\ \A i \in 1 .. n : log'[i] = chosen[i]
        /\ log' = log \/ (Len(log') = n)
    BY <1>8, FollowDoes
  <2>2. CASE log' = log
    BY <2>1, <2>2, HeardFrame
  <2>3. CASE Len(log') = n
    <3>1. \A i \in 1 .. Len(log') : i \in 1 .. Len(chosen) /\ log'[i] = chosen[i]
      <4>1. \A i \in 1 .. n : i \in 1 .. Len(chosen)
        BY <2>1, <1>1
      <4> QED  BY <4>1, <2>1, <2>3
    <3> QED  BY <3>1, <2>1 DEF Heard, Occurs
  <2> QED  BY <2>1, <2>2, <2>3
<1>9. ASSUME NEW leader \in Nodes, NEW k \in 1 .. Len(chosen),
             NEW data \in Snapshots(k), Install(leader, k, data)
      PROVE  Heard(c)
  <2>1. /\ chosen' = chosen /\ Len(log') = k /\ k \in Nat /\ k <= Len(chosen)
        /\ \A i \in 1 .. k : log'[i] = chosen[i]
    BY <1>9, InstallDoes
  <2>2. \A i \in 1 .. Len(log') : i \in 1 .. Len(chosen) /\ log'[i] = chosen[i]
    <3>1. \A i \in 1 .. k : i \in 1 .. Len(chosen)
      BY <2>1, <1>1
    <3> QED  BY <3>1, <2>1
  <2> QED  BY <2>1, <2>2 DEF Heard, Occurs
<1>10. CASE Elected
  <2>1. /\ Len(log') = Len(log) + 1 /\ log'[Len(log) + 1] = Noop
        /\ \A i \in 1 .. Len(log) : log'[i] = log[i]
    BY <1>10, ElectedDoes
  <2>2. chosen' = chosen
    BY <1>10 DEF Elected
  <2>3. \A i \in 1 .. Len(log') : i \in 1 .. Len(log) \/ i = Len(log) + 1
    BY <2>1, <1>1
  <2>4. Occurs(c, log') => Occurs(c, log)
    BY <2>1, <2>3, <1>1, EntriesAre DEF Occurs
  <2> QED  BY <2>2, <2>4 DEF Heard
<1>11. ASSUME NEW leader, StepDown(leader) PROVE Heard(c)
  BY <1>11, HeardFrame DEF StepDown
<1>12. ASSUME NEW entry \in Foreign \cup {log[i] : i \in 1 .. Len(log)}, ChosenElsewhere(entry)
       PROVE  Heard(c)
  <2>1. /\ Len(chosen') = Len(chosen) + 1 /\ chosen'[Len(chosen) + 1] = entry
        /\ \A i \in 1 .. Len(chosen) : chosen'[i] = chosen[i]
        /\ \/ entry.client = None
           \/ Len(chosen) + 1 \in 1 .. Len(log) /\ log[Len(chosen) + 1] = entry
    BY <1>12, ChosenDoes
  <2>2. log' = log
    BY <1>12 DEF ChosenElsewhere
  <2>3. /\ \A i \in 1 .. Len(chosen') : i \in 1 .. Len(chosen) \/ i = Len(chosen) + 1
        /\ \A i \in 1 .. Len(chosen) : i \in 1 .. Len(chosen')
    BY <2>1, <1>1
  <2>4. Occurs(c, chosen') => Occurs(c, log) \/ Occurs(c, chosen)
    BY <2>1, <2>3, <1>1 DEF Occurs
  <2>5. Occurs(c, chosen) => Occurs(c, chosen')
    BY <2>1, <2>3 DEF Occurs
  <2> QED  BY <2>2, <2>4, <2>5 DEF Heard
<1>13. CASE EventLoopPanics
  BY <1>13, HeardFrame DEF EventLoopPanics
<1>14. CASE ApplyNext
  BY <1>14, HeardFrame DEF ApplyNext, raft
<1>15. CASE UNCHANGED vars
  BY <1>15, HeardFrame DEF vars, raft
<1> QED
  BY <1>2, <1>3, <1>4, <1>5, <1>7, <1>8, <1>9, <1>10, <1>11, <1>12, <1>13, <1>14, <1>15,
     FlatNext DEF Stepping

LEMMA StandingFrame ==
    ASSUME IInv, [Next]_vars, acked' = acked,
           UNCHANGED <<pending_proposals, role, current_leader, log, alive, drain>>,
           alive \/ UNCHANGED <<proposals, reads, pending_reads>>
    PROVE  Standing'
<1>1. Standing /\ acked \in Nat /\ last_applied \in Nat /\ last_applied <= last_applied'
  BY NextForward DEF IInv, ClientInv, HandlerTypes, LoopTypes
<1>2. last_applied' \in Nat
  BY NextLoop DEF LoopTypes
<1>3. acked' <= last_applied'
  BY <1>1, <1>2 DEF Standing
<1> QED  BY <1>1, <1>3, Zenon DEF Standing

LEMMA NextStanding == IInv /\ [Next]_vars => Standing'
<1> SUFFICES ASSUME IInv, [Next]_vars PROVE Standing'
  OBVIOUS
<1>1. /\ Standing /\ acked \in Nat /\ last_applied \in Nat /\ acked <= last_applied
      /\ last_applied <= last_applied' /\ last_applied' \in Nat
  BY NextForward, NextLoop DEF IInv, ClientInv, Standing, HandlerTypes, LoopTypes
<1>2. acked <= last_applied'
  BY <1>1
<1>3. ASSUME NEW c \in Client, NEW r \in Request, Submit(c, r) PROVE Standing'
  <2>1. /\ UNCHANGED <<acked, pending_proposals, role, current_leader, log, alive, drain, pending_reads>>
        /\ ~alive => UNCHANGED <<proposals, reads>>
    BY <1>3 DEF Submit, loop, raft
  <2> QED  BY <2>1, StandingFrame
<1>4. ASSUME NEW c \in Client, Answered(c) \/ ReadStore(c) PROVE Standing'
  BY <1>4, StandingFrame DEF Answered, ReadStore, channels, loop, raft
<1>5. CASE TakeRead
  BY <1>5, StandingFrame DEF TakeRead, Idle, raft
<1>6. CASE TakeProposal
  <2> DEFINE c == Head(proposals)
  <2>1. /\ Idle /\ alive /\ UNCHANGED <<acked, role, current_leader, alive, drain, reads, pending_reads>>
    BY <1>6 DEF TakeProposal, Idle
  <2>2. CASE role # "Leader"
    BY <1>6, <2>1, <2>2, StandingFrame DEF TakeProposal
  <2>3. CASE role = "Leader"
    <3>1. /\ log' = Append(log, EntryOf(c))
          /\ pending_proposals' = pending_proposals \cup {[index |-> Len(log) + 1, client |-> c]}
      BY <1>6, <2>3 DEF TakeProposal
    <3>2. log \in Seq(Entry) /\ Len(log) \in Nat /\ pending_proposals \subseteq [index : 1 .. Len(log), client : Client]
      BY DEF IInv, LoopTypes
    <3>3. log'[Len(log) + 1] = EntryOf(c) /\ \A i \in 1 .. Len(log) : log'[i] = log[i]
      BY <3>1, <3>2
    <3>4. EntryOf(c).client = c
      BY DEF EntryOf
    <3>5. \A p \in pending_proposals : log'[p.index].client = p.client
      BY <3>2, <3>3, <1>1 DEF Standing
    <3>6. log'[Len(log) + 1].client = c
      BY <3>3, <3>4
    <3>7. \A p \in pending_proposals' : log'[p.index].client = p.client
      <4> DEFINE q == [index |-> Len(log) + 1, client |-> c]
      <4>1. q.index = Len(log) + 1 /\ q.client = c
        OBVIOUS
      <4> HIDE DEF q
      <4>2. log'[q.index].client = q.client
        BY <4>1, <3>6
      <4>3. pending_proposals' = pending_proposals \cup {q}
        BY <3>1 DEF q
      <4> QED  BY <4>2, <4>3, <3>5
    <3> QED  BY <3>7, <2>1, <2>3, <1>2 DEF Standing
  <2> QED  BY <2>2, <2>3
<1>7. CASE ApplyAnswer
  <2> DEFINE mine == {p \in pending_proposals : p.index = Head(todo).index}
  <2>1. /\ At("Apply", "start") /\ pending_proposals' = pending_proposals \ mine
        /\ acked' = acked \/ acked' = Head(todo).index
        /\ UNCHANGED <<role, current_leader, log, alive, drain, proposals, reads, pending_reads>>
        /\ UNCHANGED last_applied
    BY <1>7 DEF ApplyAnswer, channels, raft
  <2>2. Head(todo).index = Base + 1 /\ Base + 1 \in 1 .. last_applied
    BY <2>1, HeadApply
  <2>3. acked' <= last_applied'
    BY <2>1, <2>2, <1>1
  <2>4. pending_proposals' \subseteq pending_proposals
    BY <2>1
  <2> HIDE DEF mine
  <2>5. /\ pending_proposals' # {} => alive' /\ (role' = "Leader" \/ drain')
        /\ \A p \in pending_proposals' : log'[p.index].client = p.client
    BY <2>1, <2>4, <1>1 DEF Standing
  <2> QED  BY <2>1, <2>3, <2>5, <1>1 DEF Standing
<1>8. CASE ApplySend \/ AskSnapshot \/ TakeSnapshot
  BY <1>8, StandingFrame DEF ApplySend, AskSnapshot, TakeSnapshot, raft
<1>9. CASE InstallSnapshot
  <2>1. UNCHANGED <<acked, pending_proposals, role, current_leader, log, alive, drain, proposals,
                    reads, pending_reads>>
    BY <1>9, Zenon DEF InstallSnapshot, raft
  <2> QED  BY <2>1, StandingFrame
<1>10. CASE ReadBarrierReady
  BY <1>10, StandingFrame DEF ReadBarrierReady, At, raft
<1>11. CASE Drain
  <2>1. /\ alive /\ pending_proposals' = {}
        /\ UNCHANGED <<acked, role, current_leader, alive>>
    BY <1>11 DEF Drain, raft
  <2> QED  BY <2>1, <1>1, <1>2 DEF Standing
<1>12. ASSUME NEW k, NEW R, Advance(k, R) PROVE Standing'
  BY <1>12, StandingFrame DEF Advance, channels
<1>13. ASSUME NEW leader, NEW n, NEW k, NEW data,
      Follow(leader, n, k) \/ Install(leader, k, data) PROVE Standing'
  <2>1. /\ Idle /\ role = "Follower" /\ leader # node_id /\ current_leader' = leader
        /\ UNCHANGED <<acked, pending_proposals, alive, role>>
    BY <1>13 DEF Follow, Install
  <2>2. pending_proposals = {} /\ alive
    BY <2>1, NonePending
  <2> QED  BY <2>1, <2>2, <1>2 DEF Standing
<1>14. CASE Elected
  <2>1. Idle /\ role = "Follower" /\ role' = "Leader" /\ UNCHANGED <<acked, pending_proposals, alive>>
    BY <1>14 DEF Elected, loop
  <2>2. pending_proposals = {} /\ alive
    BY <2>1, NonePending
  <2> QED  BY <2>1, <2>2, <1>2 DEF Standing
<1>15. ASSUME NEW leader, StepDown(leader) PROVE Standing'
  <2>1. /\ alive /\ leader # node_id /\ current_leader' = leader /\ drain'
        /\ UNCHANGED <<acked, pending_proposals, alive, log>>
    BY <1>15 DEF StepDown, Idle
  <2> QED  BY <2>1, <1>1, <1>2 DEF Standing
<1>16. ASSUME NEW entry, ChosenElsewhere(entry) PROVE Standing'
  BY <1>16, StandingFrame DEF ChosenElsewhere, channels, loop
<1>17. CASE EventLoopPanics
  <2>1. /\ pending_proposals' = {} /\ pending_reads' = {} /\ proposals' = << >> /\ reads' = << >>
        /\ acked' = acked /\ current_leader' = None
    BY <1>17 DEF EventLoopPanics
  <2> QED  BY <2>1, <1>2, NodeIdIs DEF Standing
<1>18. CASE ApplyNext
  BY <1>18, StandingFrame DEF ApplyNext, loop, raft
<1>19. CASE UNCHANGED vars
  BY <1>19, StandingFrame DEF vars, channels, loop, raft
<1> QED
  BY <1>3, <1>4, <1>5, <1>6, <1>7, <1>8, <1>9, <1>10, <1>11, <1>12, <1>13, <1>14, <1>15,
     <1>16, <1>17, <1>18, <1>19, FlatNext DEF Stepping

LEMMA ReadyFrame ==
    ASSUME IInv, todo' = todo, pending_reads \subseteq pending_reads'
    PROVE  ReadyOnce'
  BY DEF IInv, ClientInv, ReadyOnce

LEMMA ReadyTail ==
    ASSUME IInv, NEW a, NEW s, At(a, s), todo' = Tail(todo), pending_reads' = pending_reads, a # "Ready"
    PROVE  ReadyOnce'
<1>1. /\ Len(todo) \in Nat /\ Len(todo') = Len(todo) - 1
      /\ \A i \in 1 .. Len(todo) - 1 : todo'[i] = todo[i + 1] /\ i + 1 \in 1 .. Len(todo)
  BY HeadAction
<1>2. ReadyOnce
  BY DEF IInv, ClientInv
<1>3. ASSUME NEW i \in 1 .. Len(todo'), NEW j \in 1 .. Len(todo'),
             todo'[i].act = "Ready", todo'[j].act = "Ready", todo'[i] = todo'[j]
      PROVE  i = j
  <2>1. i \in 1 .. Len(todo) - 1 /\ j \in 1 .. Len(todo) - 1
    BY <1>1
  <2>2. i + 1 = j + 1
    BY <2>1, <1>1, <1>2, <1>3 DEF ReadyOnce
  <2> QED  BY <2>1, <2>2, <1>1
<1>4. ASSUME NEW i \in 1 .. Len(todo'), todo'[i].act = "Ready"
      PROVE  todo'[i].client \in pending_reads
  BY <1>1, <1>2, <1>4 DEF ReadyOnce
<1> QED  BY <1>3, <1>4 DEF ReadyOnce

LEMMA NextReady == IInv /\ [Next]_vars => ReadyOnce'
<1> SUFFICES ASSUME IInv, [Next]_vars PROVE ReadyOnce'
  OBVIOUS
<1>1. ReadyOnce
  BY DEF IInv, ClientInv
<1>2. ASSUME Len(todo') = 0 PROVE ReadyOnce'
  <2>1. 1 .. Len(todo') = {}
    BY <1>2
  <2> QED  BY <2>1 DEF ReadyOnce
<1>3. ASSUME NEW c \in Client, NEW r \in Request, Submit(c, r) PROVE ReadyOnce'
  BY <1>3, ReadyFrame DEF Submit, loop
<1>4. ASSUME NEW c \in Client, Answered(c) \/ ReadStore(c) PROVE ReadyOnce'
  BY <1>4, ReadyFrame DEF Answered, ReadStore, loop
<1>5. CASE TakeProposal \/ TakeRead
  <2>1. todo' = todo /\ pending_reads \subseteq pending_reads'
    BY <1>5 DEF TakeProposal, TakeRead
  <2> QED  BY <2>1, ReadyFrame
<1>6. CASE ApplyAnswer \/ ApplySend \/ AskSnapshot \/ TakeSnapshot
  <2>1. /\ pending_reads' = pending_reads
        /\ At("Apply", "start") \/ At("Apply", "send") \/ At("Apply", "ask") \/ At("Apply", "await")
        /\ todo' = todo \/ todo' = Tail(todo)
    BY <1>6 DEF ApplyAnswer, ApplySend, AskSnapshot, TakeSnapshot, NextAction
  <2> QED  BY <2>1, ReadyFrame, ReadyTail
<1>7. CASE InstallSnapshot
  <2>1. /\ At("Install", "start") /\ todo' = Tail(todo) /\ pending_reads' = pending_reads
    BY <1>7, Zenon DEF InstallSnapshot, NextAction
  <2> QED  BY <2>1, ReadyTail
<1>8. CASE ReadBarrierReady
  <2> DEFINE c == Head(todo).client
  <2>1. /\ At("Ready", "start") /\ todo' = Tail(todo) /\ pending_reads' = pending_reads \ {c}
    BY <1>8 DEF ReadBarrierReady, NextAction
  <2>2. /\ Head(todo) = todo[1] /\ todo[1] \in Action /\ todo[1].act = "Ready"
        /\ Len(todo) \in Nat /\ Len(todo) >= 1 /\ Len(todo') = Len(todo) - 1
        /\ \A i \in 1 .. Len(todo) - 1 : todo'[i] = todo[i + 1] /\ i + 1 \in 1 .. Len(todo)
    BY <2>1, HeadAction
  <2>3. ASSUME NEW i \in 1 .. Len(todo'), NEW j \in 1 .. Len(todo'),
               todo'[i].act = "Ready", todo'[j].act = "Ready", todo'[i] = todo'[j]
        PROVE  i = j
    <3>1. i \in 1 .. Len(todo) - 1 /\ j \in 1 .. Len(todo) - 1
      BY <2>2
    <3>2. i + 1 = j + 1
      BY <3>1, <2>2, <2>3, <1>1 DEF ReadyOnce
    <3> QED  BY <3>1, <3>2, <2>2
  <2>4. ASSUME NEW i \in 1 .. Len(todo'), todo'[i].act = "Ready"
        PROVE  todo'[i].client \in pending_reads'
    <3>1. PICK m \in 1 .. Len(todo) : m # 1 /\ todo'[i] = todo[m]
      <4>1. i \in 1 .. Len(todo) - 1
        BY <2>2
      <4>2. i + 1 \in 1 .. Len(todo) /\ i + 1 # 1 /\ todo'[i] = todo[i + 1]
        BY <4>1, <2>2
      <4> QED  BY <4>2
    <3>2. 1 \in 1 .. Len(todo)
      BY <2>2
    <3>3. todo[m] # todo[1] /\ todo[m].client \in pending_reads
      BY <3>1, <3>2, <2>2, <2>4, <1>1 DEF ReadyOnce
    <3>4. todo[m] \in ReadyAction /\ todo[1] \in ReadyAction
      <4>1. todo[m] \in Action
        BY DEF IInv, LoopTypes
      <4> QED  BY <4>1, <3>1, <2>2, <2>4, ActionIs
    <3>5. todo[m].client # todo[1].client
      BY <3>3, <3>4 DEF ReadyAction
    <3> QED  BY <3>1, <3>3, <3>5, <2>1, <2>2
  <2> QED  BY <2>3, <2>4 DEF ReadyOnce
<1>9. CASE Drain \/ EventLoopPanics
  <2>1. todo' = << >>
    BY <1>9 DEF Drain, EventLoopPanics
  <2> QED  BY <2>1, <1>2
<1>10. ASSUME NEW k \in last_applied .. Len(log), NEW R \in SUBSET pending_reads, Advance(k, R)
       PROVE  ReadyOnce'
  <2>1. /\ todo' \in Seq(Action) /\ Cardinality(R) \in Nat /\ k \in Nat
        /\ Len(todo') = (k - last_applied) + Cardinality(R)
        /\ \A i \in 1 .. k - last_applied :
              todo'[i] = [act |-> "Apply", index |-> last_applied + i,
                          entry |-> chosen'[last_applied + i]]
        /\ \A i \in 1 .. Len(todo') : i > k - last_applied => todo'[i].client \in R
        /\ \A i, j \in 1 .. Len(todo') :
              i > k - last_applied /\ j > k - last_applied /\ todo'[i] = todo'[j] => i = j
    BY <1>10, AdvanceDoes
  <2>2. last_applied \in Nat
    BY DEF IInv, LoopTypes
  <2>3. ASSUME NEW i \in 1 .. Len(todo'), todo'[i].act = "Ready" PROVE i > k - last_applied
    <3> SUFFICES ASSUME ~(i > k - last_applied) PROVE FALSE
      OBVIOUS
    <3>1. i \in 1 .. k - last_applied
      BY <2>1, <2>2
    <3>2. todo'[i] = [act |-> "Apply", index |-> last_applied + i, entry |-> chosen'[last_applied + i]]
      BY <3>1, <2>1, Zenon
    <3>3. todo'[i].act = "Apply"
      BY ONLY <3>2
    <3> QED  BY <3>3, <2>3
  <2>4. R \subseteq pending_reads'
    BY <1>10 DEF Advance
  <2> QED  BY <2>1, <2>3, <2>4 DEF ReadyOnce
<1>11. ASSUME NEW leader \in Nodes, NEW n \in 0 .. Len(chosen), NEW k \in last_applied .. n,
              Follow(leader, n, k)
       PROVE  ReadyOnce'
  <2>1. /\ Len(todo') = k - last_applied
        /\ \A i \in 1 .. k - last_applied :
              todo'[i] = [act |-> "Apply", index |-> last_applied + i,
                          entry |-> chosen[last_applied + i]]
    BY <1>11, FollowDoes
  <2>2. \A i \in 1 .. Len(todo') : todo'[i].act = "Apply"
    BY <2>1
  <2> QED  BY <2>2 DEF ReadyOnce
<1>12. ASSUME NEW leader \in Nodes, NEW k \in 1 .. Len(chosen),
             NEW data \in Snapshots(k), Install(leader, k, data) PROVE ReadyOnce'
  <2>1. todo' = <<[act |-> "Install", index |-> k, data |-> data]>>
    BY <1>12, InstallDoes
  <2>2. \A i \in 1 .. Len(todo') : todo'[i].act = "Install"
    BY <2>1
  <2> QED  BY <2>2 DEF ReadyOnce
<1>13. CASE Elected
  BY <1>13, ReadyFrame DEF Elected, loop
<1>14. ASSUME NEW leader, StepDown(leader) PROVE ReadyOnce'
  BY <1>14, ReadyFrame DEF StepDown
<1>15. ASSUME NEW entry, ChosenElsewhere(entry) PROVE ReadyOnce'
  BY <1>15, ReadyFrame DEF ChosenElsewhere, loop
<1>16. CASE ApplyNext
  BY <1>16, ReadyFrame DEF ApplyNext, loop
<1>17. CASE UNCHANGED vars
  BY <1>17, ReadyFrame DEF vars, loop
<1> QED
  BY <1>3, <1>4, <1>5, <1>6, <1>7, <1>8, <1>9, <1>10, <1>11, <1>12, <1>13, <1>14, <1>15,
     <1>16, <1>17, FlatNext DEF Stepping

LEMMA AppendIn ==
    ASSUME NEW s \in Seq(Client), NEW c \in Client, Distinct(s), ~In(c, s)
    PROVE  Distinct(Append(s, c)) /\ \A d : In(d, Append(s, c)) => In(d, s) \/ d = c
<1> DEFINE t == Append(s, c)
<1>1. /\ Len(s) \in Nat /\ Len(t) = Len(s) + 1 /\ t[Len(s) + 1] = c
      /\ \A i \in 1 .. Len(s) : t[i] = s[i]
  OBVIOUS
<1>2. \A i \in 1 .. Len(t) : i \in 1 .. Len(s) \/ i = Len(s) + 1
  BY <1>1
<1> HIDE DEF t
<1>3. \A d : In(d, t) => In(d, s) \/ d = c
  BY <1>1, <1>2 DEF In
<1>4. ASSUME NEW i \in 1 .. Len(t), NEW j \in 1 .. Len(t), t[i] = t[j] PROVE i = j
  <2>1. \A k \in 1 .. Len(s) : t[k] # c
    BY <1>1 DEF In
  <2>2. CASE i \in 1 .. Len(s) /\ j \in 1 .. Len(s)
    BY <2>2, <1>1, <1>4 DEF Distinct
  <2>3. CASE i = Len(s) + 1 /\ j = Len(s) + 1
    BY <2>3
  <2>4. CASE i = Len(s) + 1 /\ j \in 1 .. Len(s)
    BY <2>1, <2>4, <1>1, <1>4
  <2>5. CASE i \in 1 .. Len(s) /\ j = Len(s) + 1
    BY <2>1, <2>5, <1>1, <1>4
  <2> QED  BY <2>2, <2>3, <2>4, <2>5, <1>2
<1> QED  BY <1>3, <1>4 DEF t, Distinct

LEMMA TailIn ==
    ASSUME NEW s \in Seq(Client), s # << >>, Distinct(s)
    PROVE  /\ Distinct(Tail(s)) /\ In(Head(s), s) /\ Head(s) \in Client
           /\ \A d : In(d, Tail(s)) => In(d, s) /\ d # Head(s)
<1> DEFINE t == Tail(s)
<1>1. /\ Len(s) \in Nat /\ Len(s) >= 1 /\ Len(t) = Len(s) - 1 /\ Head(s) = s[1] /\ Head(s) \in Client
      /\ \A i \in 1 .. Len(s) - 1 : t[i] = s[i + 1] /\ i + 1 \in 1 .. Len(s)
  BY SeqParts
<1>2. 1 \in 1 .. Len(s)
  BY <1>1
<1> HIDE DEF t
<1>3. ASSUME NEW i \in 1 .. Len(t), NEW j \in 1 .. Len(t), t[i] = t[j] PROVE i = j
  <2>1. i \in 1 .. Len(s) - 1 /\ j \in 1 .. Len(s) - 1
    BY <1>1
  <2>2. i + 1 = j + 1
    BY <2>1, <1>1, <1>3 DEF Distinct
  <2> QED  BY <2>1, <2>2, <1>1
<1>4. ASSUME NEW d, In(d, t) PROVE In(d, s) /\ d # Head(s)
  <2>1. PICK i \in 1 .. Len(t) : t[i] = d
    BY <1>4 DEF In
  <2>2. PICK m \in 1 .. Len(s) : m # 1 /\ s[m] = d
    <3>1. i \in 1 .. Len(s) - 1
      BY <1>1
    <3>2. i + 1 \in 1 .. Len(s) /\ i + 1 # 1 /\ s[i + 1] = d
      BY <3>1, <2>1, <1>1
    <3> QED  BY <3>2
  <2>3. s[m] # s[1]
    BY <2>2, <1>2 DEF Distinct
  <2> QED  BY <2>2, <2>3, <1>1 DEF In
<1>5. In(Head(s), s)
  BY <1>1, <1>2 DEF In
<1> QED  BY <1>1, <1>3, <1>4, <1>5 DEF t, Distinct

\* Where a request is after a step, from where it was.
LEMMA PlaceStays ==
    ASSUME IInv, NEW c \in Client, stage'[c] = stage[c], answer'[c] = answer[c],
           request'[c] = request[c],
           In(c, proposals') => In(c, proposals), In(c, reads') => In(c, reads),
           Pending(c)' => Pending(c), c \in pending_reads' => c \in pending_reads
    PROVE  Place(c)'
<1>1. Place(c)
  BY DEF IInv, ClientInv, Places
<1>2. Proposed(c)' <=> In(c, proposals')
  BY DEF Proposed
<1>3. Asked(c)' <=> In(c, reads')
  BY DEF Asked
<1>4. Proposed(c) <=> In(c, proposals)
  BY DEF Proposed
<1>5. Asked(c) <=> In(c, reads)
  BY DEF Asked
<1> QED  BY <1>1, <1>2, <1>3, <1>4, <1>5 DEF Place

LEMMA PlaceNone ==
    ASSUME NEW c \in Client, ~In(c, proposals'), ~In(c, reads'), ~Pending(c)', c \notin pending_reads'
    PROVE  Place(c)'
<1>1. ~Proposed(c)' /\ ~Asked(c)'
  BY DEF Proposed, Asked
<1> QED  BY <1>1 DEF Place

LEMMA PlacesFrame ==
    ASSUME IInv, UNCHANGED <<stage, answer, request, proposals, reads, pending_proposals, pending_reads>>
    PROVE  Places'
<1>1. Places
  BY DEF IInv, ClientInv
<1>2. ASSUME NEW c \in Client PROVE Place(c)'
  <2>1. Pending(c)' => Pending(c)
    BY DEF Pending
  <2> QED  BY <2>1, PlaceStays
<1> QED  BY <1>1, <1>2 DEF Places

\* A request that has not been made, or has its answer, is in no place.
LEMMA NoPlace ==
    ASSUME IInv, NEW c \in Client, stage[c] # "waiting" \/ answer[c] # None
    PROVE  ~In(c, proposals) /\ ~In(c, reads) /\ ~Pending(c) /\ c \notin pending_reads
  BY DEF IInv, ClientInv, Places, Place, Proposed, Asked

LEMMA SubmitPlaces ==
    ASSUME IInv, NEW c \in Client, NEW r \in Request, Submit(c, r)
    PROVE  Places'
<1>1. Places /\ HandlerTypes
  BY DEF IInv, ClientInv
<1>2. /\ request' = [request EXCEPT ![c] = r] /\ stage[c] = "new"
      /\ UNCHANGED <<answer, pending_proposals, pending_reads>>
      /\ stage' = [stage EXCEPT ![c] = "done"] \/ stage' = [stage EXCEPT ![c] = "waiting"]
      /\ \/ UNCHANGED <<proposals, reads>>
         \/ /\ stage' = [stage EXCEPT ![c] = "waiting"]
            /\ \/ r.op = "Get" /\ reads' = Append(reads, c) /\ proposals' = proposals
               \/ r.op # "Get" /\ proposals' = Append(proposals, c) /\ reads' = reads
  BY DEF Submit, loop
<1>3. ~In(c, proposals) /\ ~In(c, reads) /\ ~Pending(c) /\ c \notin pending_reads
  BY <1>2, NoPlace
<1>4. answer[c] = None
  BY <1>2 DEF IInv, ClientInv, Told
<1>5. \A d : Pending(d)' <=> Pending(d)
  BY <1>2 DEF Pending
<1>6. proposals \in Seq(Client) /\ reads \in Seq(Client) /\ Distinct(proposals) /\ Distinct(reads)
  BY <1>1 DEF Places, HandlerTypes
<1>7. \A d \in Client : d # c => stage'[d] = stage[d] /\ answer'[d] = answer[d] /\ request'[d] = request[d]
  BY <1>1, <1>2 DEF HandlerTypes
<1>8. CASE UNCHANGED <<proposals, reads>>
  <2>1. ASSUME NEW d \in Client PROVE Place(d)'
    <3>1. CASE d = c
      BY <3>1, <1>2, <1>3, <1>5, <1>8, PlaceNone
    <3>2. CASE d # c
      BY <3>2, <1>2, <1>5, <1>7, <1>8, PlaceStays
    <3> QED  BY <3>1, <3>2
  <2> QED  BY <2>1, <1>1, <1>2, <1>8 DEF Places
<1>9. ASSUME r.op = "Get", reads' = Append(reads, c), proposals' = proposals,
             stage' = [stage EXCEPT ![c] = "waiting"]
      PROVE  Places'
  <2>1. Distinct(reads') /\ \A d : In(d, reads') => In(d, reads) \/ d = c
    BY <1>3, <1>6, <1>9, AppendIn
  <2>2. ASSUME NEW d \in Client PROVE Place(d)'
    <3>1. CASE d = c
      <4>1. stage'[c] = "waiting" /\ answer'[c] = None /\ request'[c].op = "Get"
        BY <1>1, <1>2, <1>4, <1>9 DEF HandlerTypes
      <4>2. ~Proposed(c)' /\ ~Pending(c)' /\ c \notin pending_reads'
        BY <1>2, <1>3, <1>5, <1>9 DEF Proposed
      <4> QED  BY <4>1, <4>2, <3>1 DEF Place
    <3>2. CASE d # c
      BY <3>2, <2>1, <1>2, <1>5, <1>7, <1>9, PlaceStays
    <3> QED  BY <3>1, <3>2
  <2> QED  BY <2>1, <2>2, <1>1, <1>2, <1>9 DEF Places
<1>10. ASSUME r.op # "Get", proposals' = Append(proposals, c), reads' = reads,
              stage' = [stage EXCEPT ![c] = "waiting"]
       PROVE  Places'
  <2>1. Distinct(proposals') /\ \A d : In(d, proposals') => In(d, proposals) \/ d = c
    BY <1>3, <1>6, <1>10, AppendIn
  <2>2. ASSUME NEW d \in Client PROVE Place(d)'
    <3>1. CASE d = c
      <4>1. r \in KvCommand
        BY <1>10 DEF Request
      <4>2. stage'[c] = "waiting" /\ answer'[c] = None /\ request'[c] \in KvCommand
        BY <4>1, <1>1, <1>2, <1>4, <1>10 DEF HandlerTypes
      <4>3. ~Asked(c)' /\ ~Pending(c)' /\ c \notin pending_reads'
        BY <1>2, <1>3, <1>5, <1>10 DEF Asked
      <4> QED  BY <4>2, <4>3, <3>1 DEF Place
    <3>2. CASE d # c
      BY <3>2, <2>1, <1>2, <1>5, <1>7, <1>10, PlaceStays
    <3> QED  BY <3>1, <3>2
  <2> QED  BY <2>1, <2>2, <1>1, <1>2, <1>10 DEF Places
<1> QED  BY <1>2, <1>8, <1>9, <1>10

LEMMA TakePlaces ==
    ASSUME IInv, TakeProposal \/ TakeRead
    PROVE  Places'
<1>1. Places /\ HandlerTypes
  BY DEF IInv, ClientInv
<1>2. proposals \in Seq(Client) /\ reads \in Seq(Client) /\ Distinct(proposals) /\ Distinct(reads)
  BY <1>1 DEF Places, HandlerTypes
<1>3. CASE TakeProposal
  <2>0. Head(proposals) \in Client /\ proposals # << >>
    BY <1>2, <1>3, TailIn DEF TakeProposal
  <2> PICK c \in Client : c = Head(proposals)
    BY <2>0
  <2> DEFINE p == [index |-> Len(log) + 1, client |-> c]
  <2>1. /\ proposals # << >> /\ proposals' = Tail(proposals)
        /\ UNCHANGED <<request, stage, reads, pending_reads>>
        /\ \/ pending_proposals' = pending_proposals \cup {p} /\ answer' = answer
           \/ pending_proposals' = pending_proposals /\ answer' = [answer EXCEPT ![c] = FollowerNode]
    BY <1>3 DEF TakeProposal
  <2>2. /\ Distinct(proposals') /\ In(c, proposals) /\ c \in Client
        /\ \A d : In(d, proposals') => In(d, proposals) /\ d # c
    BY <2>1, <1>2, TailIn
  <2>3. p.client = c
    OBVIOUS
  <2> HIDE DEF p
  <2>4. Place(c) /\ Proposed(c)
    BY <2>2, <1>1 DEF Places, Proposed
  <2>5. ~In(c, reads) /\ ~Pending(c) /\ c \notin pending_reads /\ stage[c] = "waiting" /\ answer[c] = None
        /\ request[c] \in KvCommand
    BY <2>4 DEF Place, Asked
  <2>6. \A d : d # c => (Pending(d)' => Pending(d))
    BY <2>1, <2>3 DEF Pending
  <2>7. ASSUME NEW d \in Client, d # c PROVE Place(d)'
    <3>1. answer'[d] = answer[d]
      BY <2>1, <2>7, <1>1 DEF HandlerTypes
    <3> QED  BY <3>1, <2>1, <2>2, <2>6, <2>7, PlaceStays
  <2>8. CASE pending_proposals' = pending_proposals \cup {p} /\ answer' = answer
    <3>1. ~Proposed(c)' /\ ~Asked(c)' /\ c \notin pending_reads'
      BY <2>1, <2>2, <2>5 DEF Proposed, Asked
    <3>2. Place(c)'
      BY <3>1, <2>1, <2>5, <2>8 DEF Place
    <3>3. \A a, b \in pending_proposals' : a.client = b.client => a = b
      <4>1. \A a \in pending_proposals : a.client # c
        BY <2>5 DEF Pending
      <4>2. \A a, b \in pending_proposals : a.client = b.client => a = b
        BY <1>1 DEF Places
      <4> QED  BY <4>1, <4>2, <2>3, <2>8
    <3> QED  BY <3>2, <3>3, <2>1, <2>2, <2>7, <1>1 DEF Places
  <2>9. CASE pending_proposals' = pending_proposals /\ answer' = [answer EXCEPT ![c] = FollowerNode]
    <3>1. ~Pending(c)'
      BY <2>5, <2>9 DEF Pending
    <3>2. Place(c)'
      BY <3>1, <2>1, <2>2, <2>5, PlaceNone
    <3> QED  BY <3>2, <2>1, <2>2, <2>7, <2>9, <1>1 DEF Places
  <2> QED  BY <2>1, <2>8, <2>9
<1>4. CASE TakeRead
  <2>0. Head(reads) \in Client /\ reads # << >>
    BY <1>2, <1>4, TailIn DEF TakeRead
  <2> PICK c \in Client : c = Head(reads)
    BY <2>0
  <2>1. /\ reads # << >> /\ reads' = Tail(reads)
        /\ UNCHANGED <<request, stage, proposals, pending_proposals>>
        /\ \/ pending_reads' = pending_reads \cup {c} /\ answer' = answer
           \/ pending_reads' = pending_reads /\ answer' = [answer EXCEPT ![c] = FollowerNode]
    BY <1>4 DEF TakeRead
  <2>2. /\ Distinct(reads') /\ In(c, reads) /\ c \in Client
        /\ \A d : In(d, reads') => In(d, reads) /\ d # c
    BY <2>1, <1>2, TailIn
  <2>4. Place(c) /\ Asked(c)
    BY <2>2, <1>1 DEF Places, Asked
  <2>5. ~In(c, proposals) /\ ~Pending(c) /\ c \notin pending_reads /\ stage[c] = "waiting" /\ answer[c] = None
        /\ request[c].op = "Get"
    BY <2>4 DEF Place, Proposed
  <2>6. \A d : Pending(d)' <=> Pending(d)
    BY <2>1 DEF Pending
  <2>7. ASSUME NEW d \in Client, d # c PROVE Place(d)'
    <3>1. answer'[d] = answer[d] /\ (d \in pending_reads' => d \in pending_reads)
      BY <2>1, <2>7, <1>1 DEF HandlerTypes
    <3> QED  BY <3>1, <2>1, <2>2, <2>6, <2>7, PlaceStays
  <2>8. CASE pending_reads' = pending_reads \cup {c} /\ answer' = answer
    <3>1. ~Proposed(c)' /\ ~Asked(c)' /\ ~Pending(c)'
      BY <2>1, <2>2, <2>5, <2>6 DEF Proposed, Asked
    <3>2. Place(c)'
      BY <3>1, <2>1, <2>5, <2>8 DEF Place
    <3> QED  BY <3>2, <2>1, <2>2, <2>7, <1>1 DEF Places
  <2>9. CASE pending_reads' = pending_reads
    <3>1. Place(c)'
      BY <2>1, <2>2, <2>5, <2>6, <2>9, PlaceNone
    <3> QED  BY <3>1, <2>1, <2>2, <2>7, <1>1 DEF Places
  <2> QED  BY <2>1, <2>8, <2>9
<1> QED  BY <1>3, <1>4

LEMMA NextPlaces == IInv /\ [Next]_vars => Places'
<1> SUFFICES ASSUME IInv, [Next]_vars PROVE Places'
  OBVIOUS
<1>1. Places /\ HandlerTypes /\ Standing
  BY DEF IInv, ClientInv
<1>2. ASSUME NEW c \in Client, NEW r \in Request, Submit(c, r) PROVE Places'
  BY <1>2, SubmitPlaces
<1>3. ASSUME NEW c \in Client, Answered(c) \/ ReadStore(c) PROVE Places'
  <2>1. /\ UNCHANGED <<request, answer, proposals, reads, pending_proposals, pending_reads>>
        /\ stage' = [stage EXCEPT ![c] = "reading"] \/ stage' = [stage EXCEPT ![c] = "done"]
        /\ stage[c] # "waiting" \/ answer[c] # None \/ ~alive
    BY <1>3 DEF Answered, ReadStore, channels, loop
  <2>2. \A d : Pending(d)' <=> Pending(d)
    BY <2>1 DEF Pending
  <2>3. ~In(c, proposals) /\ ~In(c, reads) /\ ~Pending(c) /\ c \notin pending_reads
    <3>1. CASE stage[c] # "waiting" \/ answer[c] # None
      BY <3>1, NoPlace
    <3>2. CASE ~alive
      <4>1. /\ proposals = << >> /\ reads = << >> /\ pending_reads = {} /\ pending_proposals = {}
        BY <3>2, <1>1 DEF Standing
      <4>2. Len(<< >>) = 0 /\ 1 .. 0 = {}
        OBVIOUS
      <4> QED  BY <4>1, <4>2 DEF In, Pending
    <3> QED  BY <3>1, <3>2, <2>1
  <2>4. ASSUME NEW d \in Client PROVE Place(d)'
    <3>1. CASE d = c
      BY <3>1, <2>1, <2>2, <2>3, PlaceNone
    <3>2. CASE d # c
      <4>1. stage'[d] = stage[d]
        BY <3>2, <2>1, <1>1 DEF HandlerTypes
      <4> QED  BY <4>1, <2>1, <2>2, PlaceStays
    <3> QED  BY <3>1, <3>2
  <2> QED  BY <2>1, <2>4, <1>1 DEF Places
<1>4. CASE TakeProposal \/ TakeRead
  BY <1>4, TakePlaces
<1>5. CASE ApplyAnswer
  <2> DEFINE mine == {p \in pending_proposals : p.index = Head(todo).index}
  <2>1. /\ pending_proposals' = pending_proposals \ mine
        /\ answer' = [c \in Client |-> IF \E p \in mine : p.client = c THEN Ok ELSE answer[c]]
        /\ UNCHANGED <<request, stage, proposals, reads, pending_reads>>
    BY <1>5 DEF ApplyAnswer, channels
  <2>2. mine \subseteq pending_proposals
    OBVIOUS
  <2> HIDE DEF mine
  <2>3. ASSUME NEW d \in Client PROVE Place(d)'
    <3>1. Place(d)
      BY <1>1 DEF Places
    <3>2. CASE \E p \in mine : p.client = d
      <4>1. Pending(d)
        BY <3>2, <2>2 DEF Pending
      <4>2. ~In(d, proposals) /\ ~In(d, reads) /\ d \notin pending_reads
        BY <4>1, <3>1 DEF Place, Proposed, Asked
      <4>3. ~Pending(d)'
        BY <3>2, <2>1, <2>2, <1>1 DEF Pending, Places
      <4> QED  BY <4>2, <4>3, <2>1, PlaceNone
    <3>3. CASE ~\E p \in mine : p.client = d
      <4>1. answer'[d] = answer[d]
        BY <3>3, <2>1
      <4>2. Pending(d)' => Pending(d)
        BY <2>1 DEF Pending
      <4> QED  BY <4>1, <4>2, <2>1, PlaceStays
    <3> QED  BY <3>2, <3>3
  <2>4. \A p, q \in pending_proposals' : p.client = q.client => p = q
    BY <2>1, <1>1 DEF Places
  <2> QED  BY <2>1, <2>3, <2>4, <1>1 DEF Places
<1>6. CASE ApplySend \/ AskSnapshot \/ TakeSnapshot
  BY <1>6, PlacesFrame DEF ApplySend, AskSnapshot, TakeSnapshot, handlers
<1>7. CASE InstallSnapshot
  <2>1. UNCHANGED <<stage, answer, request, proposals, reads, pending_proposals, pending_reads>>
    BY <1>7, Zenon DEF InstallSnapshot, handlers
  <2> QED  BY <2>1, PlacesFrame
<1>8. CASE ReadBarrierReady
  <2>0. Head(todo).client \in Client /\ Head(todo).client \in pending_reads
    BY <1>8, HeadReady DEF ReadBarrierReady
  <2> PICK c \in Client : c = Head(todo).client
    BY <2>0
  <2>1. /\ pending_reads' = pending_reads \ {c} /\ answer' = [answer EXCEPT ![c] = Ok]
        /\ UNCHANGED <<request, stage, proposals, reads, pending_proposals>>
    BY <1>8 DEF ReadBarrierReady, channels
  <2>2. \A d : Pending(d)' <=> Pending(d)
    BY <2>1 DEF Pending
  <2>3. ASSUME NEW d \in Client PROVE Place(d)'
    <3>1. CASE d = c
      <4>1. Place(c)
        BY <1>1 DEF Places
      <4>2. ~In(c, proposals) /\ ~In(c, reads) /\ ~Pending(c)
        BY <4>1, <2>0 DEF Place, Proposed, Asked
      <4> QED  BY <4>2, <3>1, <2>1, <2>2, PlaceNone
    <3>2. CASE d # c
      <4>1. answer'[d] = answer[d]
        BY <3>2, <2>1, <1>1 DEF HandlerTypes
      <4> QED  BY <4>1, <2>1, <2>2, PlaceStays
    <3> QED  BY <3>1, <3>2
  <2> QED  BY <2>1, <2>3, <1>1 DEF Places
<1>9. CASE Drain
  <2>1. /\ answer' = [c \in Client |->
                    IF c \in pending_reads \/ \E p \in pending_proposals : p.client = c
                    THEN LostLeadership ELSE answer[c]]
        /\ pending_proposals' = {} /\ pending_reads' = {}
        /\ UNCHANGED <<request, stage, proposals, reads>>
    BY <1>9 DEF Drain, channels
  <2>2. ASSUME NEW d \in Client PROVE Place(d)'
    <3>1. Place(d)
      BY <1>1 DEF Places
    <3>2. ~Pending(d)' /\ d \notin pending_reads'
      BY <2>1 DEF Pending
    <3>3. CASE d \in pending_reads \/ Pending(d)
      <4>1. ~In(d, proposals) /\ ~In(d, reads)
        BY <3>1, <3>3 DEF Place, Proposed, Asked
      <4> QED  BY <4>1, <3>2, <2>1, PlaceNone
    <3>4. CASE ~(d \in pending_reads \/ Pending(d))
      <4>1. answer'[d] = answer[d]
        BY <3>4, <2>1 DEF Pending
      <4> QED  BY <4>1, <3>2, <2>1, PlaceStays
    <3> QED  BY <3>3, <3>4
  <2> QED  BY <2>1, <2>2, <1>1 DEF Places
<1>10. ASSUME NEW k, NEW R, Advance(k, R) PROVE Places'
  BY <1>10, PlacesFrame DEF Advance, handlers, channels
<1>11. ASSUME NEW leader, NEW n, NEW k, NEW data,
      Follow(leader, n, k) \/ Install(leader, k, data) PROVE Places'
  BY <1>11, PlacesFrame DEF Follow, Install, handlers, channels
<1>12. CASE Elected
  BY <1>12, PlacesFrame DEF Elected, handlers, channels, loop
<1>13. ASSUME NEW leader, StepDown(leader) PROVE Places'
  BY <1>13, PlacesFrame DEF StepDown, handlers, channels
<1>14. ASSUME NEW entry, ChosenElsewhere(entry) PROVE Places'
  BY <1>14, PlacesFrame DEF ChosenElsewhere, handlers, channels, loop
<1>15. CASE EventLoopPanics
  <2>1. pending_proposals' = {} /\ pending_reads' = {} /\ proposals' = << >> /\ reads' = << >>
    BY <1>15 DEF EventLoopPanics
  <2>2. Len(<< >>) = 0 /\ 1 .. 0 = {}
    OBVIOUS
  <2>3. Distinct(<< >>) /\ \A d : ~In(d, << >>)
    BY <2>2 DEF Distinct, In
  <2>4. ASSUME NEW d \in Client PROVE Place(d)'
    <3>1. ~Pending(d)'
      BY <2>1 DEF Pending
    <3> QED  BY <3>1, <2>1, <2>3, PlaceNone
  <2> QED  BY <2>1, <2>3, <2>4 DEF Places
<1>16. CASE ApplyNext
  BY <1>16, PlacesFrame DEF ApplyNext, handlers, loop
<1>17. CASE UNCHANGED vars
  BY <1>17, PlacesFrame DEF vars, handlers, channels, loop
<1> QED
  BY <1>2, <1>3, <1>4, <1>5, <1>6, <1>7, <1>8, <1>9, <1>10, <1>11, <1>12, <1>13, <1>14, <1>15,
     <1>16, <1>17, FlatNext DEF Stepping

\* What an answer says stays true while the handler does nothing.
LEMMA ToldStays ==
    ASSUME IInv, [Next]_vars, NEW c \in Client, Heard(c),
           stage'[c] = stage[c], answer'[c] = answer[c], request'[c] = request[c],
           response'[c] = response[c], floor'[c] = floor[c],
           In(c, proposals') => In(c, proposals), In(c, reads') => In(c, reads)
    PROVE  Told(c)'
<1>1. Told(c) /\ floor[c] \in Nat
  BY DEF IInv, ClientInv, HandlerTypes
<1>2. /\ handed \in Nat /\ last_applied \in Nat /\ handed' \in Nat /\ last_applied' \in Nat
      /\ handed <= handed' /\ last_applied <= last_applied'
  BY NextForward, NextLoop, BaseIs DEF LoopTypes
<1>3. /\ Proposed(c)' <=> In(c, proposals')
      /\ Asked(c)' <=> In(c, reads')
      /\ Proposed(c) <=> In(c, proposals)
      /\ Asked(c) <=> In(c, reads)
  BY DEF Proposed, Asked
<1>4. floor[c] <= last_applied'
  BY <1>1, <1>2 DEF Told
<1>5. answer[c] # None /\ answer[c] = Ok /\ request[c].op = "Get" => floor[c] <= handed'
  BY <1>1, <1>2 DEF Told
<1>6. /\ stage[c] = "new" \/ In(c, proposals') \/ In(c, reads') \/ (answer[c] # None /\ answer[c] \in Redirect) =>
            ~Occurs(c, log') /\ ~Occurs(c, chosen')
      /\ answer[c] # None /\ answer[c] = Ok /\ request[c].op # "Get" => Occurs(c, chosen')
  BY <1>1, <1>3 DEF Told, Heard
<1> QED  BY <1>1, <1>3, <1>4, <1>5, <1>6 DEF Told

\* The handler of a client takes a step: its answer stays.
LEMMA HandlerTold ==
    ASSUME IInv, [Next]_vars, NEW c \in Client, Answered(c) \/ ReadStore(c)
    PROVE  \A d \in Client : Told(d)'
<1>1. HandlerTypes /\ Told(c)
  BY DEF IInv, ClientInv
<1>2. /\ UNCHANGED <<request, answer, floor, proposals, reads, log, chosen, handed, last_applied>>
      /\ stage' = [stage EXCEPT ![c] = "reading"] \/ stage' = [stage EXCEPT ![c] = "done"]
      /\ response' = response \/ \E v : response' = [response EXCEPT ![c] = v]
      /\ stage[c] \in {"waiting", "reading"}
  BY DEF Answered, ReadStore, channels, raft
<1>3. \A d \in Client : Heard(d)
  BY <1>2, HeardFrame
<1>4. ASSUME NEW d \in Client, d # c PROVE Told(d)'
  <2>1. stage'[d] = stage[d] /\ response'[d] = response[d]
    BY <1>1, <1>2, <1>4 DEF HandlerTypes
  <2> QED  BY <2>1, <1>2, <1>3, ToldStays
<1>5. ASSUME stage'[c] = "done", response'[c].status = "307"
      PROVE  /\ answer[c] # None /\ answer[c] \in Redirect
             /\ answer[c].leader # None /\ http_addrs(answer[c].leader) # None
             /\ response'[c].location = http_addrs(answer[c].leader)
  <2>1. c \in DOMAIN response /\ c \in DOMAIN stage /\ answer[c] \in Answer \cup {None}
    BY <1>1 DEF HandlerTypes
  <2>2. ~ReadStore(c)
    <3> SUFFICES ASSUME ReadStore(c) PROVE FALSE
      OBVIOUS
    <3>1. response'[c] = [status |-> "value", value |-> store[request[c].key]]
      BY <2>1 DEF ReadStore
    <3> QED  BY <3>1, <1>5
  <2>3. stage'[c] # "reading"
    BY <1>5
  <2>4. response'[c] # Aborted
    BY <1>5 DEF Aborted
  <2> DEFINE a == answer[c]
  <2>5. a # None /\ response'[c] = IF a.ok THEN [status |-> "200"] ELSE map_proposal_error(a)
    <3>1. Answered(c)
      BY <2>2
    <3>2. \/ stage' = [stage EXCEPT ![c] = "reading"]
          \/ /\ a # None
             /\ response' = [response EXCEPT ![c] =
                               IF a.ok THEN [status |-> "200"] ELSE map_proposal_error(a)]
          \/ response' = [response EXCEPT ![c] = Aborted]
      BY <3>1 DEF Answered
    <3> QED  BY <3>2, <2>1, <2>3, <2>4
  <2>6. a \in Answer
    BY <2>1, <2>5
  <2> HIDE DEF a
  <2>7. a \in Redirect
    <3>1. CASE a = Ok
      <4>1. response'[c] = [status |-> "200"]
        BY <3>1, <2>5, AnswersAre
      <4> QED  BY <4>1, <1>5
    <3>2. CASE a = LostLeadership
      <4>1. response'[c] = map_proposal_error(a) /\ a.error = "LostLeadership"
        BY <3>2, <2>5, AnswersAre
      <4>2. map_proposal_error(a) = [status |-> "503"]
        BY <4>1 DEF map_proposal_error
      <4> QED  BY <4>1, <4>2, <1>5
    <3> QED  BY <3>1, <3>2, <2>6 DEF Answer
  <2>8. response'[c] = map_proposal_error(a) /\ a.error = "FollowerNode"
    BY <2>5, <2>7, AnswersAre
  <2>9. a.leader # None /\ http_addrs(a.leader) # None
    <3> SUFFICES ASSUME a.leader = None \/ http_addrs(a.leader) = None PROVE FALSE
      OBVIOUS
    <3>1. map_proposal_error(a) = [status |-> "503"]
      BY <2>8 DEF map_proposal_error
    <3> QED  BY <3>1, <2>8, <1>5
  <2>10. map_proposal_error(a) = [status |-> "307", location |-> http_addrs(a.leader)]
    BY <2>8, <2>9 DEF map_proposal_error
  <2>11. response'[c].location = http_addrs(a.leader)
    BY <2>8, <2>10
  <2> QED  BY <2>5, <2>7, <2>9, <2>11 DEF a
<1>6. Told(c)'
  <2>1. stage'[c] # "new" /\ stage[c] # "new"
    BY <1>1, <1>2 DEF HandlerTypes
  <2>2. /\ Proposed(c)' <=> Proposed(c)
        /\ Asked(c)' <=> Asked(c)
    BY <1>2 DEF Proposed, Asked
  <2> QED  BY <2>1, <2>2, <1>1, <1>2, <1>5 DEF Told
<1> QED  BY <1>4, <1>6

LEMMA SubmitTold ==
    ASSUME IInv, [Next]_vars, NEW c \in Client, NEW r \in Request, Submit(c, r)
    PROVE  \A d \in Client : Told(d)'
<1>1. HandlerTypes /\ Told(c) /\ Standing
  BY DEF IInv, ClientInv
<1>2. /\ stage[c] = "new" /\ request' = [request EXCEPT ![c] = r]
      /\ floor' = [floor EXCEPT ![c] = acked]
      /\ UNCHANGED <<answer, log, chosen, handed, last_applied>>
      /\ \/ response' = [response EXCEPT ![c] = Aborted] /\ stage' = [stage EXCEPT ![c] = "done"]
         \/ response' = response /\ stage' = [stage EXCEPT ![c] = "waiting"]
      /\ reads' = reads \/ reads' = Append(reads, c)
      /\ proposals' = proposals \/ proposals' = Append(proposals, c)
  BY DEF Submit, raft
<1>3. \A d \in Client : Heard(d)
  BY <1>2, HeardFrame
<1>4. ASSUME NEW d \in Client, d # c PROVE Told(d)'
  <2>1. /\ stage'[d] = stage[d] /\ response'[d] = response[d] /\ request'[d] = request[d]
        /\ floor'[d] = floor[d]
    BY <1>1, <1>2, <1>4 DEF HandlerTypes
  <2>2. /\ ~In(c, proposals) /\ ~In(c, reads) /\ proposals \in Seq(Client) /\ reads \in Seq(Client)
        /\ Distinct(proposals) /\ Distinct(reads)
    BY <1>1, <1>2, NoPlace DEF HandlerTypes, IInv, ClientInv, Places
  <2>3. In(d, proposals') => In(d, proposals)
    BY <1>2, <1>4, <2>2, AppendIn
  <2>4. In(d, reads') => In(d, reads)
    BY <1>2, <1>4, <2>2, AppendIn
  <2> QED  BY <2>1, <2>3, <2>4, <1>2, <1>3, ToldStays
<1>5. Told(c)'
  <2>1. answer[c] = None /\ ~Occurs(c, log) /\ ~Occurs(c, chosen)
    BY <1>1, <1>2 DEF Told
  <2>2. floor'[c] = acked /\ acked <= last_applied
    BY <1>1, <1>2 DEF HandlerTypes, Standing
  <2>3. ~(stage'[c] = "done" /\ response'[c].status = "307")
    <3>1. CASE response' = [response EXCEPT ![c] = Aborted]
      <4>1. response'[c] = Aborted
        BY <3>1, <1>1 DEF HandlerTypes
      <4> QED  BY <4>1 DEF Aborted
    <3>2. CASE stage' = [stage EXCEPT ![c] = "waiting"]
      BY <3>2, <1>1 DEF HandlerTypes
    <3> QED  BY <3>1, <3>2, <1>2
  <2> QED  BY <2>1, <2>2, <2>3, <1>2 DEF Told
<1> QED  BY <1>4, <1>5

LEMMA TakeTold ==
    ASSUME IInv, [Next]_vars, TakeProposal \/ TakeRead
    PROVE  \A d \in Client : Told(d)'
<1>1. /\ HandlerTypes /\ Standing /\ current_leader \in Nodes \cup {None}
      /\ proposals \in Seq(Client) /\ reads \in Seq(Client) /\ Distinct(proposals) /\ Distinct(reads)
  BY DEF IInv, ClientInv, LoopTypes, HandlerTypes, Places
\* A request is refused.
<1>2. ASSUME NEW c \in Client, Told(c), Proposed(c) \/ Asked(c), stage[c] = "waiting",
             answer' = [answer EXCEPT ![c] = FollowerNode], role # "Leader",
             UNCHANGED <<request, stage, response, floor, log, chosen, handed, last_applied>>
      PROVE  Told(c)'
  <2>1. ~Occurs(c, log) /\ ~Occurs(c, chosen)
    BY <1>2 DEF Told
  <2>2. answer'[c] = FollowerNode
    BY <1>1, <1>2 DEF HandlerTypes
  <2>3. FollowerNode \in Redirect /\ FollowerNode.leader = current_leader
    BY <1>1, AnswersAre
  <2>4. FollowerNode # Ok /\ FollowerNode.leader # node_id
    BY <2>3, <1>1, <1>2, AnswersAre DEF Standing
  <2> QED  BY <2>1, <2>2, <2>3, <2>4, <1>2 DEF Told
<1>3. CASE TakeProposal
  <2>1. proposals # << >> /\ Head(proposals) \in Client
    BY <1>1, <1>3, TailIn DEF TakeProposal
  <2> PICK c \in Client : c = Head(proposals)
    BY <2>1
  <2>2. /\ proposals' = Tail(proposals)
        /\ UNCHANGED <<request, stage, response, floor, reads, chosen, handed, last_applied>>
        /\ \/ answer' = answer /\ log' = Append(log, EntryOf(c))
           \/ role # "Leader" /\ answer' = [answer EXCEPT ![c] = FollowerNode] /\ log' = log
    BY <1>3 DEF TakeProposal
  <2>3. In(c, proposals) /\ \A d : In(d, proposals') => In(d, proposals) /\ d # c
    BY <2>1, <2>2, <1>1, TailIn
  <2>4. Place(c) /\ Told(c) /\ Proposed(c)
    BY <2>3 DEF IInv, ClientInv, Places, Proposed
  <2>5. stage[c] = "waiting" /\ answer[c] = None /\ ~In(c, reads)
    BY <2>4 DEF Place, Asked
  <2>6. ASSUME NEW d \in Client, d # c PROVE Told(d)'
    <3>1. Heard(d)
      <4>1. CASE log' = log
        BY <4>1, <2>2, HeardFrame
      <4>2. CASE log' = Append(log, EntryOf(c))
        <5>1. log \in Seq(Entry) /\ Len(log) \in Nat
          BY DEF IInv, LoopTypes
        <5>2. /\ Len(log') = Len(log) + 1 /\ log'[Len(log) + 1] = EntryOf(c)
              /\ \A i \in 1 .. Len(log) : log'[i] = log[i]
          BY <5>1, <4>2
        <5>3. \A i \in 1 .. Len(log') : i \in 1 .. Len(log) \/ i = Len(log) + 1
          BY <5>1, <5>2
        <5>4. EntryOf(c).client = c
          BY DEF EntryOf
        <5>5. Occurs(d, log') => Occurs(d, log)
          BY <5>2, <5>3, <5>4, <2>6 DEF Occurs
        <5> QED  BY <5>5, <2>2 DEF Heard
      <4> QED  BY <4>1, <4>2, <2>2
    <3>2. answer'[d] = answer[d]
      BY <2>2, <2>6, <1>1 DEF HandlerTypes
    <3> QED  BY <3>1, <3>2, <2>2, <2>3, ToldStays
  <2>7. CASE answer' = answer
    <3>1. ~Proposed(c)' /\ ~Asked(c)'
      BY <2>2, <2>3, <2>5 DEF Proposed, Asked
    <3>2. Told(c)'
      BY <3>1, <2>2, <2>4, <2>5, <2>7 DEF Told
    <3> QED  BY <3>2, <2>6
  <2>8. CASE role # "Leader" /\ answer' = [answer EXCEPT ![c] = FollowerNode] /\ log' = log
    <3>1. Told(c)'
      BY <2>2, <2>4, <2>5, <2>8, <1>2
    <3> QED  BY <3>1, <2>6
  <2> QED  BY <2>2, <2>7, <2>8
<1>4. CASE TakeRead
  <2>1. reads # << >> /\ Head(reads) \in Client
    BY <1>1, <1>4, TailIn DEF TakeRead
  <2> PICK c \in Client : c = Head(reads)
    BY <2>1
  <2>2. /\ reads' = Tail(reads)
        /\ UNCHANGED <<request, stage, response, floor, proposals, log, chosen, handed, last_applied>>
        /\ answer' = answer \/ (role # "Leader" /\ answer' = [answer EXCEPT ![c] = FollowerNode])
    BY <1>4 DEF TakeRead, raft
  <2>3. In(c, reads) /\ \A d : In(d, reads') => In(d, reads) /\ d # c
    BY <2>1, <2>2, <1>1, TailIn
  <2>4. Place(c) /\ Told(c) /\ Asked(c)
    BY <2>3 DEF IInv, ClientInv, Places, Asked
  <2>5. stage[c] = "waiting" /\ answer[c] = None
    BY <2>4 DEF Place
  <2>6. \A d \in Client : Heard(d)
    BY <2>2, HeardFrame
  <2>7. ASSUME NEW d \in Client, d # c \/ answer' = answer PROVE Told(d)'
    <3>1. answer'[d] = answer[d]
      BY <2>2, <2>7, <1>1 DEF HandlerTypes
    <3> QED  BY <3>1, <2>2, <2>3, <2>6, ToldStays
  <2>8. CASE answer' = answer
    BY <2>7, <2>8
  <2>9. CASE role # "Leader" /\ answer' = [answer EXCEPT ![c] = FollowerNode]
    <3>1. Told(c)'
      BY <2>2, <2>4, <2>5, <2>9, <1>2
    <3> QED  BY <3>1, <2>7
  <2> QED  BY <2>2, <2>8, <2>9
<1> QED  BY <1>3, <1>4

LEMMA AnswerTold ==
    ASSUME IInv, [Next]_vars, ApplyAnswer \/ ReadBarrierReady \/ Drain
    PROVE  \A d \in Client : Told(d)'
<1>1. /\ HandlerTypes /\ Standing
      /\ \A d \in Client : Place(d) /\ Told(d)
  BY DEF IInv, ClientInv, Places
<1>2. UNCHANGED <<request, stage, response, floor, proposals, reads, log, chosen, last_applied>>
  BY DEF ApplyAnswer, ReadBarrierReady, Drain, channels, raft
<1>3. \A d \in Client : Heard(d)
  BY <1>2, HeardFrame
<1>4. ASSUME NEW d \in Client, answer'[d] = answer[d] PROVE Told(d)'
  BY <1>2, <1>3, <1>4, ToldStays
\* A request that waits is answered.
<1>5. ASSUME NEW d \in Client, Pending(d) \/ d \in pending_reads,
             answer'[d] \in {Ok, LostLeadership},
             answer'[d] = Ok => \/ request[d].op # "Get" /\ Occurs(d, chosen)
                                \/ request[d].op = "Get" /\ floor[d] <= handed'
      PROVE  Told(d)'
  <2>1. Place(d) /\ Told(d)
    BY <1>1
  <2>2. stage[d] = "waiting" /\ ~Proposed(d) /\ ~Asked(d)
    BY <2>1, <1>5 DEF Place
  <2>3. ~Proposed(d)' /\ ~Asked(d)'
    BY <2>2, <1>2 DEF Proposed, Asked
  <2>4. answer'[d] \notin Redirect
    BY <1>5, AnswersAre
  <2>5. floor[d] <= last_applied
    BY <2>1 DEF Told
  <2> QED  BY <2>2, <2>3, <2>4, <2>5, <1>2, <1>5 DEF Told
<1>6. CASE ApplyAnswer
  <2> DEFINE index == Head(todo).index
             mine == {p \in pending_proposals : p.index = index}
  <2>1. /\ At("Apply", "start")
        /\ answer' = [c \in Client |-> IF \E p \in mine : p.client = c THEN Ok ELSE answer[c]]
    BY <1>6 DEF ApplyAnswer
  <2>2. index = Base + 1 /\ Base + 1 \in 1 .. last_applied /\ Base + 1 \in 1 .. Len(chosen) /\ alive
    BY <2>1, HeadApply DEF At
  <2>3. index \in 1 .. Len(chosen) /\ log[index] = chosen[index]
    BY <2>2 DEF IInv, FlowInv, Agrees
  <2> HIDE DEF index
  <2>4. ASSUME NEW d \in Client, NEW p \in mine, p.client = d PROVE Told(d)'
    <3>1. p \in pending_proposals /\ p.index = index
      OBVIOUS
    <3>2. Pending(d) /\ log[index].client = d
      BY <3>1, <2>4, <1>1 DEF Pending, Standing
    <3>3. Occurs(d, chosen)
      BY <3>2, <2>3 DEF Occurs
    <3>4. request[d].op # "Get"
      <4>1. request[d] \in KvCommand
        BY <3>2, <1>1 DEF Place
      <4> QED  BY <4>1 DEF KvCommand
    <3>5. answer'[d] = Ok
      BY <2>1, <2>4
    <3> QED  BY <3>2, <3>3, <3>4, <3>5, <1>5
  <2> HIDE DEF mine
  <2>5. ASSUME NEW d \in Client, ~\E p \in mine : p.client = d PROVE Told(d)'
    BY <2>1, <2>5, <1>4
  <2> QED  BY <2>4, <2>5
<1>7. CASE ReadBarrierReady
  <2> DEFINE c == Head(todo).client
  <2>1. /\ At("Ready", "start") /\ answer' = [answer EXCEPT ![c] = Ok] /\ handed' = handed
    BY <1>7 DEF ReadBarrierReady
  <2>2. c \in Client /\ c \in pending_reads /\ handed = last_applied
    BY <2>1, HeadReady
  <2> HIDE DEF c
  <2>3. ASSUME NEW d \in Client, d = c PROVE Told(d)'
    <3>1. request[d].op = "Get"
      BY <2>2, <2>3, <1>1 DEF Place
    <3>2. floor[d] <= handed'
      BY <2>1, <2>2, <1>1 DEF Told
    <3>3. answer'[d] = Ok
      BY <2>1, <2>3, <1>1 DEF HandlerTypes
    <3> QED  BY <3>1, <3>2, <3>3, <2>2, <2>3, <1>5
  <2>4. ASSUME NEW d \in Client, d # c PROVE Told(d)'
    BY <2>1, <2>4, <1>1, <1>4 DEF HandlerTypes
  <2> QED  BY <2>3, <2>4
<1>8. CASE Drain
  <2>1. answer' = [c \in Client |->
                    IF c \in pending_reads \/ \E p \in pending_proposals : p.client = c
                    THEN LostLeadership ELSE answer[c]]
    BY <1>8 DEF Drain
  <2>2. ASSUME NEW d \in Client, d \in pending_reads \/ Pending(d) PROVE Told(d)'
    <3>1. answer'[d] = LostLeadership /\ LostLeadership # Ok
      BY <2>1, <2>2, AnswersAre DEF Pending
    <3> QED  BY <3>1, <2>2, <1>5
  <2>3. ASSUME NEW d \in Client, ~(d \in pending_reads \/ Pending(d)) PROVE Told(d)'
    <3>1. answer'[d] = answer[d]
      BY <2>1, <2>3 DEF Pending
    <3> QED  BY <3>1, <1>4
  <2> QED  BY <2>2, <2>3
<1> QED  BY <1>6, <1>7, <1>8

LEMMA NextTold == IInv /\ [Next]_vars => \A c \in Client : Told(c)'
<1> SUFFICES ASSUME IInv, [Next]_vars PROVE \A c \in Client : Told(c)'
  OBVIOUS
<1>1. ASSUME UNCHANGED <<request, stage, answer, response, floor>>, ~TakeProposal,
             proposals' = proposals \/ proposals' = << >>, reads' = reads \/ reads' = << >>
      PROVE  \A c \in Client : Told(c)'
  <2> SUFFICES ASSUME NEW c \in Client PROVE Told(c)'
    OBVIOUS
  <2>1. Len(<< >>) = 0 /\ 1 .. 0 = {}
    OBVIOUS
  <2>2. ~In(c, << >>)
    BY <2>1 DEF In
  <2>3. (In(c, proposals') => In(c, proposals)) /\ (In(c, reads') => In(c, reads))
    BY <2>2, <1>1
  <2>4. Heard(c)
    BY <1>1, NextHeard
  <2> QED  BY <2>3, <2>4, <1>1, ToldStays
<1>2. CASE TakeProposal \/ TakeRead
  BY <1>2, TakeTold
<1>3. ASSUME ~TakeProposal, NEW c \in Client, NEW r \in Request, Submit(c, r)
      PROVE  \A d \in Client : Told(d)'
  BY <1>3, SubmitTold
<1>4. ASSUME NEW c \in Client, Answered(c) \/ ReadStore(c) PROVE \A d \in Client : Told(d)'
  BY <1>4, HandlerTold
<1>5. CASE ApplyAnswer \/ ReadBarrierReady \/ Drain
  BY <1>5, AnswerTold
<1>6. ASSUME ~TakeProposal, ApplySend \/ AskSnapshot \/ TakeSnapshot
      PROVE  \A c \in Client : Told(c)'
  BY <1>6, <1>1 DEF ApplySend, AskSnapshot, TakeSnapshot, handlers
<1>7. ASSUME ~TakeProposal, InstallSnapshot PROVE \A c \in Client : Told(c)'
  <2>1. UNCHANGED <<request, stage, answer, response, floor, proposals, reads>>
    BY <1>7, Zenon DEF InstallSnapshot, handlers
  <2> QED  BY <2>1, <1>1, <1>7
<1>8. ASSUME ~TakeProposal, NEW k, NEW R, Advance(k, R) PROVE \A c \in Client : Told(c)'
  BY <1>8, <1>1 DEF Advance, handlers, channels
<1>9. ASSUME ~TakeProposal, NEW leader, NEW n, NEW k, NEW data,
      Follow(leader, n, k) \/ Install(leader, k, data)
      PROVE  \A c \in Client : Told(c)'
  BY <1>9, <1>1 DEF Follow, Install, handlers, channels
<1>10. ASSUME ~TakeProposal, Elected PROVE \A c \in Client : Told(c)'
  BY <1>10, <1>1 DEF Elected, handlers, channels
<1>11. ASSUME ~TakeProposal, NEW leader, StepDown(leader) PROVE \A c \in Client : Told(c)'
  BY <1>11, <1>1 DEF StepDown, handlers, channels
<1>12. ASSUME ~TakeProposal, NEW entry, ChosenElsewhere(entry) PROVE \A c \in Client : Told(c)'
  BY <1>12, <1>1 DEF ChosenElsewhere, handlers, channels
<1>13. ASSUME ~TakeProposal, EventLoopPanics PROVE \A c \in Client : Told(c)'
  BY <1>13, <1>1 DEF EventLoopPanics, handlers
<1>14. ASSUME ~TakeProposal, ApplyNext PROVE \A c \in Client : Told(c)'
  BY <1>14, <1>1 DEF ApplyNext, handlers
<1>15. ASSUME ~TakeProposal, UNCHANGED vars PROVE \A c \in Client : Told(c)'
  BY <1>15, <1>1 DEF vars, handlers, channels
<1> QED
  BY <1>2, <1>3, <1>4, <1>5, <1>6, <1>7, <1>8, <1>9, <1>10, <1>11, <1>12, <1>13, <1>14,
     <1>15, FlatNext DEF Stepping

-----------------------------------------------------------------------------
(***************************************************************************)
(* The invariant.                                                          *)
(***************************************************************************)
LEMMA InitIInv == Init => IInv
<1> SUFFICES ASSUME Init PROVE IInv
  OBVIOUS
<1>1. HandlerTypes /\ LoopTypes /\ ChannelTypes
  BY InitTypes
<1>2. Len(<< >>) = 0 /\ 1 .. 0 = {} /\ Cardinality(Client) \in Nat
  BY ConstantsOK, FS_CardinalityType
<1>3. FlowInv
  <2>1. /\ todo = << >> /\ step = "start" /\ handed = 0 /\ last_applied = 0 /\ chosen = << >>
        /\ log = << >> /\ role = "Follower" /\ alive /\ ~drain
    BY DEF Init
  <2>2. Base = 0
    BY <2>1 DEF Base
  <2>3. Agrees
    BY <2>1, <1>2 DEF Agrees
  <2>4. Applying
    BY <2>1, <2>2, <1>2 DEF Applying
  <2> QED  BY <2>1, <2>3, <2>4, <1>2 DEF FlowInv
<1>4. ClientInv
  <2>1. /\ todo = << >> /\ proposals = << >> /\ reads = << >> /\ pending_proposals = {}
        /\ pending_reads = {} /\ log = << >> /\ chosen = << >> /\ acked = 0 /\ last_applied = 0
        /\ role = "Follower" /\ current_leader = None /\ alive
        /\ \A c \in Client : stage[c] = "new" /\ answer[c] = None /\ floor[c] = 0
    BY DEF Init
  <2>2. /\ Distinct(<< >>) /\ \A c : ~In(c, << >>) /\ ~Occurs(c, << >>)
    BY <1>2 DEF Distinct, In, Occurs
  <2>3. Places
    BY <2>1, <2>2 DEF Places, Place, Proposed, Asked, Pending
  <2>4. ReadyOnce
    BY <2>1, <1>2 DEF ReadyOnce
  <2>5. Standing
    BY <2>1, NodeIdIs DEF Standing
  <2>6. ASSUME NEW c \in Client PROVE Told(c)
    BY <2>1, <2>2 DEF Told
  <2> QED  BY <2>3, <2>4, <2>5, <2>6 DEF ClientInv
<1>5. ChannelInv
  <2>1. /\ applied = << >> /\ store = Empty /\ stored = 0 /\ handed = 0 /\ chosen = << >>
        /\ reply = None /\ snapshot = None
    BY DEF Init
  <2>2. Play(Empty, << >>) = Empty
    BY PlayNothing, EmptyType
  <2>3. Upto(installed, << >>, 0) = Empty
    <3>1. installed \in SnapshotBase /\ installed.index = 0 /\ installed.data = Empty
      BY EmptyType DEF Init, SnapshotBase
    <3> QED  BY <3>1, UptoStart
  <2>4. installed.index <= 0
    BY DEF Init
  <2> QED  BY <2>1, <2>2, <2>3, <2>4, <1>2 DEF ChannelInv, SnapshotKept
<1>6. InOrder
  <2>1. applied = << >> /\ stored = 0 /\ handed = 0 /\ 0 + 1 .. 0 = {}
    BY DEF Init
  <2> QED  BY <2>1, <1>2 DEF InOrder, NoneMissing
<1> QED  BY <1>1, <1>3, <1>4, <1>5, <1>6 DEF IInv

LEMMA NextIInv == IInv /\ [Next]_vars => IInv'
<1>1. IInv /\ [Next]_vars => ClientInv'
  BY NextPlaces, NextReady, NextStanding, NextTold DEF ClientInv
<1> QED  BY <1>1, NextHandler, NextLoop, NextChannelTypes, NextFlow, NextChannel, NextInOrder DEF IInv

LEMMA Invariance == Spec => []IInv
  BY InitIInv, NextIInv, PTL DEF Spec
-----------------------------------------------------------------------------
(***************************************************************************)
(* The theorems.                                                           *)
(***************************************************************************)
LEMMA NothingToDo ==
    ASSUME IInv, todo = << >>
    PROVE  step = "start"
<1>1. alive \in BOOLEAN /\ (~alive => step = "start") /\ (alive => Installing \/ Applying)
  BY DEF IInv, LoopTypes, FlowInv
<1>2. ~Installing
  <2>1. \A data : <<[act |-> "Install", index |-> last_applied, data |-> data]>> # << >>
    OBVIOUS
  <2> QED  BY <2>1 DEF Installing
<1>3. Applying => step = "start"
  <2>1. Len(todo) = 0
    OBVIOUS
  <2>2. Applying => last_applied - Base <= 0 /\ (step # "start" => Base < last_applied)
    BY <2>1 DEF Applying
  <2> QED  BY <2>2, BaseIs
<1> QED  BY <1>1, <1>2, <1>3

\* Requests, channels, the event loop's pending work, the node's role and the
\* three indices (applied to the map, handed to the apply task, reported by
\* raft) keep their types and bounds in every reachable state of raft-kv.
THEOREM TypeCorrectness == Spec => []TypeOK
<1>1. IInv => TypeOK
  <2> SUFFICES ASSUME IInv PROVE TypeOK
    OBVIOUS
  <2>1. HandlerTypes /\ LoopTypes /\ ChannelTypes /\ FlowInv
    BY DEF IInv
  <2>2. /\ proposals \in Seq(Client) /\ Len(proposals) <= CHANNEL_BUFFER
        /\ reads \in Seq(Client) /\ Len(reads) <= CHANNEL_BUFFER
    BY <2>1 DEF HandlerTypes
  <2>3. \A q \in {proposals, reads} : q \in Seq(Client) /\ Len(q) <= CHANNEL_BUFFER
    BY <2>2, Zenon
  <2>4. /\ request \in [Client -> Request \cup {None}]
        /\ stage \in [Client -> {"new", "waiting", "reading", "done"}]
    BY <2>1 DEF HandlerTypes
  <2>5. Len(applied) <= CHANNEL_BUFFER /\ reply \in Map \cup {None} /\ store \in Map
    BY <2>1 DEF ChannelTypes
  <2>6. /\ step \in {"start", "send", "ask", "await"}
        /\ num_entries \in 0 .. SnapshotThreshold
        /\ pending_proposals \subseteq [index : 1 .. Len(log), client : Client]
        /\ pending_reads \subseteq Client
        /\ role \in {"Follower", "Leader"} /\ current_leader \in Nodes \cup {None}
    BY <2>1 DEF LoopTypes
  <2>7. /\ Len(todo) <= Len(log) + Cardinality(Client)
        /\ handed <= last_applied /\ last_applied <= Len(chosen)
    BY <2>1 DEF FlowInv, Agrees
  <2>8. stored <= handed
    BY DEF IInv, ChannelInv
  <2>9. todo = << >> => step = "start"
    BY NothingToDo
  <2> QED  BY <2>3, <2>4, <2>5, <2>6, <2>7, <2>8, <2>9 DEF TypeOK
<1> QED  BY <1>1, Invariance, PTL

\* The apply task loses, repeats and reorders nothing: the map, once the
\* entries and snapshots still in its channel are worked off, is what the last
\* snapshot of another leader held (nothing at first) and the chosen log from
\* its index up to what the event loop has handed over, whatever such
\* snapshots hold, the length of the log, the size of the channel and the
\* snapshot threshold.
THEOREM NothingIsSkipped == Spec => []NothingSkipped
<1>1. IInv => NothingSkipped
  <2>1. IInv => Play(store, applied) = Upto(installed, chosen, handed)
    BY DEF IInv, ChannelInv
  <2> QED  BY <2>1, SinceIs DEF NothingSkipped, Play
<1> QED  BY <1>1, Invariance, PTL

\* The data that the event loop takes as a snapshot is, since the last snapshot
\* of another leader, the state of the log at exactly the last index handed
\* over: nothing is applied between the request and the reply.
THEOREM SnapshotsAreExact == Spec => []SnapshotHoldsHanded
<1>1. IInv => SnapshotHoldsHanded
  <2>1. IInv => (snapshot # None => snapshot.data = Upto(installed, chosen, snapshot.upto))
    BY DEF IInv, ChannelInv, SnapshotKept
  <2> QED  BY <2>1, SinceIs DEF SnapshotHoldsHanded
<1> QED  BY <1>1, Invariance, PTL

\* The apply task carries out the commands of the chosen log, each once and in
\* their order, with only Noops left out; a snapshot of another leader replaces
\* the map only at an index beyond all that was carried out.
THEOREM MapIsInOrder == Spec => MapFollowsLog
<1> DEFINE Follows ==
              /\ stored' > stored
              /\ Head(applied).type = "Command" =>
                    /\ store' = Effect(store, chosen[stored'].command)
                    /\ \A i \in stored + 1 .. stored' - 1 : chosen[i] = Noop
<1>1. IInv /\ [Next]_vars => [Follows]_<<store, stored>>
  <2> SUFFICES ASSUME IInv, [Next]_vars, ~UNCHANGED <<store, stored>> PROVE Follows
    OBVIOUS
  <2>1. ApplyNext
    BY OnlyApplyNext
  <2> DEFINE item == Head(applied)
  <2>2. /\ applied # << >> /\ store' = Replay(store, item)
        /\ stored' = IF item.type = "SnapshotRequest" THEN stored ELSE item.index
    BY <2>1 DEF ApplyNext
  <2>3. applied \in Seq(Item) /\ store \in Map /\ stored \in Nat
    BY DEF IInv, ChannelTypes
  <2>4. item \in Item /\ item = applied[1] /\ 1 \in 1 .. Len(applied)
    BY <2>2, <2>3, SeqParts
  <2>5. item.type # "SnapshotRequest"
    BY <2>2, <2>3, <2>4, ReplayIs
  <2>6. stored' > stored
    <3>1. stored < stored'
      BY <2>1, <2>5, ChannelTake
    <3>2. stored' \in Nat
      BY NextChannelTypes DEF ChannelTypes
    <3> QED  BY <3>1, <3>2, <2>3
  <2>7. ASSUME item.type = "Command"
        PROVE  /\ store' = Effect(store, chosen[stored'].command)
               /\ \A i \in stored + 1 .. stored' - 1 : chosen[i] = Noop
    <3>1. /\ item.command = chosen[item.index].command
          /\ NoneMissing(stored, item.index - 1, chosen, applied, 1 - 1)
      BY <2>4, <2>7, CommandIs
    <3>2. store' = Effect(store, item.command) /\ stored' = item.index
      BY <2>2, <2>3, <2>4, <2>5, <2>7, ReplayIs
    <3>3. 1 .. 1 - 1 = {}
      OBVIOUS
    <3> QED  BY <3>1, <3>2, <3>3 DEF NoneMissing
  <2> QED  BY <2>6, <2>7
<1> QED  BY <1>1, Invariance, PTL DEF Spec, MapFollowsLog

\* A released read finds every command that this process acknowledged before
\* the read was made already handed to the apply task.
THEOREM ReadsComeLate == Spec => []ReadsAfterHandover
<1>1. IInv => ReadsAfterHandover
  <2> SUFFICES ASSUME IInv, NEW c \in Client, answer[c] = Ok, request[c].op = "Get"
               PROVE  floor[c] <= handed
    BY DEF ReadsAfterHandover
  <2>1. Told(c)
    BY DEF IInv, ClientInv
  <2>2. answer[c] # None
    BY AnswersAre
  <2> QED  BY <2>1, <2>2 DEF Told
<1> QED  BY <1>1, Invariance, PTL

\* What the event loop tells a handler is so: an acknowledged set or delete is
\* in the chosen log, and a command refused with FollowerNode is in no log of
\* this node and not chosen.
THEOREM AnswersHold == Spec => []AnswersAreTrue
<1>1. IInv => AnswersAreTrue
  <2> SUFFICES ASSUME IInv, NEW c \in Client, answer[c] # None
               PROVE  /\ answer[c].ok /\ request[c].op # "Get" => Occurs(c, chosen)
                      /\ ~answer[c].ok /\ answer[c].error = "FollowerNode" =>
                            ~Occurs(c, chosen) /\ ~Occurs(c, log)
    BY Zenon DEF AnswersAreTrue, Occurs
  <2>1. Told(c)
    BY DEF IInv, ClientInv
  <2>2. answer[c] \in Answer
    BY DEF IInv, HandlerTypes
  <2>3. answer[c] = Ok \/ answer[c] = LostLeadership \/ answer[c] \in Redirect
    BY <2>2 DEF Answer
  <2>4. answer[c].ok => answer[c] = Ok
    BY <2>3, AnswersAre
  <2>5. ~answer[c].ok /\ answer[c].error = "FollowerNode" => answer[c] \in Redirect
    <3>1. LostLeadership.error # "FollowerNode"
      BY AnswersAre
    <3> QED  BY <2>3, <3>1, AnswersAre
  <2> QED  BY <2>1, <2>4, <2>5 DEF Told
<1> QED  BY <1>1, Invariance, PTL

\* A redirect names the pod whose id, derived from its hostname, is the
\* leader's, and never this pod: the addresses that build_config assigns and
\* the ids that pods derive agree for every cluster size.
THEOREM RedirectsAreRight == Spec => []RedirectsToLeader
<1>1. IInv => RedirectsToLeader
  <2> SUFFICES ASSUME IInv, NEW c \in Client, stage[c] = "done", response[c].status = "307"
               PROVE  /\ id_from_hostname(response[c].location) = answer[c].leader
                      /\ response[c].location # Pod
    BY DEF RedirectsToLeader
  <2>1. Told(c)
    BY DEF IInv, ClientInv
  <2>2. /\ answer[c] \in Redirect /\ answer[c].leader # None /\ answer[c].leader # node_id
        /\ response[c].location = http_addrs(answer[c].leader)
    BY <2>1 DEF Told
  <2> DEFINE leader == answer[c].leader
  <2> HIDE DEF leader
  <2>3. leader \in Nodes /\ leader # node_id /\ response[c].location = http_addrs(leader)
    BY <2>2, AnswersAre DEF leader
  <2>4. leader \in Nat /\ leader >= 1 /\ leader <= N
    BY <2>3, NodesAre
  <2>5. http_addrs(leader) = leader - 1
    BY <2>3 DEF http_addrs
  <2>6. leader - 1 \in Int /\ leader - 1 # None /\ ~((leader - 1) + 1 > MaxNodeId) /\ (leader - 1) + 1 = leader
    BY <2>4, ConstantsOK
  <2>7. id_from_hostname(leader - 1) = leader
    BY <2>6 DEF id_from_hostname
  <2>8. leader - 1 # Pod
    BY <2>3, <2>4, NodeIdIs, ConstantsOK
  <2> QED  BY <2>3, <2>5, <2>7, <2>8 DEF leader
<1> QED  BY <1>1, Invariance, PTL


=============================================================================
