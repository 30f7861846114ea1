--------------------------- MODULE Storage_proofs ---------------------------
(***************************************************************************)
(* Theorems about Storage, for every set of entries and every bound: the   *)
(* words of the log file keep their kinds, store_log_entries leaves the    *)
(* frames it should at every moment, metadata and snapshot are read back   *)
(* whole, and the tests' double agrees with the files.                     *)
(***************************************************************************)
EXTENDS Storage, FiniteSetTheorems, SequenceTheorems, WellFoundedInduction, TLAPS

-----------------------------------------------------------------------------
(***************************************************************************)
(* Arithmetic of frames: word i is word r of frame k + 1.                  *)
(***************************************************************************)
LEMMA ConstantsOK ==
    /\ MaxIndex \in Nat /\ MaxFrames \in Nat /\ MaxCrashes \in Nat
    /\ None \notin Entry /\ None \notin Seq(Word)
    /\ \A value \in Entry : None # Serialized(value)
  BY StorageAssumption

LEMMA Divide ==
    ASSUME NEW i \in Nat
    PROVE  /\ i \div 3 \in Nat /\ i % 3 \in 0 .. 2
           /\ i = 3 * (i \div 3) + (i % 3)
  OBVIOUS

LEMMA Place ==
    ASSUME NEW k \in Nat, NEW r \in 1 .. 3
    PROVE  /\ (3 * k + r - 1) \div 3 = k
           /\ ((3 * k + r - 1) % 3) + 1 = r
           /\ 3 * k + r \in Nat
  OBVIOUS

LEMMA EveryPlace ==
    ASSUME NEW i \in Nat \ {0}
    PROVE  \E k \in Nat, r \in 1 .. 3 : i = 3 * k + r
<1>1. i - 1 \in Nat
  OBVIOUS
<1>2. PICK q \in Nat, m \in 0 .. 2 : i - 1 = 3 * q + m
  BY <1>1, Divide
<1>3. i = 3 * q + (m + 1) /\ m + 1 \in 1 .. 3
  BY <1>2
<1> QED  BY <1>3

LEMMA LeastNat ==
    ASSUME NEW S, S \subseteq Nat, S # {}
    PROVE  \E x \in S : \A y \in S : x <= y
<1>1. \E x \in S : \A y \in S : ~ (<<y, x>> \in OpToRel(<, Nat))
  BY NatLessThanWellFounded, WFMin, Zenon
<1>2. PICK x \in S : \A y \in S : ~ (<<y, x>> \in OpToRel(<, Nat))
  BY <1>1
<1>3. ASSUME NEW y \in S PROVE x <= y
  <2>1. <<y, x>> \in Nat \X Nat /\ <<y, x>>[1] = y /\ <<y, x>>[2] = x
    OBVIOUS
  <2>2. ~ (y < x)
    BY <1>2, <2>1, Zenon DEF OpToRel
  <2> QED  BY <2>2
<1> QED  BY <1>3

LEMMA MinIs ==
    ASSUME NEW S, S \subseteq Nat, NEW x \in S, \A y \in S : x <= y
    PROVE  Min(S) = x
<1>1. Min(S) \in S /\ \A y \in S : Min(S) <= y
  BY DEF Min
<1>2. Min(S) \in Nat /\ x \in Nat /\ Min(S) <= x /\ x <= Min(S)
  BY <1>1
<1> QED  BY <1>2

-----------------------------------------------------------------------------
(***************************************************************************)
(* The words of a log file.                                                *)
(***************************************************************************)
IndexWord == [word : {"index"}, index : Nat]
LengthWord == [word : {"length"}]
EntryWord == [word : {"entry"}, entry : Entry]

\* What word r of a frame may be.
Kind(r) == IF r = 1 THEN IndexWord ELSE IF r = 2 THEN LengthWord ELSE EntryWord

\* The words of a file: each is of the kind its place asks for, but for a
\* torn one at the end.
LogWords(words) ==
    /\ words \in Seq(Word)
    /\ \A k \in Nat, r \in 1 .. 3 :
          3 * k + r \in 1 .. Len(words) =>
             \/ words[3 * k + r] \in Kind(r)
             \/ words[3 * k + r] = Torn /\ 3 * k + r = Len(words)

\* No word is torn.
Clean(words) == \A i \in 1 .. Len(words) : words[i] # Torn

Frame == [index : Nat, entry : Entry]

\* The words of a sequence of frames.
WordsOf(frames) ==
    [i \in 1 .. 3 * Len(frames) |->
        LET k == (i - 1) \div 3
        IN  FrameWords(frames[k + 1].index, frames[k + 1].entry)[i - 3 * k]]

LEMMA KindIs ==
    ASSUME NEW r \in 1 .. 3, NEW w \in Kind(r)
    PROVE  /\ w \in Word /\ w # Torn
           /\ w.word = <<"index", "length", "entry">>[r]
<1>1. CASE r = 1
  BY <1>1 DEF Kind, IndexWord, Word, Torn
<1>2. CASE r = 2
  BY <1>2 DEF Kind, LengthWord, Word, Torn
<1>3. CASE r = 3
  BY <1>3 DEF Kind, EntryWord, Word, Torn
<1> QED  BY <1>1, <1>2, <1>3

LEMMA LogWordsWellFormed ==
    ASSUME NEW words, LogWords(words)
    PROVE  WellFormed(words)
<1>1. words \in Seq(Word) /\ Len(words) \in Nat
  BY DEF LogWords
<1>2. SUFFICES ASSUME NEW i \in 1 .. Len(words)
               PROVE  \/ words[i].word = <<"index", "length", "entry">>[((i - 1) % 3) + 1]
                      \/ words[i] = Torn /\ i = Len(words)
  BY DEF WellFormed
<1>3. i \in Nat \ {0}
  BY <1>1
<1>4. PICK k \in Nat, r \in 1 .. 3 : i = 3 * k + r
  BY <1>3, EveryPlace
<1>5. ((i - 1) % 3) + 1 = r
  BY <1>4, Place
<1>6. words[i] \in Kind(r) \/ (words[i] = Torn /\ i = Len(words))
  BY <1>4 DEF LogWords
<1>7. CASE words[i] \in Kind(r)
  BY <1>7, <1>5, KindIs
<1> QED  BY <1>6, <1>7

\* How many frames of a file are whole: all its words before the last frame
\* boundary count, but for a torn one.
LEMMA WholeFramesAre ==
    ASSUME NEW words, LogWords(words)
    PROVE  \E K \in Nat :
              /\ WholeFrames(words) = 1 .. K /\ Cardinality(WholeFrames(words)) = K
              /\ 3 * K <= Len(words) /\ Len(words) <= 3 * K + 3
              /\ Clean(words) => Len(words) < 3 * K + 3
              /\ \A i \in 1 .. 3 * K : words[i] # Torn
<1> DEFINE L == Len(words)
<1>1. words \in Seq(Word) /\ L \in Nat
  BY DEF LogWords
<1>2. ASSUME NEW i \in 1 .. L, words[i] = Torn
      PROVE  i = L
  <2>1. i \in Nat \ {0}
    BY <1>1
  <2>2. PICK k \in Nat, r \in 1 .. 3 : i = 3 * k + r
    BY <2>1, EveryPlace
  <2>3. words[i] \notin Kind(r)
    BY <1>2, KindIs
  <2> QED  BY <2>2, <2>3 DEF LogWords
<1>3. ASSUME NEW K \in Nat, 3 * K <= L, L <= 3 * K + 3,
             \A i \in 1 .. 3 * K : words[i] # Torn,
             L < 3 * K + 3 \/ words[L] = Torn
      PROVE  WholeFrames(words) = 1 .. K
  <2>1. ASSUME NEW k \in 1 .. K
        PROVE  k \in WholeFrames(words)
    <3>1. 3 * k <= L /\ k \in Nat /\ k <= K
      BY <1>3, <1>1
    <3>2. k <= L \div 3
      BY <3>1, <1>1
    <3>3. \A i \in 1 .. 3 * k : words[i] # Torn
      BY <3>1, <1>3
    <3> QED  BY <3>1, <3>2, <3>3, <1>1 DEF WholeFrames
  <2>2. ASSUME NEW k \in WholeFrames(words)
        PROVE  k \in 1 .. K
    <3>1. k \in 1 .. L \div 3 /\ \A i \in 1 .. 3 * k : words[i] # Torn
      BY <2>2 DEF WholeFrames
    <3>2. k \in Nat /\ k >= 1 /\ 3 * k <= L
      BY <3>1, <1>1
    <3>3. k <= K \/ (k = K + 1 /\ L = 3 * K + 3 /\ L = 3 * k)
      BY <3>2, <1>1, <1>3
    <3>4. ~(k = K + 1 /\ L = 3 * K + 3 /\ L = 3 * k)
      <4>1. L = 3 * k => L \in 1 .. 3 * k
        BY <3>2, <1>1
      <4> QED  BY <4>1, <3>1, <1>3, <1>1
    <3> QED  BY <3>2, <3>3, <3>4
  <2> QED  BY <2>1, <2>2
<1>4. \E K \in Nat : /\ 3 * K <= L /\ L <= 3 * K + 3
                     /\ \A i \in 1 .. 3 * K : words[i] # Torn
                     /\ L < 3 * K + 3 \/ words[L] = Torn
  <2>1. CASE L > 0 /\ words[L] = Torn
    <3>1. L - 1 \in Nat
      BY <2>1, <1>1
    <3>2. PICK K \in Nat, m \in 0 .. 2 : L - 1 = 3 * K + m
      BY <3>1, Divide
    <3>3. 3 * K <= L /\ L <= 3 * K + 3 /\ 3 * K < L
      BY <3>2, <1>1
    <3>4. \A i \in 1 .. 3 * K : words[i] # Torn
      BY <3>3, <1>1, <1>2
    <3> QED  BY <3>3, <3>4, <2>1
  <2>2. CASE ~(L > 0 /\ words[L] = Torn)
    <3>1. PICK K \in Nat, m \in 0 .. 2 : L = 3 * K + m
      BY <1>1, Divide
    <3>2. 3 * K <= L /\ L < 3 * K + 3 /\ L <= 3 * K + 3
      BY <3>1, <1>1
    <3>3. \A i \in 1 .. 3 * K : words[i] # Torn
      BY <3>2, <1>1, <1>2, <2>2
    <3> QED  BY <3>2, <3>3
  <2> QED  BY <2>1, <2>2
<1>5. PICK K \in Nat : /\ 3 * K <= L /\ L <= 3 * K + 3
                       /\ \A i \in 1 .. 3 * K : words[i] # Torn
                       /\ L < 3 * K + 3 \/ words[L] = Torn
  BY <1>4
<1>6. WholeFrames(words) = 1 .. K
  BY <1>3, <1>5
<1>7. Cardinality(1 .. K) = K
  BY FS_Interval
<1>8. Clean(words) => L < 3 * K + 3
  <2>1. L = 3 * K + 3 => L \in 1 .. L
    BY <1>1, <1>5
  <2> QED  BY <1>5, <2>1, <1>1 DEF Clean
<1> QED  BY <1>5, <1>6, <1>7, <1>8

\* What a start reads: the frames that are whole.
LEMMA FramesAre ==
    ASSUME NEW words, LogWords(words)
    PROVE  /\ Frames(words) \in Seq(Frame)
           /\ 3 * Len(Frames(words)) <= Len(words)
           /\ Len(words) <= 3 * Len(Frames(words)) + 3
           /\ Clean(words) => Len(words) < 3 * Len(Frames(words)) + 3
           /\ Len(Frames(words)) = Cardinality(WholeFrames(words))
           /\ \A k \in Nat :
                 k + 1 <= Len(Frames(words)) =>
                    \A r \in 1 .. 3 :
                       words[3 * k + r] =
                          FrameWords(Frames(words)[k + 1].index, Frames(words)[k + 1].entry)[r]
<1>1. words \in Seq(Word) /\ Len(words) \in Nat
  BY DEF LogWords
<1>2. PICK K \in Nat :
         /\ Cardinality(WholeFrames(words)) = K
         /\ 3 * K <= Len(words) /\ Len(words) <= 3 * K + 3
         /\ Clean(words) => Len(words) < 3 * K + 3
         /\ \A i \in 1 .. 3 * K : words[i] # Torn
  BY WholeFramesAre, Zenon
<1>3. Frames(words) = [k \in 1 .. K |->
                         [index |-> words[3 * k - 2].index, entry |-> words[3 * k].entry]]
  BY <1>2 DEF Frames
<1>4. ASSUME NEW k \in Nat, k + 1 <= K, NEW r \in 1 .. 3
      PROVE  words[3 * k + r] \in Kind(r)
  <2>1. 3 * k + r \in 1 .. 3 * K /\ 3 * k + r \in 1 .. Len(words)
    BY <1>4, <1>2, <1>1
  <2>2. words[3 * k + r] # Torn
    BY <2>1, <1>2
  <2> QED  BY <2>1, <2>2 DEF LogWords
<1>5. ASSUME NEW k \in Nat, k + 1 <= K
      PROVE  /\ Frames(words)[k + 1] \in Frame
             /\ words[3 * k + 1] = [word |-> "index", index |-> Frames(words)[k + 1].index]
             /\ words[3 * k + 2] = [word |-> "length"]
             /\ words[3 * k + 3] = [word |-> "entry", entry |-> Frames(words)[k + 1].entry]
  <2>1. /\ words[3 * k + 1] \in IndexWord /\ words[3 * k + 2] \in LengthWord
        /\ words[3 * k + 3] \in EntryWord
    BY <1>5, <1>4 DEF Kind
  <2>2. k + 1 \in 1 .. K /\ 3 * (k + 1) - 2 = 3 * k + 1 /\ 3 * (k + 1) = 3 * k + 3
    BY <1>5
  <2>3. Frames(words)[k + 1] = [index |-> words[3 * k + 1].index, entry |-> words[3 * k + 3].entry]
    BY <1>3, <2>2
  <2>4. words[3 * k + 1].index \in Nat /\ words[3 * k + 3].entry \in Entry
    BY <2>1 DEF IndexWord, EntryWord
  <2>5. /\ words[3 * k + 1] = [word |-> "index", index |-> words[3 * k + 1].index]
        /\ words[3 * k + 2] = [word |-> "length"]
        /\ words[3 * k + 3] = [word |-> "entry", entry |-> words[3 * k + 3].entry]
    BY <2>1 DEF IndexWord, LengthWord, EntryWord
  <2> QED  BY <2>3, <2>4, <2>5 DEF Frame
<1>6. ASSUME NEW j \in 1 .. K
      PROVE  Frames(words)[j] \in Frame
  <2>1. j - 1 \in Nat /\ (j - 1) + 1 = j /\ j <= K
    OBVIOUS
  <2> QED  BY <2>1, <1>5
<1>7. Frames(words) \in Seq(Frame) /\ Len(Frames(words)) = K
  <2>1. Frames(words) \in [1 .. K -> Frame]
    BY <1>3, <1>6
  <2> QED  BY <2>1
<1>8. ASSUME NEW k \in Nat, k + 1 <= K, NEW r \in 1 .. 3
      PROVE  words[3 * k + r] =
                FrameWords(Frames(words)[k + 1].index, Frames(words)[k + 1].entry)[r]
  <2>1. CASE r = 1
    BY <2>1, <1>5, <1>8 DEF FrameWords
  <2>2. CASE r = 2
    BY <2>2, <1>5, <1>8 DEF FrameWords
  <2>3. CASE r = 3
    BY <2>3, <1>5, <1>8 DEF FrameWords
  <2> QED  BY <2>1, <2>2, <2>3
<1> QED  BY <1>2, <1>7, <1>8

-----------------------------------------------------------------------------
(***************************************************************************)
(* The words of frames.                                                    *)
(***************************************************************************)
LEMMA WordsOfAt ==
    ASSUME NEW F \in Seq(Frame), NEW k \in Nat, k + 1 <= Len(F), NEW r \in 1 .. 3
    PROVE  /\ 3 * k + r \in 1 .. 3 * Len(F)
           /\ WordsOf(F)[3 * k + r] = FrameWords(F[k + 1].index, F[k + 1].entry)[r]
           /\ WordsOf(F)[3 * k + r] \in Kind(r)
<1>1. Len(F) \in Nat /\ F[k + 1] \in Frame
  OBVIOUS
<1>2. 3 * k + r \in 1 .. 3 * Len(F)
  BY <1>1
<1>3. (3 * k + r - 1) \div 3 = k /\ 3 * k + r - 3 * k = r
  BY Place
<1>4. WordsOf(F)[3 * k + r] = FrameWords(F[k + 1].index, F[k + 1].entry)[r]
  BY <1>2, <1>3 DEF WordsOf
<1>5. F[k + 1].index \in Nat /\ F[k + 1].entry \in Entry
  BY <1>1 DEF Frame
<1>6. ASSUME NEW index \in Nat, NEW entry \in Entry
      PROVE  FrameWords(index, entry)[r] \in Kind(r)
  <2>1. CASE r = 1
    BY <2>1 DEF FrameWords, Kind, IndexWord
  <2>2. CASE r = 2
    BY <2>2 DEF FrameWords, Kind, LengthWord
  <2>3. CASE r = 3
    BY <2>3 DEF FrameWords, Kind, EntryWord
  <2> QED  BY <2>1, <2>2, <2>3
<1> QED  BY <1>2, <1>4, <1>5, <1>6

LEMMA WordsOfType ==
    ASSUME NEW F \in Seq(Frame)
    PROVE  /\ WordsOf(F) \in Seq(Word) /\ Len(WordsOf(F)) = 3 * Len(F)
           /\ LogWords(WordsOf(F)) /\ Clean(WordsOf(F))
<1>1. Len(F) \in Nat /\ 3 * Len(F) \in Nat
  OBVIOUS
<1>2. DOMAIN WordsOf(F) = 1 .. 3 * Len(F) /\ WordsOf(F) = [i \in 1 .. 3 * Len(F) |-> WordsOf(F)[i]]
  BY DEF WordsOf
<1>3. ASSUME NEW i \in 1 .. 3 * Len(F)
      PROVE  WordsOf(F)[i] \in Word /\ WordsOf(F)[i] # Torn
  <2>1. i \in Nat \ {0}
    BY <1>1
  <2>2. PICK k \in Nat, r \in 1 .. 3 : i = 3 * k + r
    BY <2>1, EveryPlace
  <2>3. k + 1 <= Len(F)
    BY <2>2, <1>1
  <2>4. WordsOf(F)[i] \in Kind(r)
    BY <2>2, <2>3, WordsOfAt
  <2> QED  BY <2>4, KindIs
<1>4. WordsOf(F) \in [1 .. 3 * Len(F) -> Word]
  BY <1>2, <1>3
<1>5. WordsOf(F) \in Seq(Word) /\ Len(WordsOf(F)) = 3 * Len(F)
  BY <1>4, <1>1
<1>6. ASSUME NEW k \in Nat, NEW r \in 1 .. 3, 3 * k + r \in 1 .. Len(WordsOf(F))
      PROVE  WordsOf(F)[3 * k + r] \in Kind(r)
  <2>1. k + 1 <= Len(F)
    BY <1>6, <1>5, <1>1
  <2> QED  BY <2>1, WordsOfAt
<1>7. LogWords(WordsOf(F))
  BY <1>5, <1>6 DEF LogWords
<1>8. Clean(WordsOf(F))
  BY <1>3, <1>5 DEF Clean
<1> QED  BY <1>5, <1>7, <1>8

LEMMA WordsOfConcat ==
    ASSUME NEW F \in Seq(Frame), NEW G \in Seq(Frame)
    PROVE  WordsOf(F \o G) = WordsOf(F) \o WordsOf(G)
<1>1. F \o G \in Seq(Frame) /\ Len(F) \in Nat /\ Len(G) \in Nat /\ Len(F \o G) = Len(F) + Len(G)
  OBVIOUS
<1>2. /\ WordsOf(F) \in Seq(Word) /\ Len(WordsOf(F)) = 3 * Len(F)
      /\ WordsOf(G) \in Seq(Word) /\ Len(WordsOf(G)) = 3 * Len(G)
      /\ WordsOf(F \o G) \in Seq(Word) /\ Len(WordsOf(F \o G)) = 3 * (Len(F) + Len(G))
  BY <1>1, WordsOfType
<1>3. ASSUME NEW i \in 1 .. 3 * (Len(F) + Len(G))
      PROVE  WordsOf(F \o G)[i] = (WordsOf(F) \o WordsOf(G))[i]
  <2>1. i \in Nat \ {0}
    BY <1>1
  <2>2. PICK k \in Nat, r \in 1 .. 3 : i = 3 * k + r
    BY <2>1, EveryPlace
  <2>3. k + 1 <= Len(F \o G)
    BY <2>2, <1>1
  <2>4. WordsOf(F \o G)[i] = FrameWords((F \o G)[k + 1].index, (F \o G)[k + 1].entry)[r]
    BY <2>2, <2>3, <1>1, WordsOfAt
  <2>5. CASE k + 1 <= Len(F)
    <3>1. (F \o G)[k + 1] = F[k + 1]
      BY <2>5, <1>1
    <3>2. i <= 3 * Len(F)
      BY <2>5, <2>2, <1>1
    <3>3. (WordsOf(F) \o WordsOf(G))[i] = WordsOf(F)[i]
      BY <3>2, <1>2, <1>1, <2>1
    <3>4. WordsOf(F)[i] = FrameWords(F[k + 1].index, F[k + 1].entry)[r]
      BY <2>5, <2>2, WordsOfAt
    <3> QED  BY <2>4, <3>1, <3>3, <3>4
  <2>6. CASE ~(k + 1 <= Len(F))
    <3>1. PICK j \in Nat : k = Len(F) + j
      <4>1. k - Len(F) \in Nat /\ k = Len(F) + (k - Len(F))
        BY <2>6, <1>1
      <4> QED  BY <4>1
    <3>2. j + 1 <= Len(G)
      BY <3>1, <2>3, <1>1
    <3>3. (F \o G)[k + 1] = G[j + 1]
      <4>1. k + 1 > Len(F) /\ k + 1 <= Len(F) + Len(G) /\ (k + 1) - Len(F) = j + 1
        BY <3>1, <3>2, <1>1
      <4> QED  BY <4>1
    <3>4. i = 3 * Len(F) + (3 * j + r) /\ i > 3 * Len(F) /\ i - 3 * Len(F) = 3 * j + r
      BY <3>1, <2>2, <1>1
    <3>5. (WordsOf(F) \o WordsOf(G))[i] = WordsOf(G)[3 * j + r]
      <4>1. i \in 1 .. Len(WordsOf(F)) + Len(WordsOf(G)) /\ ~(i <= Len(WordsOf(F)))
        BY <3>4, <1>2, <1>1, <2>1
      <4>2. (WordsOf(F) \o WordsOf(G))[i] = WordsOf(G)[i - Len(WordsOf(F))]
        BY <4>1, <1>2, ConcatProperties
      <4> QED  BY <4>2, <3>4, <1>2
    <3>6. WordsOf(G)[3 * j + r] = FrameWords(G[j + 1].index, G[j + 1].entry)[r]
      BY <3>2, WordsOfAt
    <3> QED  BY <2>4, <3>3, <3>5, <3>6
  <2> QED  BY <2>5, <2>6
<1>4. /\ WordsOf(F) \o WordsOf(G) \in Seq(Word)
      /\ Len(WordsOf(F) \o WordsOf(G)) = 3 * (Len(F) + Len(G))
  <2>1. Len(WordsOf(F)) + Len(WordsOf(G)) = 3 * (Len(F) + Len(G))
    BY <1>2, <1>1
  <2>2. /\ WordsOf(F) \o WordsOf(G) \in Seq(Word)
        /\ Len(WordsOf(F) \o WordsOf(G)) = Len(WordsOf(F)) + Len(WordsOf(G))
    BY <1>2, ConcatProperties
  <2> QED  BY <2>1, <2>2
<1>5. ASSUME NEW s \in Seq(Word), NEW t \in Seq(Word), NEW n \in Nat,
             Len(s) = n, Len(t) = n, \A i \in 1 .. n : s[i] = t[i]
      PROVE  s = t
  BY <1>5, SeqEqual
<1>6. 3 * (Len(F) + Len(G)) \in Nat
  BY <1>1
<1> QED  BY <1>2, <1>3, <1>4, <1>5, <1>6

LEMMA SubSeqOf ==
    ASSUME NEW T, NEW s \in Seq(T), NEW n \in 0 .. Len(s)
    PROVE  /\ SubSeq(s, 1, n) \in Seq(T) /\ Len(SubSeq(s, 1, n)) = n
           /\ \A i \in 1 .. n : SubSeq(s, 1, n)[i] = s[i]
  OBVIOUS

LEMMA LogWordsPrefix ==
    ASSUME NEW words, LogWords(words), NEW n \in 0 .. Len(words)
    PROVE  /\ LogWords(SubSeq(words, 1, n)) /\ Len(SubSeq(words, 1, n)) = n
           /\ Clean(words) => Clean(SubSeq(words, 1, n))
<1> DEFINE p == SubSeq(words, 1, n)
<1>1. words \in Seq(Word) /\ Len(words) \in Nat
  BY DEF LogWords
<1>2. p \in Seq(Word) /\ Len(p) = n /\ \A i \in 1 .. n : p[i] = words[i]
  BY <1>1, SubSeqOf
<1> HIDE DEF p
<1>3. ASSUME NEW k \in Nat, NEW r \in 1 .. 3, 3 * k + r \in 1 .. Len(p)
      PROVE  \/ p[3 * k + r] \in Kind(r)
             \/ p[3 * k + r] = Torn /\ 3 * k + r = Len(p)
  <2>1. 3 * k + r \in 1 .. Len(words) /\ p[3 * k + r] = words[3 * k + r] /\ 3 * k + r <= n
    BY <1>3, <1>2, <1>1
  <2>2. \/ words[3 * k + r] \in Kind(r)
        \/ words[3 * k + r] = Torn /\ 3 * k + r = Len(words)
    BY <2>1 DEF LogWords
  <2>3. 3 * k + r = Len(words) => 3 * k + r = n
    BY <2>1, <1>1
  <2> QED  BY <2>1, <2>2, <2>3, <1>2
<1>4. LogWords(p)
  BY <1>2, <1>3 DEF LogWords
<1>5. Clean(words) => Clean(p)
  BY <1>1, <1>2 DEF Clean
<1> QED  BY <1>2, <1>4, <1>5 DEF p

\* A write that a crash has cut short.
LEMMA LogWordsTorn ==
    ASSUME NEW words, LogWords(words), Clean(words)
    PROVE  LogWords(Append(words, Torn))
<1> DEFINE q == Append(words, Torn)
<1>1. words \in Seq(Word) /\ Len(words) \in Nat /\ Torn \in Word
  BY DEF LogWords, Word
<1>2. /\ q \in Seq(Word) /\ Len(q) = Len(words) + 1 /\ q[Len(words) + 1] = Torn
      /\ \A i \in 1 .. Len(words) : q[i] = words[i]
  BY <1>1
<1> HIDE DEF q
<1>3. ASSUME NEW k \in Nat, NEW r \in 1 .. 3, 3 * k + r \in 1 .. Len(q)
      PROVE  \/ q[3 * k + r] \in Kind(r)
             \/ q[3 * k + r] = Torn /\ 3 * k + r = Len(q)
  <2>1. CASE 3 * k + r = Len(q)
    BY <2>1, <1>2
  <2>2. CASE 3 * k + r # Len(q)
    <3>1. 3 * k + r \in 1 .. Len(words)
      BY <2>2, <1>3, <1>2, <1>1
    <3>2. words[3 * k + r] # Torn
      BY <3>1 DEF Clean
    <3> QED  BY <3>1, <3>2, <1>2 DEF LogWords
  <2> QED  BY <2>1, <2>2
<1> QED  BY <1>2, <1>3 DEF LogWords, q

\* The first frames of a file, as words.
LEMMA WordsOfFrames ==
    ASSUME NEW words, LogWords(words), NEW n \in 0 .. Len(Frames(words))
    PROVE  /\ SubSeq(Frames(words), 1, n) \in Seq(Frame)
           /\ Len(SubSeq(Frames(words), 1, n)) = n
           /\ SubSeq(words, 1, 3 * n) = WordsOf(SubSeq(Frames(words), 1, n))
<1> DEFINE F == Frames(words)
           G == SubSeq(F, 1, n)
           p == SubSeq(words, 1, 3 * n)
<1>1. words \in Seq(Word) /\ Len(words) \in Nat
  BY DEF LogWords
<1>2. F \in Seq(Frame) /\ Len(F) \in Nat /\ 3 * Len(F) <= Len(words)
  BY FramesAre
<1>3. \A k \in Nat : k + 1 <= Len(F) =>
         \A r \in 1 .. 3 : words[3 * k + r] = FrameWords(F[k + 1].index, F[k + 1].entry)[r]
  BY FramesAre
<1> HIDE DEF F
<1>4. G \in Seq(Frame) /\ Len(G) = n /\ \A i \in 1 .. n : G[i] = F[i]
  BY <1>2, SubSeqOf DEF F
<1>5. 3 * n \in 0 .. Len(words) /\ n \in Nat /\ n <= Len(F)
  BY <1>1, <1>2 DEF F
<1>6. p \in Seq(Word) /\ Len(p) = 3 * n /\ \A i \in 1 .. 3 * n : p[i] = words[i]
  BY <1>1, <1>5, SubSeqOf
<1> HIDE DEF G, p
<1>7. WordsOf(G) \in Seq(Word) /\ Len(WordsOf(G)) = 3 * n
  BY <1>4, WordsOfType
<1>8. ASSUME NEW i \in 1 .. 3 * n
      PROVE  p[i] = WordsOf(G)[i]
  <2>1. i \in Nat \ {0}
    BY <1>5
  <2>2. PICK k \in Nat, r \in 1 .. 3 : i = 3 * k + r
    BY <2>1, EveryPlace
  <2>3. k + 1 <= n /\ k + 1 \in 1 .. n /\ k + 1 <= Len(F)
    BY <2>2, <1>5, <1>2
  <2>4. WordsOf(G)[i] = FrameWords(G[k + 1].index, G[k + 1].entry)[r]
    BY <2>2, <2>3, <1>4, WordsOfAt
  <2>5. words[i] = FrameWords(F[k + 1].index, F[k + 1].entry)[r]
    BY <2>2, <2>3, <1>3
  <2> QED  BY <2>3, <2>4, <2>5, <1>4, <1>6
<1>9. p = WordsOf(G)
  BY <1>6, <1>7, <1>8, SeqEqual
<1> QED  BY <1>4, <1>9 DEF p, G, F

\* What a start reads of a file that was written so far and no further.
LEMMA FramesOfPrefix ==
    ASSUME NEW F \in Seq(Frame), NEW L \in 0 .. 3 * Len(F), NEW n \in 0 .. Len(F),
           3 * n <= L, L < 3 * n + 3
    PROVE  Frames(SubSeq(WordsOf(F), 1, L)) = SubSeq(F, 1, n)
<1> DEFINE p == SubSeq(WordsOf(F), 1, L)
           G == SubSeq(F, 1, n)
<1>1. WordsOf(F) \in Seq(Word) /\ Len(WordsOf(F)) = 3 * Len(F) /\ Len(F) \in Nat
  BY WordsOfType
<1>2. LogWords(p) /\ Len(p) = L /\ Clean(p)
  BY <1>1, WordsOfType, LogWordsPrefix
<1>3. \A i \in 1 .. L : p[i] = WordsOf(F)[i]
  BY <1>1, SubSeqOf
<1> HIDE DEF p
<1>4. /\ Frames(p) \in Seq(Frame)
      /\ 3 * Len(Frames(p)) <= L /\ L < 3 * Len(Frames(p)) + 3
  BY <1>2, FramesAre
<1>5. Len(Frames(p)) = n
  BY <1>4, <1>1
<1>6. G \in Seq(Frame) /\ Len(G) = n /\ \A i \in 1 .. n : G[i] = F[i]
  BY SubSeqOf
<1> HIDE DEF G
<1>7. ASSUME NEW j \in 1 .. n
      PROVE  Frames(p)[j] = G[j]
  <2>1. PICK k \in Nat : j = k + 1
    <3>1. j - 1 \in Nat /\ j = (j - 1) + 1
      BY <1>1
    <3> QED  BY <3>1
  <2>2. k + 1 <= n /\ k + 1 <= Len(F) /\ \A r \in 1 .. 3 : 3 * k + r \in 1 .. L
    BY <2>1, <1>1
  <2>3. \A r \in 1 .. 3 :
           /\ p[3 * k + r] = FrameWords(Frames(p)[k + 1].index, Frames(p)[k + 1].entry)[r]
           /\ p[3 * k + r] = FrameWords(F[k + 1].index, F[k + 1].entry)[r]
    <3>1. \A r \in 1 .. 3 :
             p[3 * k + r] = FrameWords(Frames(p)[k + 1].index, Frames(p)[k + 1].entry)[r]
      BY <2>2, <1>2, <1>5, FramesAre
    <3>2. \A r \in 1 .. 3 : WordsOf(F)[3 * k + r] = FrameWords(F[k + 1].index, F[k + 1].entry)[r]
      BY <2>2, WordsOfAt
    <3> QED  BY <3>1, <3>2, <2>2, <1>3
  <2>4. Frames(p)[k + 1] \in Frame /\ F[k + 1] \in Frame
    BY SMTT(30), <1>4, <1>5, <2>2, <2>1
  <2>5. Frames(p)[k + 1].index = F[k + 1].index
    <3>1. FrameWords(Frames(p)[k + 1].index, Frames(p)[k + 1].entry)[1]
            = FrameWords(F[k + 1].index, F[k + 1].entry)[1]
      BY <2>3
    <3> QED  BY <3>1 DEF FrameWords
  <2>6. Frames(p)[k + 1].entry = F[k + 1].entry
    <3>1. FrameWords(Frames(p)[k + 1].index, Frames(p)[k + 1].entry)[3]
            = FrameWords(F[k + 1].index, F[k + 1].entry)[3]
      BY <2>3
    <3> QED  BY <3>1 DEF FrameWords
  <2>7. Frames(p)[k + 1] = F[k + 1]
    BY SMTT(30), <2>4, <2>5, <2>6 DEF Frame
  <2> QED  BY <2>1, <2>7, <1>6
<1>8. Frames(p) = G
  BY <1>4, <1>5, <1>6, <1>7, SeqEqual
<1> QED  BY <1>8 DEF p, G

-----------------------------------------------------------------------------
(***************************************************************************)
(* Where store_log_entries cuts the file.                                  *)
(***************************************************************************)
\* How many frames it keeps.
KeptLen(frames, index) ==
    Min0({k - 1 : k \in {j \in 1 .. Len(frames) : frames[j].index = index}}, Len(frames))

\* The frames of an addendum.
AddedOf(a) ==
    [k \in 1 .. Len(a.entries) |->
        [index |-> a.start_index + k - 1, entry |-> a.entries[k]]]

LEMMA TruncateAt ==
    ASSUME NEW words, LogWords(words), NEW s \in Nat
    PROVE  /\ KeptLen(Frames(words), s) \in 0 .. Len(Frames(words))
           /\ truncate_at(words, s) = 3 * KeptLen(Frames(words), s)
<1> DEFINE F == Frames(words)
           K == Len(F)
           J == {j \in 1 .. K : F[j].index = s}
           I == Starts(words, s)
           A == {3 * (k - 1) : k \in I}
           B == {k - 1 : k \in J}
<1>1. words \in Seq(Word) /\ Len(words) \in Nat
  BY DEF LogWords
<1>2. /\ F \in Seq(Frame) /\ K \in Nat /\ 3 * K <= Len(words) /\ Len(words) <= 3 * K + 3
      /\ K = Cardinality(WholeFrames(words))
  BY FramesAre
<1>3. \A k \in Nat : k + 1 <= K => words[3 * k + 1] = [word |-> "index", index |-> F[k + 1].index]
  <2>1. \A k \in Nat : k + 1 <= K => words[3 * k + 1] = FrameWords(F[k + 1].index, F[k + 1].entry)[1]
    BY FramesAre
  <2> QED  BY <2>1 DEF FrameWords
<1>4. truncate_at(words, s) = Min0(A, 3 * K) /\ KeptLen(F, s) = Min0(B, K)
  BY <1>2 DEF truncate_at, KeptLen
<1> HIDE DEF F
<1>5. I \subseteq 1 .. K + 1
  <2>1. (Len(words) + 2) \div 3 <= K + 1
    BY <1>1, <1>2
  <2>2. I \subseteq 1 .. (Len(words) + 2) \div 3
    BY DEF Starts
  <2>3. (Len(words) + 2) \div 3 \in Nat
    BY <1>1
  <2> QED  BY <2>1, <2>2, <2>3, <1>2
<1>6. \A j \in 1 .. K : j \in J <=> j \in I
  <2> SUFFICES ASSUME NEW j \in 1 .. K
               PROVE  F[j].index = s <=> j \in I
    OBVIOUS
  <2>1. PICK k \in Nat : j = k + 1
    <3>1. j - 1 \in Nat /\ j = (j - 1) + 1
      BY <1>2
    <3> QED  BY <3>1
  <2>2. 3 * j - 2 = 3 * k + 1 /\ k + 1 <= K /\ j \in 1 .. (Len(words) + 2) \div 3
    BY <2>1, <1>2, <1>1
  <2>3. words[3 * j - 2] = [word |-> "index", index |-> F[j].index]
    BY <2>1, <2>2, <1>3
  <2>4. words[3 * j - 2] = [word |-> "index", index |-> s] <=> F[j].index = s
    BY <2>3
  <2> QED  BY <2>2, <2>4 DEF Starts
<1> HIDE DEF I, J
<1>7. J \subseteq 1 .. K
  BY DEF J
<1>8. CASE J # {}
  <2>1. J \subseteq Nat
    BY <1>7, <1>2
  <2>2. PICK m \in J : \A j \in J : m <= j
    BY <1>8, <2>1, LeastNat
  <2>3. m \in I /\ m \in Nat /\ m >= 1 /\ m <= K
    BY <1>6, <1>7, <1>2
  <2>4. \A i \in I : i \in Nat /\ i >= 1 /\ m <= i
    BY <1>5, <1>6, <2>2, <2>3, <1>2
  <2>5. 3 * (m - 1) \in A /\ A \subseteq Nat /\ \A y \in A : 3 * (m - 1) <= y
    BY <2>3, <2>4
  <2>6. m - 1 \in B /\ B \subseteq Nat /\ \A y \in B : m - 1 <= y
    BY <2>1, <2>2, <2>3, <1>7, <1>2
  <2> HIDE DEF A, B
  <2>7. Min0(A, 3 * K) = 3 * (m - 1) /\ Min0(B, K) = m - 1
    BY <2>5, <2>6, MinIs DEF Min0
  <2>8. m - 1 \in 0 .. K
    BY <2>3, <1>2
  <2> QED  BY <2>7, <2>8, <1>4 DEF F
<1>9. CASE J = {}
  <2>1. B = {}
    BY <1>9
  <2>2. I \subseteq {K + 1}
    BY <1>9, <1>5, <1>6, <1>2
  <2>3. A = {} \/ A = {3 * K}
    <3>1. 3 * ((K + 1) - 1) = 3 * K
      BY <1>2
    <3>2. CASE I = {}
      BY <3>2
    <3>3. CASE I = {K + 1}
      BY <3>1, <3>3
    <3> QED  BY <2>2, <3>2, <3>3
  <2> HIDE DEF A, B
  <2>4. Min0(A, 3 * K) = 3 * K
    <3>1. 3 * K \in Nat /\ 3 * K <= 3 * K
      BY <1>2
    <3>2. CASE A = {}
      BY <3>2 DEF Min0
    <3>3. CASE A = {3 * K}
      BY <3>1, <3>3, MinIs DEF Min0
    <3> QED  BY <2>3, <3>2, <3>3
  <2>5. Min0(B, K) = K
    BY <2>1 DEF Min0
  <2>6. K \in 0 .. K
    BY <1>2
  <2> QED  BY <2>4, <2>5, <2>6, <1>4 DEF F
<1> QED  BY <1>8, <1>9

\* The double cuts at the same place, when nothing is torn or cut short.
LEMMA MemTruncateAt ==
    ASSUME NEW words, LogWords(words), Clean(words), NEW q \in Nat, Len(words) = 3 * q,
           NEW s \in Nat
    PROVE  mem_truncate_at(words, s) = truncate_at(words, s)
<1>1. 3 * Len(Frames(words)) <= Len(words) /\ Len(words) < 3 * Len(Frames(words)) + 3
  BY FramesAre
<1>2. Len(Frames(words)) \in Nat /\ Len(Frames(words)) = Cardinality(WholeFrames(words))
  BY FramesAre
<1>3. Len(Frames(words)) = q
  BY <1>1, <1>2
<1>4. 3 * Cardinality(WholeFrames(words)) = Len(words)
  BY <1>2, <1>3
<1> QED  BY <1>4 DEF mem_truncate_at, truncate_at

LEMMA AddedType ==
    ASSUME NEW a \in Addenda
    PROVE  /\ a.start_index \in Nat /\ Len(a.entries) \in Nat /\ a.entries \in Seq(Entry)
           /\ AddedOf(a) \in Seq(Frame) /\ Len(AddedOf(a)) = Len(a.entries)
           /\ AddendumWords(a) = WordsOf(AddedOf(a))
<1>1. a.start_index \in 1 .. MaxIndex /\ a.entries \in UNION {[1 .. n -> Entry] : n \in 1 .. 2}
  BY DEF Addenda
<1>2. PICK n \in 1 .. 2 : a.entries \in [1 .. n -> Entry]
  BY <1>1
<1>3. a.start_index \in Nat /\ a.start_index >= 1
  BY <1>1, ConstantsOK
<1>4. a.entries \in Seq(Entry) /\ Len(a.entries) = n /\ n \in Nat
  BY <1>2
<1>5. AddedOf(a) = [k \in 1 .. n |-> [index |-> a.start_index + k - 1, entry |-> a.entries[k]]]
  BY <1>4 DEF AddedOf
<1>6. \A k \in 1 .. n : a.start_index + k - 1 \in Nat /\ a.entries[k] \in Entry
  BY <1>2, <1>3, <1>4
<1>7. AddedOf(a) \in [1 .. n -> Frame]
  BY <1>5, <1>6 DEF Frame
<1>8. AddedOf(a) \in Seq(Frame) /\ Len(AddedOf(a)) = n
  BY <1>7, <1>4
<1>9. ASSUME NEW i \in 1 .. 3 * n
      PROVE  LET k == (i - 1) \div 3
             IN  FrameWords(a.start_index + k, a.entries[k + 1])[i - 3 * k]
                   = FrameWords(AddedOf(a)[k + 1].index, AddedOf(a)[k + 1].entry)[i - 3 * k]
  <2>1. i \in Nat \ {0}
    BY <1>4
  <2>2. PICK k \in Nat, r \in 1 .. 3 : i = 3 * k + r
    BY <2>1, EveryPlace
  <2>3. (i - 1) \div 3 = k
    BY <2>2, Place
  <2>4. k + 1 \in 1 .. n
    BY <2>2, <1>4
  <2>5. AddedOf(a)[k + 1] = [index |-> a.start_index + (k + 1) - 1, entry |-> a.entries[k + 1]]
    BY <2>4, <1>5
  <2>6. a.start_index + (k + 1) - 1 = a.start_index + k
    BY <1>3
  <2>7. AddedOf(a)[k + 1].index = a.start_index + k /\ AddedOf(a)[k + 1].entry = a.entries[k + 1]
    BY <2>5, <2>6
  <2> QED  BY <2>3, <2>7
<1>10. AddendumWords(a) = WordsOf(AddedOf(a))
  BY <1>4, <1>8, <1>9 DEF AddendumWords, WordsOf
<1> QED  BY <1>3, <1>4, <1>8, <1>10

\* The words that a call leaves behind when it is not cut short.
LEMMA StoredWords ==
    ASSUME NEW words, LogWords(words), NEW a \in Addenda
    PROVE  LET F == SubSeq(Frames(words), 1, KeptLen(Frames(words), a.start_index))
           IN  /\ F \in Seq(Frame)
               /\ SubSeq(words, 1, truncate_at(words, a.start_index)) = WordsOf(F)
               /\ WordsOf(F) \o AddendumWords(a) = WordsOf(F \o AddedOf(a))
<1> DEFINE n == KeptLen(Frames(words), a.start_index)
           F == SubSeq(Frames(words), 1, n)
<1>1. a.start_index \in Nat /\ AddedOf(a) \in Seq(Frame) /\ AddendumWords(a) = WordsOf(AddedOf(a))
  BY AddedType
<1>2. n \in 0 .. Len(Frames(words)) /\ truncate_at(words, a.start_index) = 3 * n
  BY <1>1, TruncateAt
<1> HIDE DEF n
<1>3. F \in Seq(Frame) /\ SubSeq(words, 1, 3 * n) = WordsOf(F)
  BY <1>2, WordsOfFrames
<1> HIDE DEF F
<1>4. WordsOf(F \o AddedOf(a)) = WordsOf(F) \o WordsOf(AddedOf(a))
  BY <1>1, <1>3, WordsOfConcat
<1> QED  BY <1>1, <1>2, <1>3, <1>4 DEF F, n

-----------------------------------------------------------------------------
(***************************************************************************)
(* The log file.                                                           *)
(***************************************************************************)
\* What holds of the log file and of the operation on it.  While words are
\* written, those in the file and those to come are the words of the frames
\* kept and added.
LogInv ==
    /\ log = None \/ LogWords(log)
    /\ op \in {"open", "append"} =>
          addendum \in Addenda /\ before \in Seq(Frame) /\ LogWords(log)
    /\ op = "open" => before = Frames(log)
    /\ op = "append" =>
          /\ rest \in Seq(Word) /\ Clean(log) /\ 3 * Len(Kept) <= Len(log)
          /\ log \o rest = WordsOf(Kept \o Added)

\* The double holds whole frames; while no crash has happened, those of the
\* file, or those that the operation under way will have put there.
MemInv ==
    /\ LogWords(mem_log) /\ Clean(mem_log) /\ \E q \in Nat : Len(mem_log) = 3 * q
    /\ crashes = 0 =>
          /\ log = None => mem_log = << >>
          /\ op \notin {"open", "append"} /\ log # None => mem_log = log
          /\ op = "open" =>
                /\ Clean(log) /\ \E q \in Nat : Len(log) = 3 * q
                /\ mem_log = mem_store_log_entries(log, addendum)
          /\ op = "append" => mem_log = log \o rest

OpsInv ==
    /\ op \in {"idle", "open", "append"} \cup OtherFiles
    /\ crashes \in 0 .. MaxCrashes

IInv == OpsInv /\ LogInv /\ MemInv

LEMMA KeptIs ==
    /\ Kept = SubSeq(before, 1, KeptLen(before, addendum.start_index))
    /\ Added = AddedOf(addendum)
  BY DEF Kept, KeptLen, Added, AddedOf

LEMMA EmptyWords ==
    /\ LogWords(<< >>) /\ Clean(<< >>) /\ Len(<< >>) = 3 * 0
    /\ << >> # None
<1>1. << >> \in Seq(Word) /\ Len(<< >>) = 0
  OBVIOUS
<1>2. LogWords(<< >>)
  BY <1>1 DEF LogWords
<1>3. Clean(<< >>)
  BY <1>1 DEF Clean
<1>4. Len(<< >>) = 3 * 0
  BY <1>1
<1>5. << >> # None
  BY <1>1, ConstantsOK
<1> QED  BY <1>2, <1>3, <1>4, <1>5

LEMMA NoneIsNoLog ==
    ASSUME NEW words, LogWords(words)
    PROVE  words # None
  BY ConstantsOK DEF LogWords

\* Writing one word moves it from what is to come into the file.
LEMMA MoveWord ==
    ASSUME NEW T, NEW l \in Seq(T), NEW s \in Seq(T), s # << >>
    PROVE  /\ Append(l, Head(s)) \in Seq(T) /\ Tail(s) \in Seq(T)
           /\ Append(l, Head(s)) \o Tail(s) = l \o s
           /\ Len(Append(l, Head(s))) = Len(l) + 1
<1>1. /\ Head(s) \in T /\ Tail(s) \in Seq(T) /\ Len(Tail(s)) = Len(s) - 1
      /\ Len(s) \in Nat /\ Len(s) >= 1 /\ Len(l) \in Nat
  OBVIOUS
<1>2. s[1] = Head(s) /\ \A i \in 1 .. Len(s) - 1 : Tail(s)[i] = s[i + 1]
  OBVIOUS
<1> DEFINE a == Append(l, Head(s))
           t == Tail(s)
<1>3. /\ a \in Seq(T) /\ Len(a) = Len(l) + 1 /\ a[Len(l) + 1] = s[1]
      /\ \A i \in 1 .. Len(l) : a[i] = l[i]
  BY <1>1, <1>2
<1>4. t \in Seq(T) /\ Len(t) = Len(s) - 1 /\ \A i \in 1 .. Len(s) - 1 : t[i] = s[i + 1]
  BY <1>1, <1>2
<1> HIDE DEF a, t
<1>5. /\ a \o t \in Seq(T) /\ l \o s \in Seq(T)
      /\ Len(a \o t) = Len(l) + Len(s) /\ Len(l \o s) = Len(l) + Len(s)
  <2>1. Len(a) + Len(t) = Len(l) + Len(s)
    BY <1>1, <1>3, <1>4
  <2>2. a \o t \in Seq(T) /\ Len(a \o t) = Len(a) + Len(t)
    BY <1>3, <1>4, ConcatProperties
  <2>3. l \o s \in Seq(T) /\ Len(l \o s) = Len(l) + Len(s)
    BY ConcatProperties
  <2> QED  BY <2>1, <2>2, <2>3
<1>6. ASSUME NEW i \in 1 .. Len(l) + Len(s)
      PROVE  (a \o t)[i] = (l \o s)[i]
  <2>1. CASE i <= Len(l)
    BY <2>1, <1>1, <1>3, <1>4
  <2>2. CASE i = Len(l) + 1
    BY <2>2, <1>1, <1>3, <1>4
  <2>3. CASE i > Len(l) + 1
    <3>1. (a \o t)[i] = t[i - (Len(l) + 1)] /\ (l \o s)[i] = s[i - Len(l)]
      <4>1. /\ i \in 1 .. Len(a) + Len(t) /\ ~(i <= Len(a))
            /\ i \in 1 .. Len(l) + Len(s) /\ ~(i <= Len(l))
        BY <2>3, <1>1, <1>3, <1>4
      <4>2. (a \o t)[i] = t[i - Len(a)]
        BY <4>1, <1>3, <1>4, ConcatProperties
      <4>3. (l \o s)[i] = s[i - Len(l)]
        BY <4>1, ConcatProperties
      <4> QED  BY <4>2, <4>3, <1>3
    <3>2. PICK m \in 1 .. Len(s) - 1 : m = i - (Len(l) + 1)
      <4>1. i - (Len(l) + 1) \in 1 .. Len(s) - 1
        BY <2>3, <1>1
      <4> QED  BY <4>1
    <3>3. m + 1 = i - Len(l)
      BY <3>2, <1>1
    <3>4. t[m] = s[m + 1]
      BY <1>4
    <3> QED  BY <3>1, <3>2, <3>3, <3>4
  <2>4. i <= Len(l) \/ i = Len(l) + 1 \/ i > Len(l) + 1
    BY <1>1
  <2> QED  BY <2>1, <2>2, <2>3, <2>4
<1>7. a \o t = l \o s
  BY <1>5, <1>6, SeqEqual
<1> QED  BY <1>3, <1>4, <1>7 DEF a, t

LEMMA PrefixOfConcat ==
    ASSUME NEW l \in Seq(Word), NEW s \in Seq(Word)
    PROVE  l = SubSeq(l \o s, 1, Len(l)) /\ Len(l) \in 0 .. Len(l \o s)
<1>1. l \o s \in Seq(Word) /\ Len(l \o s) = Len(l) + Len(s) /\ Len(l) \in Nat /\ Len(s) \in Nat
  OBVIOUS
<1>2. Len(l) \in 0 .. Len(l \o s)
  BY <1>1
<1>3. /\ SubSeq(l \o s, 1, Len(l)) \in Seq(Word) /\ Len(SubSeq(l \o s, 1, Len(l))) = Len(l)
      /\ \A i \in 1 .. Len(l) : SubSeq(l \o s, 1, Len(l))[i] = (l \o s)[i]
  BY <1>1, <1>2, SubSeqOf
<1>4. \A i \in 1 .. Len(l) : (l \o s)[i] = l[i]
  BY <1>1
<1>5. l = SubSeq(l \o s, 1, Len(l))
  <2> DEFINE p == SubSeq(l \o s, 1, Len(l))
  <2>1. p \in Seq(Word) /\ Len(p) = Len(l) /\ \A i \in 1 .. Len(l) : p[i] = l[i]
    BY <1>3, <1>4
  <2> HIDE DEF p
  <2>2. p = l
    BY <2>1, SeqEqual
  <2> QED  BY <2>2 DEF p
<1> QED  BY <1>2, <1>5

\* What is in the file is whole, however much of the words has been written.
LEMMA PartOfWords ==
    ASSUME NEW F \in Seq(Frame), NEW l \in Seq(Word), NEW s \in Seq(Word),
           l \o s = WordsOf(F)
    PROVE  LogWords(l) /\ Clean(l) /\ Len(l) <= 3 * Len(F)
<1>1. /\ LogWords(WordsOf(F)) /\ Clean(WordsOf(F)) /\ Len(WordsOf(F)) = 3 * Len(F)
  BY WordsOfType
<1>2. l = SubSeq(WordsOf(F), 1, Len(l)) /\ Len(l) \in 0 .. Len(WordsOf(F))
  BY PrefixOfConcat
<1>3. Len(F) \in Nat
  OBVIOUS
<1>4. PICK n \in 0 .. Len(WordsOf(F)) : n = Len(l) /\ l = SubSeq(WordsOf(F), 1, n)
  BY <1>2
<1>5. LogWords(SubSeq(WordsOf(F), 1, n)) /\ Clean(SubSeq(WordsOf(F), 1, n))
  BY <1>1, LogWordsPrefix
<1> QED  BY <1>1, <1>3, <1>4, <1>5

LEMMA InitIInv == Init => IInv
<1> SUFFICES ASSUME Init PROVE IInv
  OBVIOUS
<1>1. OpsInv
  BY ConstantsOK DEF Init, OpsInv
<1>2. LogInv
  BY DEF Init, LogInv
<1>3. MemInv
  BY EmptyWords DEF Init, MemInv
<1> QED  BY <1>1, <1>2, <1>3 DEF IInv

\* The words of a file that holds no log are none.
Content == IF log = None THEN << >> ELSE log

LEMMA ContentIs ==
    ASSUME IInv
    PROVE  /\ LogWords(Content) /\ Content # None
           /\ crashes = 0 /\ op = "idle" => mem_log = Content
<1>1. LogWords(Content)
  BY EmptyWords DEF IInv, LogInv, Content
<1>2. Content # None
  BY <1>1, NoneIsNoLog
<1>3. crashes = 0 /\ op = "idle" => mem_log = Content
  BY DEF IInv, MemInv, Content
<1> QED  BY <1>1, <1>2, <1>3

\* What the double makes of a call.
LEMMA MemStored ==
    ASSUME NEW words, LogWords(words), Clean(words), NEW q \in Nat, Len(words) = 3 * q,
           NEW a \in Addenda
    PROVE  /\ LogWords(mem_store_log_entries(words, a))
           /\ Clean(mem_store_log_entries(words, a))
           /\ \E p \in Nat : Len(mem_store_log_entries(words, a)) = 3 * p
           /\ mem_store_log_entries(words, a)
                = SubSeq(words, 1, truncate_at(words, a.start_index)) \o AddendumWords(a)
<1>1. a.start_index \in Nat /\ AddedOf(a) \in Seq(Frame)
  BY AddedType
<1>2. mem_truncate_at(words, a.start_index) = truncate_at(words, a.start_index)
  BY <1>1, MemTruncateAt
<1>3. mem_store_log_entries(words, a)
        = SubSeq(words, 1, truncate_at(words, a.start_index)) \o AddendumWords(a)
  BY <1>2 DEF mem_store_log_entries
<1>4. PICK F \in Seq(Frame) :
         /\ SubSeq(words, 1, truncate_at(words, a.start_index)) = WordsOf(F)
         /\ WordsOf(F) \o AddendumWords(a) = WordsOf(F \o AddedOf(a))
  BY StoredWords
<1>5. mem_store_log_entries(words, a) = WordsOf(F \o AddedOf(a))
  BY <1>3, <1>4
<1>6. F \o AddedOf(a) \in Seq(Frame)
  BY <1>1
<1>7. PICK G \in Seq(Frame) : mem_store_log_entries(words, a) = WordsOf(G)
  BY <1>5, <1>6
<1>8. Len(G) \in Nat
  OBVIOUS
<1> QED  BY <1>3, <1>7, <1>8, WordsOfType

LEMMA StoreStep ==
    ASSUME IInv, NEW a \in Addenda, store_log_entries(a)
    PROVE  IInv'
<1>1. /\ op = "idle" /\ op' = "open" /\ addendum' = a /\ log' = Content
      /\ before' = Frames(Content) /\ mem_log' = mem_store_log_entries(mem_log, a)
      /\ UNCHANGED crashes
  BY DEF store_log_entries, Content
<1>2. LogWords(Content) /\ Content # None /\ (crashes = 0 => mem_log = Content)
  BY <1>1, ContentIs
<1> DEFINE words == Content
<1> HIDE DEF words
<1>3. LogWords(words) /\ log' = words /\ before' = Frames(words) /\ log' # None
  BY <1>1, <1>2 DEF words
<1>4. Frames(words) \in Seq(Frame)
  BY <1>3, FramesAre
<1>5. LogInv'
  BY <1>1, <1>3, <1>4 DEF LogInv
<1>6. LogWords(mem_log) /\ Clean(mem_log) /\ \E q \in Nat : Len(mem_log) = 3 * q
  BY DEF IInv, MemInv
<1>7. LogWords(mem_log') /\ Clean(mem_log') /\ \E q \in Nat : Len(mem_log') = 3 * q
  BY <1>1, <1>6, MemStored
<1>8. crashes = 0 => mem_log = log'
  BY <1>2, <1>3 DEF words
<1>9. MemInv'
  BY <1>1, <1>3, <1>6, <1>7, <1>8 DEF MemInv
<1>10. OpsInv'
  BY <1>1 DEF IInv, OpsInv
<1> QED  BY <1>5, <1>9, <1>10 DEF IInv

LEMMA SetLenStep ==
    ASSUME IInv, SetLen
    PROVE  IInv'
<1>1. /\ op = "open" /\ op' = "append"
      /\ log' = SubSeq(log, 1, truncate_at(log, addendum.start_index))
      /\ rest' = AddendumWords(addendum)
      /\ UNCHANGED <<addendum, before, crashes, mem_log>>
  BY DEF SetLen, memory
<1>2. addendum \in Addenda /\ LogWords(log) /\ before = Frames(log) /\ before \in Seq(Frame)
  BY <1>1 DEF IInv, LogInv
<1>3. Kept' = Kept /\ Added' = Added
  BY <1>1 DEF Kept, Added
<1>4. Kept = SubSeq(Frames(log), 1, KeptLen(Frames(log), addendum.start_index)) /\ Added = AddedOf(addendum)
  BY <1>2, KeptIs
<1>5. /\ Kept \in Seq(Frame) /\ log' = WordsOf(Kept)
      /\ WordsOf(Kept) \o AddendumWords(addendum) = WordsOf(Kept \o Added)
  BY <1>1, <1>2, <1>4, StoredWords
<1>6. /\ LogWords(log') /\ Clean(log') /\ Len(log') = 3 * Len(Kept)
  BY <1>5, WordsOfType
<1>7. rest' \in Seq(Word)
  BY <1>1, <1>2, AddedType, WordsOfType
<1>8. log' \o rest' = WordsOf(Kept' \o Added')
  BY <1>1, <1>3, <1>5
<1>9. 3 * Len(Kept') <= Len(log')
  <2>1. Len(Kept) \in Nat
    BY <1>5
  <2> QED  BY <2>1, <1>3, <1>6
<1>10. LogInv'
  BY <1>1, <1>2, <1>6, <1>7, <1>8, <1>9 DEF LogInv
<1>11. LogWords(mem_log') /\ Clean(mem_log') /\ \E q \in Nat : Len(mem_log') = 3 * q
  BY <1>1 DEF IInv, MemInv
<1>12. crashes = 0 => mem_log = log' \o rest'
  <2> SUFFICES ASSUME crashes = 0 PROVE mem_log = log' \o rest'
    OBVIOUS
  <2>1. /\ Clean(log) /\ \E q \in Nat : Len(log) = 3 * q
        /\ mem_log = mem_store_log_entries(log, addendum)
    BY <1>1 DEF IInv, MemInv
  <2> QED  BY <2>1, <1>1, <1>2, MemStored
<1>13. log' # None
  BY <1>6, NoneIsNoLog
<1>14. MemInv'
  BY <1>1, <1>11, <1>12, <1>13 DEF MemInv
<1>15. OpsInv'
  BY <1>1 DEF IInv, OpsInv
<1> QED  BY <1>10, <1>14, <1>15 DEF IInv

\* While words are written.
LEMMA Writing ==
    ASSUME IInv, op = "append"
    PROVE  /\ addendum \in Addenda /\ before \in Seq(Frame)
           /\ LogWords(log) /\ Clean(log) /\ log \in Seq(Word) /\ rest \in Seq(Word)
           /\ Kept \in Seq(Frame) /\ Added \in Seq(Frame) /\ Kept \o Added \in Seq(Frame)
           /\ Len(Kept \o Added) = Len(Kept) + Len(Added)
           /\ log \o rest = WordsOf(Kept \o Added) /\ 3 * Len(Kept) <= Len(log)
<1>1. /\ addendum \in Addenda /\ before \in Seq(Frame)
      /\ LogWords(log) /\ Clean(log) /\ rest \in Seq(Word)
      /\ log \o rest = WordsOf(Kept \o Added) /\ 3 * Len(Kept) <= Len(log)
  BY DEF IInv, LogInv
<1>2. log \in Seq(Word)
  BY <1>1 DEF LogWords
<1>3. Added \in Seq(Frame)
  BY <1>1, KeptIs, AddedType
<1>4. KeptLen(before, addendum.start_index) \in 0 .. Len(before)
  <2> DEFINE J == {j \in 1 .. Len(before) : before[j].index = addendum.start_index}
             B == {k - 1 : k \in J}
  <2>1. KeptLen(before, addendum.start_index) = Min0(B, Len(before))
    BY DEF KeptLen
  <2>2. Len(before) \in Nat /\ B \subseteq 0 .. Len(before)
    BY <1>1
  <2> HIDE DEF B
  <2>3. CASE B = {}
    BY <2>1, <2>2, <2>3 DEF Min0
  <2>4. CASE B # {}
    <3>1. B \subseteq Nat
      BY <2>2
    <3>2. PICK x \in B : \A y \in B : x <= y
      BY <3>1, <2>4, LeastNat
    <3>3. Min(B) = x
      BY <3>1, <3>2, MinIs
    <3> QED  BY <2>1, <2>2, <2>4, <3>3 DEF Min0
  <2> QED  BY <2>3, <2>4
<1>5. Kept \in Seq(Frame)
  BY <1>1, <1>4, KeptIs, SubSeqOf
<1>6. Kept \o Added \in Seq(Frame) /\ Len(Kept \o Added) = Len(Kept) + Len(Added)
  BY <1>3, <1>5, ConcatProperties
<1> QED  BY <1>1, <1>2, <1>3, <1>5, <1>6

LEMMA WriteWordStep ==
    ASSUME IInv, WriteWord
    PROVE  IInv'
<1>1. /\ op = "append" /\ rest # << >> /\ op' = op
      /\ log' = Append(log, Head(rest)) /\ rest' = Tail(rest)
      /\ UNCHANGED <<addendum, before, crashes, mem_log>>
  BY DEF WriteWord, memory
<1>2. /\ addendum \in Addenda /\ before \in Seq(Frame)
      /\ log \in Seq(Word) /\ rest \in Seq(Word)
      /\ Kept \o Added \in Seq(Frame) /\ Kept \in Seq(Frame)
      /\ log \o rest = WordsOf(Kept \o Added) /\ 3 * Len(Kept) <= Len(log)
  BY <1>1, Writing
<1>3. Kept' = Kept /\ Added' = Added
  BY <1>1 DEF Kept, Added
<1>4. /\ log' \in Seq(Word) /\ rest' \in Seq(Word) /\ log' \o rest' = log \o rest
      /\ Len(log') = Len(log) + 1
  <2>1. /\ Append(log, Head(rest)) \in Seq(Word) /\ Tail(rest) \in Seq(Word)
        /\ Append(log, Head(rest)) \o Tail(rest) = log \o rest
        /\ Len(Append(log, Head(rest))) = Len(log) + 1
    <3>1. log \in Seq(Word) /\ rest \in Seq(Word) /\ rest # << >>
      BY <1>1, <1>2
    <3> QED  BY <3>1, MoveWord
  <2> QED  BY <1>1, <2>1
<1>5. log' \o rest' = WordsOf(Kept \o Added)
  BY <1>2, <1>4
<1>6. LogWords(log') /\ Clean(log')
  BY <1>2, <1>4, <1>5, PartOfWords
<1>7. 3 * Len(Kept') <= Len(log')
  <2>1. Len(Kept) \in Nat /\ Len(log) \in Nat
    BY <1>2
  <2> QED  BY <2>1, <1>2, <1>3, <1>4
<1>8. LogInv'
  BY <1>1, <1>2, <1>3, <1>4, <1>5, <1>6, <1>7 DEF LogInv
<1>9. log' # None
  BY <1>6, NoneIsNoLog
<1>10. MemInv'
  <2>1. crashes = 0 => mem_log = log \o rest
    BY <1>1 DEF IInv, MemInv
  <2>2. crashes' = 0 => mem_log' = log' \o rest'
    BY <2>1, <1>1, <1>4
  <2>3. LogWords(mem_log') /\ Clean(mem_log') /\ \E q \in Nat : Len(mem_log') = 3 * q
    BY <1>1 DEF IInv, MemInv
  <2> QED  BY <1>1, <1>9, <2>2, <2>3 DEF MemInv
<1>11. OpsInv'
  BY <1>1 DEF IInv, OpsInv
<1> QED  BY <1>8, <1>10, <1>11 DEF IInv

LEMMA SyncLogStep ==
    ASSUME IInv, SyncLog
    PROVE  IInv'
<1>1. /\ op = "append" /\ rest = << >> /\ op' = "idle"
      /\ UNCHANGED <<log, crashes, mem_log>>
  BY DEF SyncLog, files, memory
<1>2. LogWords(log) /\ log \in Seq(Word)
  BY <1>1, Writing
<1>3. log \o rest = log
  BY <1>1, <1>2, ConcatEmptySeq
<1>4. LogInv'
  BY <1>1, <1>2 DEF LogInv
<1>5. log # None
  BY <1>2, NoneIsNoLog
<1>6. MemInv'
  BY <1>1, <1>3, <1>5 DEF IInv, MemInv
<1>7. OpsInv'
  BY <1>1 DEF IInv, OpsInv
<1> QED  BY <1>4, <1>6, <1>7 DEF IInv

\* Steps of the other two files leave the log alone.
LEMMA OtherStep ==
    ASSUME IInv, op \notin {"open", "append"}, op' \in {"idle"} \cup OtherFiles,
           UNCHANGED <<log, mem_log, crashes>>
    PROVE  IInv'
<1>1. op' \notin {"open", "append"}
  BY DEF OtherFiles
<1>2. LogInv'
  BY <1>1 DEF IInv, LogInv
<1>3. MemInv'
  BY <1>1 DEF IInv, MemInv
<1>4. OpsInv'
  BY DEF IInv, OpsInv
<1> QED  BY <1>2, <1>3, <1>4 DEF IInv

LEMMA TruncateLogStep ==
    ASSUME IInv, truncate_log
    PROVE  IInv'
<1>1. /\ op = "idle" /\ op' = op /\ log' = << >> /\ mem_log' = << >>
      /\ UNCHANGED crashes
  BY DEF truncate_log, mem_truncate_log
<1>2. LogInv'
  BY <1>1, EmptyWords DEF LogInv
<1>3. MemInv'
  BY <1>1, EmptyWords DEF MemInv
<1>4. OpsInv'
  BY <1>1 DEF IInv, OpsInv
<1> QED  BY <1>2, <1>3, <1>4 DEF IInv

LEMMA CrashStep ==
    ASSUME IInv, Crash
    PROVE  IInv'
<1>1. /\ crashes < MaxCrashes /\ crashes' = crashes + 1 /\ op' = "idle"
      /\ \/ log' = log
         \/ op = "append" /\ log' = Append(log, Torn)
      /\ UNCHANGED mem_log
  BY DEF Crash, memory
<1>2. op = "append" => LogWords(Append(log, Torn))
  BY Writing, LogWordsTorn
<1>3. LogInv'
  BY <1>1, <1>2 DEF IInv, LogInv
<1>4. crashes' \in 0 .. MaxCrashes /\ crashes' # 0
  BY <1>1, ConstantsOK DEF IInv, OpsInv
<1>5. MemInv'
  BY <1>1, <1>4 DEF IInv, MemInv
<1>6. OpsInv'
  BY <1>1, <1>4 DEF OpsInv
<1> QED  BY <1>3, <1>5, <1>6 DEF IInv

LEMMA NextIInv == IInv /\ [Next]_vars => IInv'
<1> SUFFICES ASSUME IInv, [Next]_vars PROVE IInv'
  OBVIOUS
<1>1. ASSUME NEW a \in Addenda, store_log_entries(a) PROVE IInv'
  BY <1>1, StoreStep
<1>2. CASE SetLen
  BY <1>2, SetLenStep
<1>3. CASE WriteWord
  BY <1>3, WriteWordStep
<1>4. CASE SyncLog
  BY <1>4, SyncLogStep
<1>5. ASSUME NEW value \in Entry, store_metadata(value) \/ store_snapshot(value) PROVE IInv'
  <2>1. op = "idle" /\ op' \in OtherFiles /\ UNCHANGED <<log, mem_log, crashes>>
    BY <1>5 DEF store_metadata, store_snapshot, atomic_serialize, OtherFiles
  <2> QED  BY <2>1, OtherStep
<1>6. CASE WriteTmp
  <2>1. op \in {"metadata", "snapshot"} /\ op' = op /\ UNCHANGED <<log, mem_log, crashes>>
    BY <1>6 DEF WriteTmp, memory
  <2> QED  BY <2>1, OtherStep DEF OtherFiles
<1>7. CASE Rename
  <2>1. op \in {"metadata", "snapshot"} /\ op' = "idle" /\ UNCHANGED <<log, mem_log, crashes>>
    BY <1>7 DEF Rename, memory
  <2> QED  BY <2>1, OtherStep
<1>8. CASE truncate_log
  BY <1>8, TruncateLogStep
<1>9. CASE Crash
  BY <1>9, CrashStep
<1>10. CASE UNCHANGED vars
  <2>1. UNCHANGED <<log, op, addendum, rest, mem_log, before, crashes>>
    BY <1>10 DEF vars, files, memory
  <2>2. Kept' = Kept /\ Added' = Added
    BY <2>1 DEF Kept, Added
  <2>3. OpsInv'
    BY <2>1 DEF IInv, OpsInv
  <2>4. LogInv'
    BY <2>1, <2>2 DEF IInv, LogInv
  <2>5. MemInv'
    BY <2>1 DEF IInv, MemInv
  <2> QED  BY <2>3, <2>4, <2>5 DEF IInv
<1> QED  BY <1>1, <1>2, <1>3, <1>4, <1>5, <1>6, <1>7, <1>8, <1>9, <1>10 DEF Next

\* Type correctness of the two stores: a torn word is only ever the last one
\* of the file, and no word stands where one of another kind is read.
THEOREM TypeCorrectness == Spec => []TypeOK
<1>1. ASSUME IInv PROVE TypeOK
  <2>1. log # None => WellFormed(log)
    BY <1>1, LogWordsWellFormed DEF IInv, LogInv
  <2>2. WellFormed(mem_log)
    BY <1>1, LogWordsWellFormed DEF IInv, MemInv
  <2>3. PICK q \in Nat : Len(mem_log) = 3 * q
    BY <1>1 DEF IInv, MemInv
  <2>4. (3 * q) % 3 = 0
    OBVIOUS
  <2> QED  BY <1>1, <2>1, <2>2, <2>3, <2>4 DEF TypeOK, IInv, OpsInv
<1> QED  BY <1>1, InitIInv, NextIInv, PTL DEF Spec

\* store_log_entries, at every moment and so after a crash at any moment: the
\* file holds the old log, or the frames kept and the first of the new ones.
THEOREM LogIsStored == Spec => []StoredLog
<1>1. ASSUME IInv PROVE StoredLog
  <2>1. CASE op \notin {"open", "append"}
    BY <2>1 DEF StoredLog
  <2>2. CASE op = "open"
    BY <1>1, <2>2 DEF StoredLog, IInv, LogInv
  <2>3. CASE op = "append"
    <3> DEFINE F == Kept \o Added
    <3>1. /\ log \in Seq(Word) /\ rest \in Seq(Word) /\ LogWords(log) /\ Clean(log)
          /\ Kept \in Seq(Frame) /\ Added \in Seq(Frame) /\ F \in Seq(Frame)
          /\ Len(F) = Len(Kept) + Len(Added)
          /\ log \o rest = WordsOf(F) /\ 3 * Len(Kept) <= Len(log)
      BY <1>1, <2>3, Writing
    <3> HIDE DEF F
    <3>2. /\ Len(log) \in Nat /\ Len(rest) \in Nat /\ Len(Kept) \in Nat /\ Len(Added) \in Nat
          /\ Len(WordsOf(F)) = 3 * Len(F) /\ Len(log) + Len(rest) = 3 * Len(F)
      <4>1. /\ Len(log) \in Nat /\ Len(rest) \in Nat
            /\ Len(Kept) \in Nat /\ Len(Added) \in Nat
        BY <3>1
      <4>2. Len(WordsOf(F)) = 3 * Len(F)
        BY <3>1, WordsOfType
      <4>3. Len(log \o rest) = Len(log) + Len(rest)
        BY <3>1, ConcatProperties
      <4> QED  BY <4>1, <4>2, <4>3, <3>1
    <3>3. Len(log) \in 0 .. 3 * Len(F) /\ log = SubSeq(WordsOf(F), 1, Len(log))
      BY <3>1, <3>2, PrefixOfConcat
    <3>4. PICK k \in Nat, m \in 0 .. 2 : Len(log) = 3 * k + m
      BY <3>2, Divide
    <3>5. PICK L \in 0 .. 3 * Len(F) : L = Len(log) /\ log = SubSeq(WordsOf(F), 1, L)
      BY <3>3
    <3>6. /\ k \in 0 .. Len(F) /\ 3 * k <= L /\ L < 3 * k + 3 /\ Len(Kept) <= k
      BY <3>1, <3>2, <3>4, <3>5
    <3>7. Frames(SubSeq(WordsOf(F), 1, L)) = SubSeq(F, 1, k)
      BY <3>1, <3>6, FramesOfPrefix
    <3>8. Frames(log) = SubSeq(F, 1, k)
      BY <3>5, <3>7
    <3>9. PICK n \in 0 .. Len(Added) : k = Len(Kept) + n
      <4>1. k - Len(Kept) \in 0 .. Len(Added) /\ k = Len(Kept) + (k - Len(Kept))
        BY <3>1, <3>2, <3>6
      <4> QED  BY <4>1
    <3>10. SubSeq(F, 1, k) = Kept \o SubSeq(Added, 1, n)
      <4> DEFINE s == SubSeq(F, 1, k)
                 t == SubSeq(Added, 1, n)
      <4>1. s \in Seq(Frame) /\ Len(s) = k /\ \A i \in 1 .. k : s[i] = F[i]
        BY <3>1, <3>6, SubSeqOf
      <4>2. t \in Seq(Frame) /\ Len(t) = n /\ \A i \in 1 .. n : t[i] = Added[i]
        BY <3>1, SubSeqOf
      <4> HIDE DEF s, t
      <4>3. /\ Kept \o t \in Seq(Frame) /\ Len(Kept \o t) = k
            /\ \A i \in 1 .. k : (Kept \o t)[i] = IF i <= Len(Kept) THEN Kept[i] ELSE t[i - Len(Kept)]
        <5>1. Len(Kept) + Len(t) = k
          BY <3>9, <4>2
        <5>2. /\ Kept \o t \in Seq(Frame) /\ Len(Kept \o t) = Len(Kept) + Len(t)
              /\ \A i \in 1 .. Len(Kept) + Len(t) :
                    (Kept \o t)[i] = IF i <= Len(Kept) THEN Kept[i] ELSE t[i - Len(Kept)]
          <6>1. Kept \in Seq(Frame) /\ t \in Seq(Frame)
            BY <3>1, <4>2
          <6> QED  BY <6>1, ConcatProperties
        <5> QED  BY <5>1, <5>2
      <4>4. \A i \in 1 .. k : F[i] = IF i <= Len(Kept) THEN Kept[i] ELSE Added[i - Len(Kept)]
        <5>1. \A i \in 1 .. k : i \in 1 .. Len(Kept) + Len(Added)
          BY <3>2, <3>9
        <5> QED  BY <5>1, <3>1, ConcatProperties DEF F
      <4>5. ASSUME NEW i \in 1 .. k PROVE s[i] = (Kept \o t)[i]
        <5>1. CASE i <= Len(Kept)
          BY <5>1, <4>1, <4>3, <4>4
        <5>2. CASE ~(i <= Len(Kept))
          <6>1. PICK j \in 1 .. n : j = i - Len(Kept)
            <7>1. i - Len(Kept) \in 1 .. n
              BY <5>2, <3>2, <3>9
            <7> QED  BY <7>1
          <6>2. t[j] = Added[j]
            BY <4>2
          <6> QED  BY <5>2, <6>1, <6>2, <4>1, <4>3, <4>4
        <5> QED  BY <5>1, <5>2
      <4>6. s = Kept \o t
        BY <4>1, <4>3, <4>5, SeqEqual
      <4> QED  BY <4>6 DEF s, t
    <3>11. rest = << >> => n = Len(Added)
      <4>1. rest = << >> => Len(rest) = 0
        OBVIOUS
      <4>2. Len(rest) = 0 => Len(log) = 3 * (Len(Kept) + Len(Added))
        BY <3>1, <3>2
      <4>3. Len(log) = 3 * (Len(Kept) + Len(Added)) => n = Len(Added)
        BY <3>2, <3>4, <3>9
      <4> QED  BY <4>1, <4>2, <4>3
    <3> QED  BY <2>3, <3>8, <3>10, <3>11 DEF StoredLog
  <2> QED  BY <2>1, <2>2, <2>3
<1> QED  BY <1>1, InitIInv, NextIInv, PTL DEF Spec

-----------------------------------------------------------------------------
(***************************************************************************)
(* Metadata and snapshot.                                                  *)
(***************************************************************************)
Half == [half : 1 .. 2, of : Entry]

\* Each file is missing or whole, and what is being written to the temporary
\* file will be whole when it is renamed.  The double is ahead of the file
\* that is being written, and agrees with the others.
FilesInv ==
    /\ DOMAIN file = OtherFiles /\ DOMAIN saved = OtherFiles /\ DOMAIN mem_file = OtherFiles
    /\ \A f \in OtherFiles :
          \/ file[f] = None /\ saved[f] = None
          \/ saved[f] \in Entry /\ file[f] = Serialized(saved[f])
    /\ op \in OtherFiles =>
          /\ tmp \in Seq(Half) /\ rest \in Seq(Half)
          /\ \E value \in Entry :
                /\ tmp \o rest = Serialized(value)
                /\ crashes = 0 => mem_file[op] = Serialized(value)
    /\ crashes = 0 =>
          \A f \in OtherFiles :
             op # f => mem_file[f] = IF file[f] = None THEN << >> ELSE file[f]

LEMMA SerializedType ==
    ASSUME NEW value \in Entry
    PROVE  /\ Serialized(value) \in Seq(Half) /\ Len(Serialized(value)) = 2
           /\ Serialized(value)[1].of = value /\ Serialized(value) # << >>
           /\ Serialized(value) # None
<1>1. [half |-> 1, of |-> value] \in Half /\ [half |-> 2, of |-> value] \in Half
  BY DEF Half
<1>2. Serialized(value) \in Seq(Half)
  BY <1>1 DEF Serialized
<1>3. Len(Serialized(value)) = 2 /\ Serialized(value)[1].of = value
  BY DEF Serialized
<1>4. Serialized(value) # << >>
  BY <1>3
<1> QED  BY <1>2, <1>3, <1>4, ConstantsOK

LEMMA DeserializedIs ==
    ASSUME NEW value \in Entry
    PROVE  Deserialized(Serialized(value)) = value
  BY SerializedType DEF Deserialized

LEMMA InitFiles == Init => FilesInv
  BY DEF Init, FilesInv, OtherFiles

\* Steps that touch neither of the two files.
LEMMA FilesStay ==
    ASSUME FilesInv, UNCHANGED <<file, saved, mem_file>>,
           op' \notin OtherFiles, op \notin OtherFiles,
           crashes' = 0 => crashes = 0
    PROVE  FilesInv'
<1>1. \A f \in OtherFiles : op # f /\ op' # f
  OBVIOUS
<1> QED  BY <1>1 DEF FilesInv

LEMMA FilesStart ==
    ASSUME FilesInv, NEW f \in OtherFiles, NEW value \in Entry,
           atomic_serialize(f, value),
           mem_file' = [mem_file EXCEPT ![f] = Serialized(value)]
    PROVE  FilesInv'
<1>1. /\ op = "idle" /\ op' = f /\ rest' = Serialized(value) /\ tmp' = << >>
      /\ UNCHANGED <<file, saved, crashes>>
  BY DEF atomic_serialize
<1>2. Serialized(value) \in Seq(Half) /\ << >> \in Seq(Half)
  BY SerializedType
<1>3. << >> \o Serialized(value) = Serialized(value)
  BY <1>2, ConcatEmptySeq
<1>4. /\ DOMAIN mem_file' = OtherFiles /\ mem_file'[f] = Serialized(value)
      /\ \A g \in OtherFiles : g # f => mem_file'[g] = mem_file[g]
  BY DEF FilesInv
<1>5. \A g \in OtherFiles : op # g
  BY <1>1 DEF OtherFiles
<1>6. crashes = 0 => \A g \in OtherFiles : mem_file[g] = IF file[g] = None THEN << >> ELSE file[g]
  BY <1>5 DEF FilesInv
<1>7. /\ DOMAIN file' = OtherFiles /\ DOMAIN saved' = OtherFiles
      /\ \A g \in OtherFiles :
            \/ file'[g] = None /\ saved'[g] = None
            \/ saved'[g] \in Entry /\ file'[g] = Serialized(saved'[g])
  BY <1>1 DEF FilesInv
<1>8. crashes' = 0 =>
         \A g \in OtherFiles :
            op' # g => mem_file'[g] = IF file'[g] = None THEN << >> ELSE file'[g]
  BY <1>1, <1>4, <1>6
<1>9. tmp' \in Seq(Half) /\ rest' \in Seq(Half) /\ tmp' \o rest' = Serialized(value)
  BY <1>1, <1>2, <1>3
<1>10. mem_file'[op'] = Serialized(value)
  BY <1>1, <1>4
<1> QED  BY <1>4, <1>7, <1>8, <1>9, <1>10 DEF FilesInv

LEMMA FilesWrite ==
    ASSUME FilesInv, WriteTmp
    PROVE  FilesInv'
<1>1. /\ op \in OtherFiles /\ rest # << >> /\ op' = op
      /\ tmp' = Append(tmp, Head(rest)) /\ rest' = Tail(rest)
      /\ UNCHANGED <<file, saved, mem_file, crashes>>
  BY DEF WriteTmp, memory, OtherFiles
<1>2. tmp \in Seq(Half) /\ rest \in Seq(Half)
  BY <1>1 DEF FilesInv
<1>3. tmp' \in Seq(Half) /\ rest' \in Seq(Half) /\ tmp' \o rest' = tmp \o rest
  BY <1>1, <1>2, MoveWord
<1> QED  BY <1>1, <1>3 DEF FilesInv

LEMMA FilesRename ==
    ASSUME FilesInv, Rename
    PROVE  FilesInv'
<1>1. /\ op \in OtherFiles /\ rest = << >> /\ op' = "idle"
      /\ file' = [file EXCEPT ![op] = tmp] /\ saved' = [saved EXCEPT ![op] = tmp[1].of]
      /\ UNCHANGED <<mem_file, crashes>>
  BY DEF Rename, memory, OtherFiles
<1>2. PICK value \in Entry :
         tmp \o rest = Serialized(value) /\ (crashes = 0 => mem_file[op] = Serialized(value))
  BY <1>1 DEF FilesInv
<1>3. tmp \in Seq(Half)
  BY <1>1 DEF FilesInv
<1>4. tmp = Serialized(value)
  BY <1>1, <1>2, <1>3, ConcatEmptySeq
<1>5. tmp # None /\ tmp[1].of = value
  BY <1>4, SerializedType
<1>6. /\ DOMAIN file' = OtherFiles /\ DOMAIN saved' = OtherFiles /\ DOMAIN mem_file' = OtherFiles
      /\ file'[op] = Serialized(value) /\ saved'[op] = value
      /\ \A g \in OtherFiles : g # op => file'[g] = file[g] /\ saved'[g] = saved[g]
  BY <1>1, <1>4, <1>5 DEF FilesInv
<1>7. ASSUME NEW g \in OtherFiles
      PROVE  /\ \/ file'[g] = None /\ saved'[g] = None
                \/ saved'[g] \in Entry /\ file'[g] = Serialized(saved'[g])
             /\ crashes' = 0 => mem_file'[g] = IF file'[g] = None THEN << >> ELSE file'[g]
  <2>1. CASE g = op
    BY <2>1, <1>1, <1>2, <1>4, <1>5, <1>6
  <2>2. CASE g # op
    BY <2>2, <1>1, <1>6 DEF FilesInv
  <2> QED  BY <2>1, <2>2
<1>8. op' \notin OtherFiles
  BY <1>1 DEF OtherFiles
<1> QED  BY <1>6, <1>7, <1>8 DEF FilesInv

LEMMA FilesCrash ==
    ASSUME FilesInv, OpsInv, Crash
    PROVE  FilesInv'
<1>1. crashes' = crashes + 1 /\ op' = "idle" /\ UNCHANGED <<file, saved, mem_file>>
  BY DEF Crash, memory
<1>2. crashes' # 0 /\ op' \notin OtherFiles
  BY <1>1, ConstantsOK DEF OpsInv, OtherFiles
<1> QED  BY <1>1, <1>2 DEF FilesInv

LEMMA NextFiles == FilesInv /\ OpsInv /\ [Next]_vars => FilesInv'
<1> SUFFICES ASSUME FilesInv, OpsInv, [Next]_vars PROVE FilesInv'
  OBVIOUS
<1>1. ASSUME NEW a \in Addenda, store_log_entries(a) PROVE FilesInv'
  <2>1. op = "idle" /\ op' = "open" /\ UNCHANGED <<file, saved, mem_file, crashes>>
    BY <1>1 DEF store_log_entries
  <2> QED  BY <2>1, FilesStay DEF OtherFiles
<1>2. CASE SetLen
  <2>1. op = "open" /\ op' = "append" /\ UNCHANGED <<file, saved, mem_file, crashes>>
    BY <1>2 DEF SetLen, memory
  <2> QED  BY <2>1, FilesStay DEF OtherFiles
<1>3. CASE WriteWord
  <2>1. op = "append" /\ op' = op /\ UNCHANGED <<file, saved, mem_file, crashes>>
    BY <1>3 DEF WriteWord, memory
  <2> QED  BY <2>1, FilesStay DEF OtherFiles
<1>4. CASE SyncLog
  <2>1. op = "append" /\ op' = "idle" /\ UNCHANGED <<file, saved, mem_file, crashes>>
    BY <1>4 DEF SyncLog, memory, files
  <2> QED  BY <2>1, FilesStay DEF OtherFiles
<1>5. ASSUME NEW value \in Entry, store_metadata(value) PROVE FilesInv'
  BY <1>5, FilesStart DEF store_metadata, mem_store_metadata, OtherFiles
<1>6. ASSUME NEW value \in Entry, store_snapshot(value) PROVE FilesInv'
  BY <1>6, FilesStart DEF store_snapshot, mem_store_snapshot, OtherFiles
<1>7. CASE WriteTmp
  BY <1>7, FilesWrite
<1>8. CASE Rename
  BY <1>8, FilesRename
<1>9. CASE truncate_log
  <2>1. op = "idle" /\ op' = op /\ UNCHANGED <<file, saved, mem_file, crashes>>
    BY <1>9 DEF truncate_log
  <2> QED  BY <2>1, FilesStay DEF OtherFiles
<1>10. CASE Crash
  BY <1>10, FilesCrash
<1>11. CASE UNCHANGED vars
  <2>1. UNCHANGED <<file, saved, mem_file, crashes, op, tmp, rest>>
    BY <1>11 DEF vars, files, memory
  <2> QED  BY <2>1 DEF FilesInv
<1> QED  BY <1>1, <1>2, <1>3, <1>4, <1>5, <1>6, <1>7, <1>8, <1>9, <1>10, <1>11 DEF Next

LEMMA ReadTypeIs ==
    ASSUME FilesInv, NEW f \in OtherFiles
    PROVE  read_type(f) = saved[f]
<1>1. CASE file[f] = None /\ saved[f] = None
  BY <1>1 DEF read_type
<1>2. CASE saved[f] \in Entry /\ file[f] = Serialized(saved[f])
  BY <1>2, SerializedType, DeserializedIs DEF read_type
<1> QED  BY <1>1, <1>2 DEF FilesInv

\* Metadata and snapshot are read back whole, as the last complete store has
\* left them, whatever stores were cut short since: what atomic_serialize's
\* temporary file and rename are for.
THEOREM FilesAreWhole == Spec => []WholeFiles
<1>1. ASSUME FilesInv PROVE WholeFiles
  BY <1>1, ReadTypeIs DEF WholeFiles
<1>2. IInv => OpsInv
  BY DEF IInv
<1> QED  BY <1>1, <1>2, InitIInv, NextIInv, InitFiles, NextFiles, PTL DEF Spec

\* Until a crash, a start finds in the tests' double what it would find in
\* the files, but for an emptied log.
THEOREM DoubleIsFaithful == Spec => []DoubleAgrees
<1>1. ASSUME IInv, FilesInv PROVE DoubleAgrees
  <2> SUFFICES ASSUME op = "idle", crashes = 0
               PROVE  /\ mem_restore_log_entries =
                            (IF log = << >> THEN None ELSE restore_log_entries)
                      /\ mem_restore_metadata = read_type("metadata")
                      /\ mem_restore_snapshot = read_type("snapshot")
                      /\ mem_retrieve_snapshot_bytes = retrieve_snapshot_bytes
    BY DEF DoubleAgrees
  <2>1. (log = None => mem_log = << >>) /\ (log # None => mem_log = log)
    BY <1>1 DEF IInv, MemInv
  <2>2. mem_restore_log_entries = (IF log = << >> THEN None ELSE restore_log_entries)
    BY <2>1, EmptyWords DEF mem_restore_log_entries, restore_log_entries
  <2>3. \A f \in OtherFiles :
           /\ mem_file[f] = IF file[f] = None THEN << >> ELSE file[f]
           /\ file[f] # None => file[f] # << >>
    <3>1. \A f \in OtherFiles : mem_file[f] = IF file[f] = None THEN << >> ELSE file[f]
      BY <1>1 DEF FilesInv, OtherFiles
    <3>2. \A f \in OtherFiles : file[f] # None => file[f] # << >>
      BY <1>1, SerializedType DEF FilesInv
    <3> QED  BY <3>1, <3>2
  <2>4. Deserialized(<< >>) = "error"
    BY SerializedType DEF Deserialized
  <2>5. "metadata" \in OtherFiles /\ "snapshot" \in OtherFiles
    BY DEF OtherFiles
  <2>6. mem_restore_metadata = read_type("metadata")
    BY <2>3, <2>5 DEF mem_restore_metadata, read_type
  <2>7. mem_restore_snapshot = read_type("snapshot")
    BY <2>3, <2>5 DEF mem_restore_snapshot, read_type
  <2>8. mem_retrieve_snapshot_bytes = retrieve_snapshot_bytes
    BY <2>3, <2>4, <2>5 DEF mem_retrieve_snapshot_bytes, retrieve_snapshot_bytes, read_type
  <2> QED  BY <2>2, <2>6, <2>7, <2>8
<1>2. IInv => OpsInv
  BY DEF IInv
<1> QED  BY <1>1, <1>2, InitIInv, NextIInv, InitFiles, NextFiles, PTL DEF Spec

=============================================================================
