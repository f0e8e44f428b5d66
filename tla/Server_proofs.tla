---------------------------- MODULE Server_proofs ---------------------------
(***************************************************************************)
(* Proofs about three parts of the server that share no state.             *)
(*                                                                         *)
(* Chat, for every number of people, boards, posts and crashes, every cap  *)
(* and every queue: the store holds what the server shows, a client that   *)
(* has handled everything shows the board of its space, and nothing counts *)
(* as seen that the device did not show.                                   *)
(*                                                                         *)
(* Catalog: what a restart shows of an org's spaces is what the server     *)
(* showed, whatever statement it stopped after.                            *)
(*                                                                         *)
(* Connection: type correctness, the channel's bound above all; that no    *)
(* control message is lost but by a connection on its way out; and that    *)
(* lossy messages never take the slots kept for control messages.          *)
(***************************************************************************)
EXTENDS Chat, Catalog, Connection, SequenceTheorems, FiniteSetTheorems, WellFoundedInduction, TLAPS

(***************************************************************************)
(* Lists in order.                                                         *)
(***************************************************************************)
Image(f, n) == {f[i] : i \in 1 .. n}

Ordered(f, n, key) == \A i, j \in 1 .. n : i < j => key[f[i]] < key[f[j]]

Below(N, key, x) == {m \in N : key[m] < key[x]}

RankedBy(N, key, f, n) ==
  /\ IsFiniteSet(N) /\ Cardinality(N) = n
  /\ \A i \in 1 .. n : Cardinality(Below(N, key, f[i])) = i - 1

(* In a sequence whose keys grow, the element at place i is the one with   *)
(* i - 1 smaller ones: it can be read back from the set of its elements.   *)
LEMMA Ranked ==
  ASSUME NEW T, NEW n \in Nat, NEW f \in [1 .. n -> T], NEW key \in [T -> Int],
         Ordered(f, n, key),
         NEW N, N = Image(f, n)
  PROVE  RankedBy(N, key, f, n)
<1> \A i, j \in 1 .. n : i < j => key[f[i]] < key[f[j]]
  BY DEF Ordered
<1>1. \A i, j \in 1 .. n : f[i] = f[j] => i = j
  BY SMT
<1>2. \A k \in 0 .. n : LET M == {f[i] : i \in 1 .. k}
                        IN  IsFiniteSet(M) /\ Cardinality(M) = k
  <2> SUFFICES ASSUME NEW k \in 0 .. n
               PROVE  LET M == {f[i] : i \in 1 .. k}
                      IN  IsFiniteSet(M) /\ Cardinality(M) = k
    OBVIOUS
  <2> DEFINE M == {f[i] : i \in 1 .. k}
             g == [i \in 1 .. k |-> f[i]]
  <2>1. g \in Bijection(1 .. k, M)
    <3>1. g \in [1 .. k -> M]
      OBVIOUS
    <3>2. \A i, j \in 1 .. k : g[i] = g[j] => i = j
      BY <1>1
    <3>3. \A m \in M : \E i \in 1 .. k : g[i] = m
      OBVIOUS
    <3> QED
      BY <3>1, <3>2, <3>3 DEF Bijection, Injection, Surjection, IsInjective
  <2>2. IsFiniteSet(1 .. k) /\ Cardinality(1 .. k) = k
    BY FS_Interval
  <2>3. ExistsBijection(1 .. k, M)
    BY <2>1 DEF ExistsBijection
  <2>4. IsFiniteSet(M) /\ Cardinality(M) = Cardinality(1 .. k)
    <3> HIDE DEF M
    <3> QED BY <2>2, <2>3, FS_Bijection, Zenon
  <2> QED
    BY <2>2, <2>4
<1>3. ASSUME NEW i \in 1 .. n
      PROVE  Below(N, key, f[i]) = {f[j] : j \in 1 .. i - 1}
  <2>1. \A j \in 1 .. n : key[f[j]] < key[f[i]] <=> j < i
    <3> SUFFICES ASSUME NEW j \in 1 .. n
                 PROVE  key[f[j]] < key[f[i]] <=> j < i
      OBVIOUS
    <3>1. key[f[i]] \in Int /\ key[f[j]] \in Int
      OBVIOUS
    <3>2. j < i \/ j = i \/ i < j
      OBVIOUS
    <3> QED BY <3>1, <3>2
  <2>2. \A j \in 1 .. i - 1 : j \in 1 .. n /\ j < i
    OBVIOUS
  <2>3. \A j \in 1 .. n : j < i => j \in 1 .. i - 1
    OBVIOUS
  <2> QED BY <2>1, <2>2, <2>3 DEF Below, Image
<1>4. {f[i] : i \in 1 .. n} = N /\ n \in 0 .. n
  BY DEF Image
<1>5. IsFiniteSet(N) /\ Cardinality(N) = n
  BY <1>2, <1>4
<1>6. ASSUME NEW i \in 1 .. n
      PROVE  Cardinality(Below(N, key, f[i])) = i - 1
  <2>1. i - 1 \in 0 .. n
    OBVIOUS
  <2> QED BY <2>1, <1>2, <1>3
<1> QED
  BY <1>5, <1>6 DEF RankedBy

(* What lies in order: ids grow along a board.                             *)
Rising(board) == \A i, j \in DOMAIN board : i < j => board[i].id < board[j].id

(* A board and the notes of it, wherever those are kept.                   *)
Lists(board, notes) == ToSet(board) = notes /\ Rising(board)

(* A list of notes is found again from the notes alone: what load_all reads *)
(* from the rows of a board is the board.                                  *)
LEMMA ListIsById ==
  ASSUME NEW b \in Seq(Note), NEW notes, Lists(b, notes)
  PROVE  b = ById(notes)
<1> DEFINE key == [n \in Note |-> n.id]
           N == Len(b)
           less(n) == {m \in notes : m.id < n.id}
<1>1. N \in Nat /\ b \in [1 .. N -> Note] /\ DOMAIN b = 1 .. N
  BY LenProperties
<1>2. notes = Image(b, N) /\ notes \subseteq Note
  BY <1>1 DEF Lists, ToSet, Image
<1>3. key \in [Note -> Int] /\ \A n \in Note : key[n] = n.id
  BY DEF Note
<1>4. Ordered(b, N, key)
  BY <1>1, <1>3 DEF Lists, Rising, Ordered
<1> HIDE DEF key, N
<1>5. /\ Cardinality(notes) = N
      /\ \A i \in 1 .. N : Cardinality(Below(notes, key, b[i])) = i - 1
  <2>1. RankedBy(notes, key, b, N)
    BY <1>1, <1>2, <1>3, <1>4, Ranked
  <2> QED BY <2>1 DEF RankedBy
<1>6. \A i \in 1 .. N : Cardinality(less(b[i])) = i - 1
  <2> SUFFICES ASSUME NEW i \in 1 .. N PROVE Cardinality(less(b[i])) = i - 1
    OBVIOUS
  <2>1. less(b[i]) = Below(notes, key, b[i])
    BY <1>1, <1>2, <1>3 DEF Below
  <2> QED BY <2>1, <1>5
<1>7. ASSUME NEW i \in 1 .. N
      PROVE  (CHOOSE n \in notes : Cardinality(less(n)) = i - 1) = b[i]
  <2>1. b[i] \in notes /\ Cardinality(less(b[i])) = i - 1
    BY <1>2, <1>6 DEF Image
  <2>2. ASSUME NEW n \in notes, Cardinality(less(n)) = i - 1
        PROVE  n = b[i]
    <3> HIDE DEF less
    <3>1. PICK j \in 1 .. N : n = b[j]
      BY <1>2 DEF Image
    <3>2. j - 1 = i - 1
      BY <3>1, <2>2, <1>6
    <3> QED BY <3>1, <3>2, <1>1
  <2> HIDE DEF less
  <2> QED BY <2>1, <2>2
<1> HIDE DEF less
<1>8. ById(notes) = [i \in 1 .. N |-> CHOOSE n \in notes : Cardinality(less(n)) = i - 1]
  BY <1>5 DEF ById, less
<1>9. \A i \in 1 .. N : ById(notes)[i] = b[i]
  BY <1>7, <1>8
<1> QED
  BY <1>1, <1>8, <1>9

LEMMA ListAppend ==
  ASSUME NEW b \in Seq(Note), Rising(b), NEW note \in Note,
         \A n \in ToSet(b) : n.id < note.id
  PROVE  /\ Append(b, note) \in Seq(Note) /\ Len(Append(b, note)) = Len(b) + 1
         /\ Lists(Append(b, note), ToSet(b) \union {note})
<1> DEFINE c == Append(b, note)
<1>1. /\ Len(b) \in Nat /\ DOMAIN b = 1 .. Len(b) /\ \A i \in 1 .. Len(b) : b[i] \in Note
      /\ c \in Seq(Note) /\ Len(c) = Len(b) + 1 /\ DOMAIN c = 1 .. Len(b) + 1
      /\ \A i \in 1 .. Len(b) : c[i] = b[i]
      /\ c[Len(b) + 1] = note
  BY LenProperties, AppendProperties
<1> HIDE DEF c
<1>2. ToSet(c) = ToSet(b) \union {note}
  BY <1>1 DEF ToSet
<1>3. ASSUME NEW i \in DOMAIN c, NEW j \in DOMAIN c, i < j
      PROVE  c[i].id < c[j].id
  <2>1. i \in 1 .. Len(b) /\ (j \in 1 .. Len(b) \/ j = Len(b) + 1)
    BY <1>1, <1>3
  <2>2. CASE j \in 1 .. Len(b)
    BY <2>1, <2>2, <1>1, <1>3 DEF Rising
  <2>3. CASE j = Len(b) + 1
    BY <2>1, <2>3, <1>1 DEF ToSet
  <2> QED BY <2>1, <2>2, <2>3
<1> QED
  BY <1>1, <1>2, <1>3 DEF Lists, Rising, c

(* Without the note at some place, what is left is still in order.         *)
LEMMA ListRemoveAt ==
  ASSUME NEW b \in Seq(Note), Rising(b), NEW i \in DOMAIN b
  PROVE  /\ RemoveAt(b, i) \in Seq(Note) /\ Len(RemoveAt(b, i)) = Len(b) - 1
         /\ Lists(RemoveAt(b, i), ToSet(b) \ {b[i]})
<1> DEFINE n == Len(b)
           c == RemoveAt(b, i)
<1>1. n \in Nat /\ DOMAIN b = 1 .. n /\ i \in 1 .. n /\ \A j \in 1 .. n : b[j] \in Note
  BY LenProperties
<1>2. /\ SubSeq(b, 1, i - 1) \in Seq(Note) /\ Len(SubSeq(b, 1, i - 1)) = i - 1
      /\ \A j \in 1 .. i - 1 : SubSeq(b, 1, i - 1)[j] = b[j]
  <2>1. 1 \in Int /\ i - 1 \in Int /\ \A j \in 1 .. i - 1 : b[j] \in Note
    BY <1>1
  <2>2. /\ SubSeq(b, 1, i - 1) \in Seq(Note)
        /\ Len(SubSeq(b, 1, i - 1)) = IF 1 <= i - 1 THEN i - 1 - 1 + 1 ELSE 0
        /\ \A j \in 1 .. i - 1 - 1 + 1 : SubSeq(b, 1, i - 1)[j] = b[1 + j - 1]
    BY <2>1, SubSeqProperties
  <2> QED BY <2>2, <1>1
<1>3. /\ SubSeq(b, i + 1, n) \in Seq(Note) /\ Len(SubSeq(b, i + 1, n)) = n - i
      /\ \A j \in 1 .. n - i : SubSeq(b, i + 1, n)[j] = b[i + j]
  <2>1. i + 1 \in Int /\ n \in Int /\ \A j \in i + 1 .. n : b[j] \in Note
    BY <1>1
  <2> HIDE DEF n
  <2>2. /\ SubSeq(b, i + 1, n) \in Seq(Note)
        /\ Len(SubSeq(b, i + 1, n)) = IF i + 1 <= n THEN n - (i + 1) + 1 ELSE 0
        /\ \A j \in 1 .. n - (i + 1) + 1 : SubSeq(b, i + 1, n)[j] = b[(i + 1) + j - 1]
    BY <2>1, SubSeqProperties
  <2> QED BY <2>2, <1>1
<1>4. /\ c \in Seq(Note) /\ Len(c) = n - 1 /\ DOMAIN c = 1 .. n - 1
      /\ \A j \in 1 .. n - 1 : c[j] = IF j < i THEN b[j] ELSE b[j + 1]
  <2> HIDE DEF n
  <2>1. c = SubSeq(b, 1, i - 1) \o SubSeq(b, i + 1, n)
    BY DEF RemoveAt, n
  <2> HIDE DEF c
  <2> DEFINE s1 == SubSeq(b, 1, i - 1)
             s2 == SubSeq(b, i + 1, n)
  <2>2. /\ c \in Seq(Note) /\ Len(c) = (i - 1) + (n - i)
        /\ \A j \in 1 .. (i - 1) + (n - i) :
             c[j] = IF j <= i - 1 THEN s1[j] ELSE s2[j - (i - 1)]
    <3>1. s1 \in Seq(Note) /\ Len(s1) = i - 1 /\ s2 \in Seq(Note) /\ Len(s2) = n - i /\ c = s1 \o s2
      BY <2>1, <1>2, <1>3
    <3> HIDE DEF s1, s2
    <3>2. /\ c \in Seq(Note) /\ Len(c) = Len(s1) + Len(s2)
          /\ \A j \in 1 .. Len(s1) + Len(s2) : c[j] = IF j <= Len(s1) THEN s1[j] ELSE s2[j - Len(s1)]
      BY <3>1, ConcatProperties
    <3> QED BY <3>1, <3>2
  <2>3. (i - 1) + (n - i) = n - 1
    BY <1>1
  <2>4. ASSUME NEW j \in 1 .. n - 1
        PROVE  c[j] = IF j < i THEN b[j] ELSE b[j + 1]
    <3>1. CASE j < i
      BY <3>1, <2>2, <2>3, <1>1, <1>2
    <3>2. CASE ~(j < i)
      <4>1. j - (i - 1) \in 1 .. n - i /\ i + (j - (i - 1)) = j + 1
        BY <3>2, <1>1
      <4>2. c[j] = SubSeq(b, i + 1, n)[j - (i - 1)]
        BY <3>2, <2>2, <2>3, <1>1
      <4> QED BY <4>1, <4>2, <1>3, <3>2
    <3> QED BY <3>1, <3>2
  <2>5. DOMAIN c = 1 .. n - 1
    BY <2>2, <2>3, LenProperties
  <2> QED BY <2>2, <2>3, <2>4, <2>5
<1> HIDE DEF c, n
<1>5. ToSet(c) \subseteq ToSet(b) \ {b[i]}
  <2> SUFFICES ASSUME NEW j \in 1 .. n - 1
               PROVE  c[j] \in ToSet(b) /\ c[j] # b[i]
    BY <1>4 DEF ToSet
  <2>1. PICK k \in 1 .. n : k # i /\ c[j] = b[k]
    BY <1>1, <1>4
  <2>2. b[k].id \in Nat /\ b[i].id \in Nat
    BY <1>1 DEF Note
  <2>3. b[k].id # b[i].id
    BY <2>1, <2>2, <1>1 DEF Rising
  <2> QED BY <2>1, <2>3, <1>1 DEF ToSet
<1>6. ToSet(b) \ {b[i]} \subseteq ToSet(c)
  <2> SUFFICES ASSUME NEW k \in 1 .. n, k # i
               PROVE  b[k] \in ToSet(c)
    BY <1>1 DEF ToSet
  <2>1. CASE k < i
    <3>1. k \in 1 .. n - 1 /\ c[k] = b[k]
      BY <2>1, <1>1, <1>4
    <3> QED BY <3>1, <1>4 DEF ToSet
  <2>2. CASE i < k
    <3>1. k - 1 \in 1 .. n - 1 /\ c[k - 1] = b[k]
      BY <2>2, <1>1, <1>4
    <3> QED BY <3>1, <1>4 DEF ToSet
  <2> QED BY <2>1, <2>2, <1>1
<1>7. Rising(c)
  <2> SUFFICES ASSUME NEW j \in 1 .. n - 1, NEW k \in 1 .. n - 1, j < k
               PROVE  c[j].id < c[k].id
    BY <1>4 DEF Rising
  <2>1. PICK j1 \in 1 .. n : c[j] = b[j1] /\ (j1 = j \/ j1 = j + 1) /\ (j1 = j <=> j < i)
    BY <1>1, <1>4
  <2>2. PICK k1 \in 1 .. n : c[k] = b[k1] /\ (k1 = k \/ k1 = k + 1) /\ (k1 = k <=> k < i)
    BY <1>1, <1>4
  <2>3. j1 < k1
    BY <2>1, <2>2, <1>1
  <2> QED BY <2>1, <2>2, <2>3, <1>1 DEF Rising
<1> QED
  BY <1>4, <1>5, <1>6, <1>7 DEF Lists, c, n

(* Without its head, as Vec::retain leaves it when the oldest goes.        *)
LEMMA ListTail ==
  ASSUME NEW b \in Seq(Note), Rising(b), b # <<>>
  PROVE  /\ Tail(b) \in Seq(Note) /\ Len(Tail(b)) = Len(b) - 1
         /\ Head(b) \in ToSet(b) /\ Lists(Tail(b), ToSet(b) \ {Head(b)})
<1>1. Len(b) \in Nat \ {0} /\ DOMAIN b = 1 .. Len(b) /\ 1 \in DOMAIN b /\ Head(b) = b[1]
  BY LenProperties, EmptySeq
<1>2. /\ Tail(b) \in Seq(Note) /\ Len(Tail(b)) = Len(b) - 1
      /\ DOMAIN Tail(b) = 1 .. Len(b) - 1
      /\ \A j \in 1 .. Len(b) - 1 : Tail(b)[j] = b[j + 1]
  <2>1. /\ Tail(b) \in Seq(Note) /\ Len(Tail(b)) = Len(b) - 1
        /\ \A j \in 1 .. Len(Tail(b)) : Tail(b)[j] = b[j + 1]
    BY HeadTailProperties
  <2> QED BY <2>1, LenProperties
<1>3. /\ RemoveAt(b, 1) \in Seq(Note) /\ Len(RemoveAt(b, 1)) = Len(b) - 1
      /\ Lists(RemoveAt(b, 1), ToSet(b) \ {b[1]})
  BY <1>1, ListRemoveAt
<1>4. RemoveAt(b, 1) = Tail(b)
  <2>1. SubSeq(b, 1, 1 - 1) = <<>>
    BY SubSeqEmpty
  <2>2. Tail(b) = SubSeq(b, 2, Len(b))
    BY TailIsSubSeq
  <2>3. <<>> \o Tail(b) = Tail(b)
    BY <1>2, ConcatEmptySeq
  <2> QED BY <2>1, <2>2, <2>3 DEF RemoveAt
<1> QED
  BY <1>1, <1>2, <1>3, <1>4 DEF ToSet

(* With one note replaced by one of the same id.                           *)
LEMMA ListReplace ==
  ASSUME NEW b \in Seq(Note), Rising(b), NEW old \in ToSet(b), NEW new \in Note,
         new.id = old.id,
         NEW c, c = [j \in DOMAIN b |-> IF b[j] = old THEN new ELSE b[j]]
  PROVE  /\ c \in Seq(Note) /\ Len(c) = Len(b)
         /\ Lists(c, (ToSet(b) \ {old}) \union {new})
<1>1. Len(b) \in Nat /\ DOMAIN b = 1 .. Len(b) /\ \A j \in 1 .. Len(b) : b[j] \in Note
  BY LenProperties
<1>2. c \in Seq(Note) /\ Len(c) = Len(b) /\ DOMAIN c = DOMAIN b
  BY <1>1
<1>3. \A j \in DOMAIN b : c[j].id = b[j].id
  BY <1>1
<1>4. Rising(c)
  BY <1>2, <1>3 DEF Rising
<1>5. ToSet(c) = (ToSet(b) \ {old}) \union {new}
  BY <1>2 DEF ToSet
<1> QED
  BY <1>2, <1>4, <1>5 DEF Lists

(* The least-number principle: of the intervals that end in a number of S, *)
(* one includes no other.                                                  *)
LEMMA LeastNumber ==
  ASSUME NEW S \in SUBSET Nat, S # {}
  PROVE  \E m \in S : \A n \in S : m <= n
<1> DEFINE T == {0 .. k : k \in S}
<1>1. T \subseteq FiniteSubsetsOf(Nat) /\ T # {}
  <2>1. ASSUME NEW k \in S PROVE 0 .. k \in FiniteSubsetsOf(Nat)
    <3>1. k \in Int /\ 0 .. k \subseteq Nat
      OBVIOUS
    <3>2. IsFiniteSet(0 .. k)
      BY <3>1, FS_Interval
    <3> QED
      BY <3>1, <3>2 DEF FiniteSubsetsOf
  <2> QED
    BY <2>1
<1>2. PICK x \in T : \A y \in T : <<y, x>> \notin StrictSubsetOrdering(Nat)
  BY <1>1, FS_StrictSubsetOrderingWellFounded, WFMin
<1>3. PICK m \in S : x = 0 .. m
  OBVIOUS
<1>4. ASSUME NEW n \in S, n < m PROVE FALSE
  <2>1. 0 .. n \subseteq 0 .. m /\ m \notin 0 .. n /\ m \in 0 .. m
    BY <1>4
  <2>2. 0 .. n \in SUBSET Nat /\ x \in SUBSET Nat /\ 0 .. n # x
    BY <1>3, <2>1
  <2>3. <<0 .. n, x>> \in StrictSubsetOrdering(Nat)
    BY <1>3, <2>1, <2>2 DEF StrictSubsetOrdering
  <2> QED
    BY <1>2, <2>3
<1> QED
  BY <1>4

LEMMA NotesOfList ==
  ASSUME NEW notes \in Seq(Note)
  PROVE  /\ ToSet(notes) \subseteq Note
         /\ \A n \in ToSet(notes) : n.id \in Nat \ {0} /\ n.serial \in Nat \ {0}
<1>1. ToSet(notes) \subseteq Note
  BY LenProperties DEF ToSet
<1> QED
  BY <1>1 DEF Note

(* Every list of notes has a newest one, and so has what one has seen.     *)
LEMMA Bounded ==
  ASSUME NEW notes \in Seq(Note)
  PROVE  \E b \in Nat : \A n \in ToSet(notes) : n.id <= b
<1> DEFINE id == [i \in 1 .. Len(notes) |-> notes[i].id]
           BoundedTo(k, b) == \A i \in 1 .. k : id[i] <= b
           S == {k \in 0 .. Len(notes) : ~\E b \in Nat : BoundedTo(k, b)}
<1>1. /\ Len(notes) \in Nat /\ DOMAIN notes = 1 .. Len(notes)
      /\ \A i \in 1 .. Len(notes) : id[i] \in Nat /\ id[i] = notes[i].id
  <2>1. Len(notes) \in Nat /\ DOMAIN notes = 1 .. Len(notes)
    BY LenProperties
  <2>2. \A i \in 1 .. Len(notes) : notes[i] \in ToSet(notes)
    BY <2>1 DEF ToSet
  <2> QED BY <2>1, <2>2, NotesOfList
<1> HIDE DEF id
<1>2. S = {}
  <2> SUFFICES ASSUME S # {} PROVE FALSE
    OBVIOUS
  <2>1. S \in SUBSET Nat
    BY <1>1
  <2>2. PICK m \in S : \A k \in S : m <= k
    <3> HIDE DEF S
    <3> QED BY <2>1, LeastNumber
  <2>3. m \in 0 .. Len(notes) /\ ~\E b \in Nat : BoundedTo(m, b)
    BY <2>2
  <2>4. m # 0
    <3>1. BoundedTo(0, 0)
      OBVIOUS
    <3> HIDE DEF BoundedTo
    <3> QED BY <2>3, <3>1
  <2>5. m - 1 \in 0 .. Len(notes) /\ m - 1 \notin S
    <3> HIDE DEF S, BoundedTo
    <3>1. m \in Nat /\ m - 1 < m /\ m - 1 \in 0 .. Len(notes)
      BY <2>3, <2>4, <1>1
    <3>2. ~(m <= m - 1)
      BY <3>1
    <3> QED BY <3>1, <3>2, <2>2
  <2>6. PICK b \in Nat : BoundedTo(m - 1, b)
    <3> HIDE DEF BoundedTo
    <3> QED BY <2>5
  <2> HIDE DEF S
  <2>7. \E c \in Nat : b <= c /\ id[m] <= c
    <3>1. id[m] \in Nat
      BY <2>3, <2>4, <1>1
    <3>2. b <= id[m] \/ id[m] <= b
      BY <3>1
    <3> QED BY <3>1, <3>2
  <2>8. PICK c \in Nat : b <= c /\ id[m] <= c
    BY <2>7
  <2>9. BoundedTo(m, c)
    <3> SUFFICES ASSUME NEW i \in 1 .. m PROVE id[i] <= c
      OBVIOUS
    <3>1. i = m \/ i \in 1 .. m - 1
      BY <2>3
    <3>2. id[i] \in Nat
      BY <2>3, <1>1
    <3> QED BY <3>1, <3>2, <2>6, <2>8
  <2> HIDE DEF BoundedTo
  <2> QED BY <2>3, <2>8, <2>9
<1>3. \E b \in Nat : BoundedTo(Len(notes), b)
  <2>1. Len(notes) \in 0 .. Len(notes)
    BY <1>1
  <2> HIDE DEF BoundedTo
  <2> QED BY <2>1, <1>2
<1> QED
  BY <1>1, <1>3 DEF ToSet

LEMMA MaxOf ==
  ASSUME NEW S \in SUBSET Nat, S # {}, NEW b \in Nat, \A x \in S : x <= b
  PROVE  Max(S) \in Nat /\ Max(S) \in S /\ \A x \in S : x <= Max(S)
<1> DEFINE U == {c \in Nat : \A x \in S : x <= c}
<1>1. U \in SUBSET Nat /\ b \in U
  OBVIOUS
<1>2. PICK m \in U : \A c \in U : m <= c
  <2> HIDE DEF U
  <2> QED BY <1>1, LeastNumber
<1>3. m \in Nat /\ \A x \in S : x <= m
  BY <1>2
<1>4. m \in S
  <2> SUFFICES ASSUME m \notin S PROVE FALSE
    OBVIOUS
  <2>1. \A x \in S : x \in Nat /\ x < m
    BY <1>3
  <2>2. m - 1 \in Nat /\ \A x \in S : x <= m - 1
    <3>1. PICK y \in S : y \in Nat /\ y < m
      BY <2>1
    <3>2. m - 1 \in Nat
      BY <3>1, <1>3
    <3>3. \A x \in Nat : x < m => x <= m - 1
      BY <1>3
    <3> QED BY <3>2, <3>3, <2>1
  <2>3. m - 1 \in U
    BY <2>2
  <2>4. m <= m - 1
    <3> HIDE DEF U
    <3> QED BY <2>3, <1>2
  <2> QED BY <2>4, <1>3
<1>5. \A x \in S : m >= x
  BY <1>3
<1>6. Max(S) \in S /\ \A x \in S : Max(S) >= x
  BY <1>4, <1>5 DEF Max
<1> QED
  BY <1>6

LEMMA NewestSeen ==
  ASSUME NEW notes \in Seq(Note), NEW k \in Nat
  PROVE  LET S == Ids(notes) \union {k}
         IN  /\ Max(S) \in Nat /\ Max(S) \in S
             /\ \A x \in S : x <= Max(S)
<1> DEFINE S == Ids(notes) \union {k}
<1>1. S \in SUBSET Nat /\ S # {}
  BY NotesOfList DEF Ids
<1>2. PICK b \in Nat : \A n \in ToSet(notes) : n.id <= b
  BY Bounded
<1>3. \A x \in S : x \in Nat /\ (x <= b \/ x = k)
  BY <1>1, <1>2 DEF Ids
<1> HIDE DEF S
<1>4. PICK c \in Nat : \A x \in S : x <= c
  <2>1. CASE b <= k
    BY <2>1, <1>3
  <2>2. CASE k <= b
    BY <2>2, <1>3
  <2> QED BY <2>1, <2>2
<1>5. Max(S) \in Nat /\ Max(S) \in S /\ \A x \in S : x <= Max(S)
  BY <1>1, <1>4, MaxOf
<1> QED
  BY <1>5 DEF S

(***************************************************************************)
(* Types.                                                                  *)
(***************************************************************************)
Messages ==
  [t : {"notes"}, space : Boards, notes : Seq(Note)]
    \union {Snapshot(s) : s \in Boards} \union {WelcomeMsg}

(* A member with no session yet has its welcome in front of it; nothing is *)
(* on its way to anyone else.                                              *)
SessionTyped(p) ==
  IF Member(p)
    THEN \/ session[p] \in ChatViews
         \/ session[p] = Null /\ inbox[p] # <<>> /\ Head(inbox[p]) = WelcomeMsg
    ELSE at[p] = Nowhere /\ inbox[p] = <<>> /\ owed[p] = <<>> /\ session[p] = Null

ChatTyped ==
  /\ up \in BOOLEAN /\ crashes \in Nat /\ posts \in Nat /\ nextNoteId \in Nat
  /\ rows \in SUBSET [space : Boards, note : Note]
  /\ boards \in [Boards -> Seq(Note)]
  /\ at \in [Persons -> Boards \union {Nowhere}]
  /\ owed \in [Persons -> {<<>>, <<"notes">>, <<"snapshot", "notes">>}]
  /\ inbox \in [Persons -> Seq(Messages)]
  /\ DOMAIN session = Persons /\ \A p \in Persons : SessionTyped(p)
  /\ chatSeen \in [Persons -> [Boards -> Nat]]
  /\ shown \in [Persons -> SUBSET Nat]

(***************************************************************************)
(* The store.  Ids and serials tell rows apart and agree on their order.   *)
(***************************************************************************)
TableSound(table, limit) ==
  /\ table \in SUBSET [space : Boards, note : Note]
  /\ \A r, q \in table : r.note.id = q.note.id => r = q
  /\ \A r, q \in table : r.note.id < q.note.id <=> r.note.serial < q.note.serial
  /\ \A r \in table : r.note.id <= limit /\ r.note.serial <= limit

(* A board as it is stored: what load_all would make of it.                *)
Stored(s) ==
  /\ Load(rows, s) \in Seq(Note) /\ Len(Load(rows, s)) <= MaxNotes
  /\ Lists(Load(rows, s), NotesIn(rows, s))

StoreInv ==
  /\ TableSound(rows, posts)
  /\ \A s \in Boards : Stored(s)
  /\ \A s \in Boards : boards[s] = IF up THEN Load(rows, s) ELSE <<>>
  /\ up => nextNoteId \in 1 .. posts + 1 /\ \A r \in rows : r.note.id < nextNoteId

(* What every change of a chat comes to: the rows and the board change     *)
(* together, in this chat alone, and the board gains a note only under the *)
(* next id, which is then a new post.                                      *)
Legal(p, table, board, next) ==
  /\ Acts(p)
  /\ posts' \in Nat /\ next - nextNoteId = posts' - posts /\ posts <= posts'
  /\ TableSound(table, posts')
  /\ board \in Seq(Note) /\ Len(board) <= MaxNotes
  /\ Lists(board, NotesIn(table, at[p]))
  /\ \A s \in Boards \ {at[p]} : NotesIn(table, s) = NotesIn(rows, s)
  /\ next \in Nat /\ \A r \in table : r.note.id < next
  /\ \A n \in ToSet(board) :
       \/ \E m \in ToSet(boards[at[p]]) : n.id = m.id /\ n.serial = m.serial
       \/ n.id = nextNoteId /\ n.serial = posts' /\ posts' = posts + 1

Changes(p) ==
  \E table, board, next : Legal(p, table, board, next) /\ Change(p, at[p], table, board, next)

(* Rows of one space given up for others.                                  *)
Swap(s, gone, new) ==
  (rows \ {Row(s, n) : n \in gone}) \union {Row(s, n) : n \in new}

LEMMA RowFields ==
  ASSUME NEW r \in [space : Boards, note : Note]
  PROVE  r = Row(r.space, r.note) /\ r.space \in Boards /\ r.note \in Note
  BY DEF Row

LEMMA SwapNotes ==
  ASSUME rows \in SUBSET [space : Boards, note : Note], NEW s \in Boards,
         NEW gone, NEW new, NEW t \in Boards
  PROVE  NotesIn(Swap(s, gone, new), t) =
           IF t = s THEN (NotesIn(rows, s) \ gone) \union new ELSE NotesIn(rows, t)
<1>1. \A r \in rows : r = Row(r.space, r.note)
  BY RowFields
<1>2. \A u, n : Row(u, n).space = u /\ Row(u, n).note = n
  BY DEF Row
<1>3. \A r \in rows : r \in {Row(s, n) : n \in gone} <=> r.space = s /\ r.note \in gone
  BY <1>1, <1>2
<1>4. \A q : q \in Swap(s, gone, new) <=>
        \/ q \in rows /\ ~(q.space = s /\ q.note \in gone)
        \/ \E n \in new : q = Row(s, n)
  BY <1>3 DEF Swap
<1>5. \A x : x \in NotesIn(Swap(s, gone, new), t) <=>
        \E q \in Swap(s, gone, new) : q.space = t /\ q.note = x
  BY DEF NotesIn
<1>6. \A x, u : x \in NotesIn(rows, u) <=> \E q \in rows : q.space = u /\ q.note = x
  BY DEF NotesIn
<1>7. ASSUME NEW x
      PROVE  x \in NotesIn(Swap(s, gone, new), t) <=>
               IF t = s THEN (x \in NotesIn(rows, s) /\ x \notin gone) \/ x \in new
                        ELSE x \in NotesIn(rows, t)
  <2>1. x \in NotesIn(Swap(s, gone, new), t) <=>
          \/ \E q \in rows : ~(q.space = s /\ q.note \in gone) /\ q.space = t /\ q.note = x
          \/ \E n \in new : s = t /\ n = x
    BY <1>2, <1>4, <1>5
  <2> QED BY <2>1, <1>6
<1> QED
  BY <1>7

(* Rows stay sound when the new note has an id and a serial of its own, in *)
(* the same place among those that stay.                                   *)
LEMMA SwapSound ==
  ASSUME NEW limit \in Nat, posts \in Nat, posts <= limit, TableSound(rows, posts),
         NEW s \in Boards, NEW gone, NEW new \in SUBSET Note,
         \A n, m \in new : n = m,
         \A n \in new : n.id <= limit /\ n.serial <= limit,
         \A n \in new, r \in rows \ {Row(s, g) : g \in gone} :
           \/ r.note.id < n.id /\ r.note.serial < n.serial
           \/ n.id < r.note.id /\ n.serial < r.note.serial
  PROVE  TableSound(Swap(s, gone, new), limit)
<1> DEFINE kept == rows \ {Row(s, g) : g \in gone}
           added == {Row(s, n) : n \in new}
<1>1. kept \in SUBSET [space : Boards, note : Note] /\ kept \subseteq rows
  BY DEF TableSound
<1>2. \A r \in added : r \in [space : Boards, note : Note] /\ r.note \in new
  BY DEF Row
<1>3. \A r, q \in added : r = q
  OBVIOUS
<1>4. Swap(s, gone, new) = kept \union added
  BY DEF Swap
<1>5. \A r \in rows : r.note.id \in Nat /\ r.note.serial \in Nat
  BY DEF TableSound, Note
<1>6. \A n \in new : n.id \in Nat /\ n.serial \in Nat
  BY DEF Note
<1>7. \A r \in kept, q \in added :
        \/ r.note.id < q.note.id /\ r.note.serial < q.note.serial
        \/ q.note.id < r.note.id /\ q.note.serial < r.note.serial
  BY <1>2
<1> HIDE DEF kept, added
<1>8. \A r, q \in kept \union added : r.note.id = q.note.id => r = q
  <2> SUFFICES ASSUME NEW r \in kept \union added, NEW q \in kept \union added,
                      r.note.id = q.note.id
               PROVE  r = q
    OBVIOUS
  <2>1. CASE r \in kept /\ q \in kept
    BY <2>1, <1>1 DEF TableSound
  <2>2. CASE r \in added /\ q \in added
    BY <2>2, <1>3
  <2>3. CASE r \in kept /\ q \in added
    BY <2>3, <1>1, <1>2, <1>5, <1>6, <1>7
  <2>4. CASE r \in added /\ q \in kept
    BY <2>4, <1>1, <1>2, <1>5, <1>6, <1>7
  <2> QED BY <2>1, <2>2, <2>3, <2>4
<1>9. \A r, q \in kept \union added : r.note.id < q.note.id <=> r.note.serial < q.note.serial
  <2> SUFFICES ASSUME NEW r \in kept \union added, NEW q \in kept \union added
               PROVE  r.note.id < q.note.id <=> r.note.serial < q.note.serial
    OBVIOUS
  <2>1. CASE r \in kept /\ q \in kept
    BY <2>1, <1>1 DEF TableSound
  <2>2. CASE r \in added /\ q \in added
    BY <2>2, <1>2, <1>3, <1>6
  <2>3. CASE r \in kept /\ q \in added
    BY <2>3, <1>1, <1>2, <1>5, <1>6, <1>7
  <2>4. CASE r \in added /\ q \in kept
    BY <2>4, <1>1, <1>2, <1>5, <1>6, <1>7
  <2> QED BY <2>1, <2>2, <2>3, <2>4
<1>10. \A r \in kept \union added : r.note.id <= limit /\ r.note.serial <= limit
  <2>1. \A r \in kept : r.note.id <= limit /\ r.note.serial <= limit
    BY <1>1, <1>5 DEF TableSound
  <2> QED BY <2>1, <1>2
<1>11. kept \union added \in SUBSET [space : Boards, note : Note]
  BY <1>1, <1>2
<1> QED
  BY <1>4, <1>8, <1>9, <1>10, <1>11 DEF TableSound

LEMMA BoardStored ==
  ASSUME StoreInv, up, NEW s \in Boards
  PROVE  /\ boards[s] = Load(rows, s) /\ boards[s] \in Seq(Note)
         /\ Len(boards[s]) <= MaxNotes /\ Rising(boards[s])
         /\ ToSet(boards[s]) = NotesIn(rows, s)
         /\ nextNoteId \in 1 .. posts + 1
         /\ \A r \in rows : r.note.id < nextNoteId
  BY DEF StoreInv, Stored, Lists

LEMMA RowOfNote ==
  ASSUME TableSound(rows, posts), NEW s, NEW n \in NotesIn(rows, s)
  PROVE  Row(s, n) \in rows /\ n \in Note
  BY RowFields DEF TableSound, NotesIn

LEMMA ActsWhere ==
  ASSUME ChatTyped, NEW p \in Persons, Acts(p)
  PROVE  up /\ at[p] \in Boards /\ owed[p] = <<>>
  BY DEF Acts, Member, ChatTyped

LEMMA PostChanges ==
  ASSUME ChatTyped, StoreInv, NEW p \in Persons, PostNote(p)
  PROVE  Changes(p)
<1> DEFINE s == at[p]
           note == [id |-> nextNoteId, by |-> p, serial |-> posts', liked |-> {}]
           gone == Overflow(s)
           table == (rows \ {Row(s, n) : n \in gone}) \union {Row(s, note)}
           board == Append(Kept(s), note)
<1>1. Acts(p) /\ posts' = posts + 1 /\ Change(p, s, table, board, nextNoteId + 1)
  BY DEF PostNote
<1>2. up /\ s \in Boards /\ posts \in Nat
  BY <1>1, ActsWhere DEF ChatTyped
<1>3. /\ boards[s] \in Seq(Note) /\ Len(boards[s]) <= MaxNotes /\ Rising(boards[s])
      /\ ToSet(boards[s]) = NotesIn(rows, s)
      /\ nextNoteId \in 1 .. posts + 1 /\ \A r \in rows : r.note.id < nextNoteId
  <2> HIDE DEF s
  <2> QED BY <1>2, BoardStored
<1>4. note \in Note /\ note.id = nextNoteId /\ note.serial = posts'
  <2>1. nextNoteId \in Nat \ {0} /\ posts' \in Nat \ {0}
    BY <1>1, <1>2, <1>3
  <2> QED BY <2>1 DEF Note
<1> HIDE DEF note
<1>5. MaxNotes \in Nat \ {0} /\ Len(boards[s]) \in Nat
  BY <1>3, LenProperties, ChatAssumption DEF ChatAssumption
<1>6. /\ Kept(s) \in Seq(Note) /\ Len(Kept(s)) < MaxNotes
      /\ Lists(Kept(s), ToSet(boards[s]) \ gone) /\ gone \subseteq ToSet(boards[s])
  <2> HIDE DEF s
  <2>1. CASE Len(boards[s]) >= MaxNotes
    <3>1. boards[s] # <<>>
      BY <2>1, <1>5
    <3>2. /\ Tail(boards[s]) \in Seq(Note) /\ Len(Tail(boards[s])) = Len(boards[s]) - 1
          /\ Head(boards[s]) \in ToSet(boards[s])
          /\ Lists(Tail(boards[s]), ToSet(boards[s]) \ {Head(boards[s])})
      BY <3>1, <1>3, ListTail
    <3>3. Kept(s) = Tail(boards[s]) /\ gone = {Head(boards[s])}
      BY <2>1 DEF Kept, Overflow
    <3>4. Len(Tail(boards[s])) < MaxNotes
      BY <3>2, <1>3, <1>5
    <3> HIDE DEF gone
    <3> QED BY <3>2, <3>3, <3>4
  <2>2. CASE ~(Len(boards[s]) >= MaxNotes)
    <3>1. Kept(s) = boards[s] /\ gone = {}
      BY <2>2 DEF Kept, Overflow
    <3>2. Len(boards[s]) < MaxNotes
      BY <2>2, <1>5
    <3> QED BY <3>1, <3>2, <1>3 DEF Lists
  <2> QED BY <2>1, <2>2
<1>7. \A n \in NotesIn(rows, s) : n.id < note.id /\ Row(s, n) \in rows
  <2> HIDE DEF s
  <2>1. \A n \in NotesIn(rows, s) : Row(s, n) \in rows
    BY RowOfNote DEF StoreInv
  <2>2. \A n : Row(s, n).note = n
    BY DEF Row
  <2> QED BY <2>1, <2>2, <1>3, <1>4
<1>8. /\ board \in Seq(Note) /\ Len(board) <= MaxNotes
      /\ Lists(board, (NotesIn(rows, s) \ gone) \union {note})
  <2> HIDE DEF gone, s
  <2>1. ToSet(Kept(s)) = NotesIn(rows, s) \ gone /\ Rising(Kept(s))
    BY <1>3, <1>6 DEF Lists
  <2>2. \A n \in ToSet(Kept(s)) : n.id < note.id
    BY <2>1, <1>7
  <2>3. /\ board \in Seq(Note) /\ Len(board) = Len(Kept(s)) + 1
        /\ Lists(board, ToSet(Kept(s)) \union {note})
    BY <2>1, <2>2, <1>4, <1>6, ListAppend
  <2>4. Len(Kept(s)) \in Nat
    BY <1>6, LenProperties
  <2> QED BY <2>1, <2>3, <2>4, <1>5, <1>6
<1>9. table = Swap(s, gone, {note})
  BY DEF Swap
<1> HIDE DEF board
<1>10. /\ NotesIn(table, s) = (NotesIn(rows, s) \ gone) \union {note}
       /\ \A t \in Boards \ {s} : NotesIn(table, t) = NotesIn(rows, t)
  <2> HIDE DEF gone, table, s
  <2> QED BY <1>2, <1>9, SwapNotes DEF StoreInv, TableSound
<1>11. TableSound(table, posts')
  <2> HIDE DEF gone, table, s
  <2>1. posts' \in Nat /\ posts <= posts' /\ TableSound(rows, posts)
    BY <1>1, <1>2 DEF StoreInv
  <2>2. {note} \in SUBSET Note /\ \A n, m \in {note} : n = m
    BY <1>4
  <2>3. \A n \in {note} : n.id <= posts' /\ n.serial <= posts'
    BY <1>1, <1>2, <1>3, <1>4
  <2>4. \A r \in rows : r.note.id < note.id /\ r.note.serial < note.serial
    <3>1. \A r \in rows : r.note.serial \in Nat /\ r.note.serial <= posts
      BY <2>1 DEF TableSound, Note
    <3> QED BY <3>1, <1>1, <1>2, <1>3, <1>4
  <2>5. TableSound(Swap(s, gone, {note}), posts')
    BY <2>1, <2>2, <2>3, <2>4, <1>2, SwapSound
  <2> QED BY <2>5, <1>9
<1>12. nextNoteId + 1 \in Nat /\ \A r \in table : r.note.id < nextNoteId + 1
  <2>1. \A r \in table : r \in rows \/ r = Row(s, note)
    OBVIOUS
  <2>2. Row(s, note).note = note
    BY DEF Row
  <2>3. \A r \in rows : r.note.id \in Nat
    BY DEF StoreInv, TableSound, Note
  <2> HIDE DEF table
  <2> QED BY <2>1, <2>2, <2>3, <1>3, <1>4
<1>13. \A n \in ToSet(board) :
         \/ \E m \in ToSet(boards[s]) : n.id = m.id /\ n.serial = m.serial
         \/ n.id = nextNoteId /\ n.serial = posts' /\ posts' = posts + 1
  <2>1. \A n \in ToSet(board) : n \in ToSet(boards[s]) \/ n = note
    BY <1>3, <1>8 DEF Lists
  <2> QED BY <2>1, <1>1, <1>4
<1>14. posts' \in Nat /\ (nextNoteId + 1) - nextNoteId = posts' - posts /\ posts <= posts'
  BY <1>1, <1>2, <1>3
<1>15. Lists(board, NotesIn(table, s))
  BY <1>8, <1>10
<1> HIDE DEF table, gone
<1>16. Legal(p, table, board, nextNoteId + 1)
  BY <1>1, <1>8, <1>10, <1>11, <1>12, <1>13, <1>14, <1>15 DEF Legal
<1> QED
  BY <1>1, <1>16 DEF Changes

LEMMA RemoveChanges ==
  ASSUME ChatTyped, StoreInv, NEW p \in Persons, NEW id, RemoveNote(p, id)
  PROVE  Changes(p)
<1> DEFINE s == at[p]
<1>1. Acts(p) /\ posts' = posts
  BY DEF RemoveNote, Picks
<1>2. PICK i \in DOMAIN boards[s] :
        Change(p, s, rows \ {Row(s, boards[s][i])}, RemoveAt(boards[s], i), nextNoteId)
  BY DEF RemoveNote
<1> DEFINE note == boards[s][i]
           board == RemoveAt(boards[s], i)
           table == rows \ {Row(s, note)}
<1>3. up /\ s \in Boards /\ posts \in Nat
  BY <1>1, ActsWhere DEF ChatTyped
<1> HIDE DEF s
<1>4. /\ boards[s] \in Seq(Note) /\ Len(boards[s]) <= MaxNotes /\ Rising(boards[s])
      /\ ToSet(boards[s]) = NotesIn(rows, s)
      /\ nextNoteId \in 1 .. posts + 1 /\ \A r \in rows : r.note.id < nextNoteId
  BY <1>3, BoardStored
<1>5. MaxNotes \in Nat /\ Len(boards[s]) \in Nat
  BY <1>4, LenProperties, ChatAssumption DEF ChatAssumption
<1>6. /\ board \in Seq(Note) /\ Len(board) = Len(boards[s]) - 1
      /\ Lists(board, ToSet(boards[s]) \ {note})
  BY <1>4, ListRemoveAt
<1>7. table = Swap(s, {note}, {})
  BY DEF Swap
<1> HIDE DEF note, board, table
<1>8. /\ NotesIn(table, s) = (NotesIn(rows, s) \ {note}) \union {}
      /\ \A t \in Boards \ {s} : NotesIn(table, t) = NotesIn(rows, t)
  BY <1>3, <1>7, SwapNotes DEF StoreInv, TableSound
<1>9. TableSound(table, posts')
  <2>1. posts' \in Nat /\ posts <= posts' /\ TableSound(rows, posts)
    BY <1>1, <1>3 DEF StoreInv
  <2>2. TableSound(Swap(s, {note}, {}), posts')
    BY <2>1, <1>3, SwapSound
  <2> QED BY <2>2, <1>7
<1>10. nextNoteId \in Nat /\ \A r \in table : r.note.id < nextNoteId
  BY <1>4 DEF table
<1>11. Lists(board, NotesIn(table, s)) /\ ToSet(board) \subseteq ToSet(boards[s])
  BY <1>4, <1>6, <1>8 DEF Lists
<1>12. Len(board) <= MaxNotes
  BY <1>4, <1>5, <1>6
<1>13. posts' \in Nat /\ nextNoteId - nextNoteId = posts' - posts /\ posts <= posts'
  BY <1>1, <1>3, <1>4
<1>14. Legal(p, table, board, nextNoteId)
  BY <1>1, <1>6, <1>8, <1>9, <1>10, <1>11, <1>12, <1>13 DEF Legal, s
<1> QED
  BY <1>2, <1>14 DEF Changes, s, table, board, note

(* A reaction takes the note's row for one that is the same but for who    *)
(* likes it.                                                               *)
LEMMA ReactChanges ==
  ASSUME ChatTyped, StoreInv, NEW p \in Persons, NEW id, React(p, id)
  PROVE  Changes(p)
<1> DEFINE s == at[p]
<1>1. Acts(p) /\ posts' = posts
  BY DEF React, Picks
<1>2. PICK note \in Find(s, id) :
        Change(p, s, ReactionRows(rows, s, note, p),
          [i \in DOMAIN boards[s] |->
             IF boards[s][i] = note THEN Toggled(note, p) ELSE boards[s][i]],
          nextNoteId)
  BY DEF React
<1> DEFINE board == [i \in DOMAIN boards[s] |->
                       IF boards[s][i] = note THEN Toggled(note, p) ELSE boards[s][i]]
           table == ReactionRows(rows, s, note, p)
           new == Toggled(note, p)
<1>3. up /\ s \in Boards /\ posts \in Nat
  BY <1>1, ActsWhere DEF ChatTyped
<1> HIDE DEF s
<1>4. /\ boards[s] \in Seq(Note) /\ Len(boards[s]) <= MaxNotes /\ Rising(boards[s])
      /\ ToSet(boards[s]) = NotesIn(rows, s)
      /\ nextNoteId \in 1 .. posts + 1 /\ \A r \in rows : r.note.id < nextNoteId
  BY <1>3, BoardStored
<1>5. note \in ToSet(boards[s]) /\ note \in Note /\ Row(s, note) \in rows
  BY <1>4, RowOfNote DEF Find, StoreInv
<1>6. new \in Note /\ new.id = note.id /\ new.serial = note.serial
  BY <1>5 DEF Toggled, Note
<1>7. /\ board \in Seq(Note) /\ Len(board) = Len(boards[s])
      /\ Lists(board, (ToSet(boards[s]) \ {note}) \union {new})
  <2> HIDE DEF new
  <2>1. board = [i \in DOMAIN boards[s] |-> IF boards[s][i] = note THEN new ELSE boards[s][i]]
    BY DEF new
  <2> HIDE DEF board
  <2> QED BY <2>1, <1>4, <1>5, <1>6, ListReplace
<1>8. table = Swap(s, {note}, {new})
  <2> DEFINE on == p \notin note.liked
             changed == [Row(s, note) EXCEPT !.note.liked =
                           IF on THEN @ \union {p} ELSE @ \ {p}]
  <2>1. changed = Row(s, new)
    BY <1>5 DEF Row, Toggled, Note
  <2>2. table = {IF r = Row(s, note) THEN changed ELSE r : r \in rows}
    BY DEF ReactionRows
  <2> HIDE DEF changed, table, new
  <2> QED BY <2>1, <2>2, <1>5 DEF Swap
<1> HIDE DEF board, table, new
<1>9. /\ NotesIn(table, s) = (NotesIn(rows, s) \ {note}) \union {new}
      /\ \A t \in Boards \ {s} : NotesIn(table, t) = NotesIn(rows, t)
  BY <1>3, <1>8, SwapNotes DEF StoreInv, TableSound
<1>10. TableSound(table, posts')
  <2>1. posts' \in Nat /\ posts <= posts' /\ TableSound(rows, posts)
    BY <1>1, <1>3 DEF StoreInv
  <2>2. {new} \in SUBSET Note /\ \A n, m \in {new} : n = m
    BY <1>6
  <2>3. /\ note.id <= posts' /\ note.serial <= posts'
        /\ Row(s, note).note = note
    BY <2>1, <1>1, <1>5 DEF TableSound, Row
  <2>4. \A n \in {new} : n.id <= posts' /\ n.serial <= posts'
    BY <2>3, <1>6
  <2>5. ASSUME NEW r \in rows \ {Row(s, g) : g \in {note}}
        PROVE  \/ r.note.id < new.id /\ r.note.serial < new.serial
               \/ new.id < r.note.id /\ new.serial < r.note.serial
    <3>1. r.note.id # note.id
      BY <2>1, <2>3, <1>5 DEF TableSound
    <3>2. r.note.id \in Nat /\ r.note.serial \in Nat /\ note.id \in Nat /\ note.serial \in Nat
      BY <2>1, <1>5 DEF TableSound, Note
    <3>3. /\ r.note.id < note.id <=> r.note.serial < note.serial
          /\ note.id < r.note.id <=> note.serial < r.note.serial
      BY <2>1, <2>3, <1>5 DEF TableSound
    <3> QED BY <3>1, <3>2, <3>3, <1>6
  <2>6. TableSound(Swap(s, {note}, {new}), posts')
    BY <2>1, <2>2, <2>4, <2>5, <1>3, SwapSound
  <2> QED BY <2>6, <1>8
<1>11. nextNoteId \in Nat /\ \A r \in table : r.note.id < nextNoteId
  <2>1. Row(s, note).note = note /\ Row(s, new).note = new
    BY DEF Row
  <2>2. \A r \in table : r \in rows \/ r = Row(s, new)
    BY <1>8 DEF Swap
  <2> QED BY <2>1, <2>2, <1>4, <1>5, <1>6
<1>12. /\ Lists(board, NotesIn(table, s))
       /\ \A n \in ToSet(board) : \E m \in ToSet(boards[s]) : n.id = m.id /\ n.serial = m.serial
  BY <1>4, <1>5, <1>6, <1>7, <1>9 DEF Lists
<1>13. posts' \in Nat /\ nextNoteId - nextNoteId = posts' - posts /\ posts <= posts'
  BY <1>1, <1>3, <1>4
<1>14. Len(board) <= MaxNotes
  BY <1>4, <1>7
<1>15. Legal(p, table, board, nextNoteId)
  BY <1>1, <1>7, <1>9, <1>10, <1>11, <1>12, <1>13, <1>14 DEF Legal, s
<1> QED
  BY <1>2, <1>15 DEF Changes, s, table, board

(***************************************************************************)
(* Steps that change no chat.                                              *)
(***************************************************************************)
Quiet(p) ==
  \/ ChatJoin(p) \/ ChatLeave(p) \/ Owed(p) \/ Handle(p) \/ OpenChat(p) \/ CloseChat(p)
  \/ \E s \in Boards : ChatEnter(p, s)
  \/ \E id \in 1 .. MaxPosts : Resend(p, id)

LEMMA StepCases ==
  ASSUME ChatTyped, StoreInv, ChatNext
  PROVE  \/ \E p \in Persons : Changes(p) \/ Quiet(p)
         \/ Crash \/ Restart
<1>1. ASSUME NEW p \in Persons, PostNote(p) PROVE Changes(p)
  BY <1>1, PostChanges
<1>2. ASSUME NEW p \in Persons, NEW id, RemoveNote(p, id) PROVE Changes(p)
  BY <1>2, RemoveChanges
<1>3. ASSUME NEW p \in Persons, NEW id, React(p, id) PROVE Changes(p)
  BY <1>3, ReactChanges
<1> QED
  BY <1>1, <1>2, <1>3 DEF ChatNext, Quiet

LEMMA QuietServer ==
  ASSUME NEW p \in Persons, Quiet(p)
  PROVE  UNCHANGED <<up, crashes, posts, boards, nextNoteId, rows>>
BY DEF Quiet, ChatJoin, ChatLeave, Owed, Handle, OpenChat, CloseChat, ChatEnter, Resend, serverVars

LEMMA StoreKept ==
  ASSUME StoreInv, UNCHANGED <<up, posts, boards, nextNoteId, rows>>
  PROVE  StoreInv'
<1>1. \A s \in Boards : Load(rows, s)' = Load(rows, s) /\ NotesIn(rows, s)' = NotesIn(rows, s)
  OBVIOUS
<1>2. \A s \in Boards : Stored(s)'
  BY DEF StoreInv, Stored
<1> QED
  BY <1>2 DEF StoreInv

(* A change whose rows and board fit keeps every board as it is stored,    *)
(* whether memory follows or the server goes down first.                   *)
LEMMA StoreChanged ==
  ASSUME ChatTyped, StoreInv, NEW p \in Persons, Changes(p)
  PROVE  StoreInv'
<1>1. PICK table, board, next :
        Legal(p, table, board, next) /\ Change(p, at[p], table, board, next)
  BY DEF Changes
<1> DEFINE s == at[p]
<1>2. up /\ s \in Boards /\ posts \in Nat /\ boards \in [Boards -> Seq(Note)]
  BY <1>1, ActsWhere DEF Legal, ChatTyped
<1>3. rows' = table /\ (Commit(p, s, board, next) \/ Down)
  BY <1>1 DEF Change
<1>4. TableSound(rows', posts')
  BY <1>1, <1>3 DEF Legal
<1> HIDE DEF s
<1>5. board = Load(table, s) /\ Lists(board, NotesIn(table, s))
  BY <1>1, ListIsById DEF Legal, Load, s
<1>6. \A t \in Boards \ {s} : NotesIn(table, t) = NotesIn(rows, t) /\ Load(table, t) = Load(rows, t)
  BY <1>1 DEF Legal, Load, s
<1>7. ASSUME NEW t \in Boards
      PROVE  /\ Load(table, t) \in Seq(Note) /\ Len(Load(table, t)) <= MaxNotes
             /\ Lists(Load(table, t), NotesIn(table, t))
  <2>1. CASE t = s
    BY <2>1, <1>1, <1>5 DEF Legal
  <2>2. CASE t # s
    BY <2>2, <1>6 DEF StoreInv, Stored
  <2> QED BY <2>1, <2>2
<1>8. \A t \in Boards : Stored(t)'
  BY <1>3, <1>7 DEF Stored
<1>9. CASE Commit(p, s, board, next)
  <2>1. up' = up /\ nextNoteId' = next /\ boards' = [boards EXCEPT ![s] = board]
    BY <1>9 DEF Commit
  <2>2. \A t \in Boards : boards'[t] = IF t = s THEN board ELSE boards[t]
    BY <2>1, <1>2
  <2>3. \A t \in Boards : boards'[t] = Load(table, t)
    BY <2>2, <1>2, <1>5, <1>6 DEF StoreInv
  <2>4. nextNoteId' \in 1 .. posts' + 1 /\ \A r \in rows' : r.note.id < nextNoteId'
    <3>1. nextNoteId \in 1 .. posts + 1
      BY <1>2 DEF StoreInv
    <3>2. /\ posts' \in Nat /\ next - nextNoteId = posts' - posts /\ posts <= posts'
          /\ next \in Nat /\ \A r \in table : r.note.id < next
      BY <1>1 DEF Legal
    <3>3. next \in 1 .. posts' + 1
      BY <3>1, <3>2, <1>2
    <3> QED BY <3>2, <3>3, <2>1, <1>3
  <2> QED BY <1>3, <1>4, <1>8, <2>1, <2>3, <2>4, <1>2 DEF StoreInv
<1>10. CASE Down
  <2>1. up' = FALSE /\ boards' = [t \in Boards |-> <<>>]
    BY <1>10 DEF Down
  <2> QED BY <1>4, <1>8, <2>1 DEF StoreInv
<1> QED
  BY <1>3, <1>9, <1>10

LEMMA StoreNext ==
  ASSUME ChatTyped, StoreInv, [ChatNext]_chatVars
  PROVE  StoreInv'
<1>1. ASSUME NEW p \in Persons, Changes(p) PROVE StoreInv'
  BY <1>1, StoreChanged
<1>2. ASSUME NEW p \in Persons, Quiet(p) PROVE StoreInv'
  BY <1>2, QuietServer, StoreKept
<1>3. CASE Crash
  <2>1. up' = FALSE /\ boards' = [s \in Boards |-> <<>>] /\ rows' = rows /\ posts' = posts
    BY <1>3 DEF Crash, Down
  <2>2. \A s \in Boards : Stored(s)'
    BY <2>1 DEF StoreInv, Stored
  <2> QED BY <2>1, <2>2 DEF StoreInv
<1>4. CASE Restart
  <2>1. /\ up' = TRUE /\ boards' = [s \in Boards |-> Load(rows, s)]
        /\ nextNoteId' = NextId(rows) /\ rows' = rows /\ posts' = posts
    BY <1>4 DEF Restart
  <2>2. \A s \in Boards : Stored(s)'
    BY <2>1 DEF StoreInv, Stored
  <2> DEFINE S == {r.note.id : r \in rows} \union {0}
  <2>3. posts \in Nat /\ S \in SUBSET Nat /\ S # {} /\ \A x \in S : x <= posts
    BY DEF ChatTyped, StoreInv, TableSound, Note
  <2>4. Max(S) \in Nat /\ Max(S) \in S /\ \A x \in S : x <= Max(S)
    <3> HIDE DEF S
    <3> QED BY <2>3, MaxOf
  <2>5. NextId(rows) = Max(S) + 1
    BY DEF NextId
  <2>6. NextId(rows) \in 1 .. posts + 1 /\ \A x \in S : x < NextId(rows)
    <3> HIDE DEF S
    <3> QED BY <2>3, <2>4, <2>5
  <2>7. \A r \in rows : r.note.id < NextId(rows)
    BY <2>6
  <2> HIDE DEF S
  <2> QED BY <2>1, <2>2, <2>6, <2>7 DEF StoreInv
<1>5. CASE UNCHANGED chatVars
  BY <1>5, StoreKept DEF chatVars
<1> QED
  BY <1>1, <1>2, <1>3, <1>4, <1>5, StepCases

(***************************************************************************)
(* The client.                                                             *)
(***************************************************************************)
LEMMA MessageFields ==
  ASSUME NEW m \in Messages
  PROVE  /\ m.space \in Boards
         /\ m.t = "notes" => m.notes \in Seq(Note) /\ m = Notes(m.space, m.notes)
         /\ m.t # "notes" => m = WelcomeMsg \/ m = Snapshot(m.space)
         /\ m = WelcomeMsg => m.t = "welcome"
BY ChatAssumption DEF Messages, Notes, Snapshot, WelcomeMsg, ChatAssumption

LEMMA NotesMessage ==
  ASSUME NEW s \in Boards, NEW b \in Seq(Note)
  PROVE  /\ Notes(s, b) \in Messages /\ Notes(s, b).t = "notes"
         /\ Notes(s, b).space = s /\ Notes(s, b).notes = b
BY DEF Notes, Messages

LEMMA SpaceMessage ==
  ASSUME NEW s \in Boards
  PROVE  /\ Snapshot(s) \in Messages /\ Snapshot(s).t = "snapshot" /\ Snapshot(s).space = s
         /\ WelcomeMsg \in Messages /\ WelcomeMsg.t = "welcome" /\ WelcomeMsg.space = LobbyBoard
BY DEF Snapshot, WelcomeMsg, Messages

(* What handling a message does to the session: one of a space replaces    *)
(* it, notes of the space replace its notes, other notes change nothing.   *)
LEMMA HandleEffect ==
  ASSUME ChatTyped, NEW p \in Persons, Handle(p)
  PROVE  LET m == Head(inbox[p])
         IN  /\ m \in Messages
             /\ DOMAIN session' = Persons
             /\ \A q \in Persons \ {p} : session'[q] = session[q]
             /\ \/ /\ m.t = "notes" /\ session[p] \in ChatViews
                   /\ m.space # session[p].space /\ UNCHANGED clientVars
                \/ /\ m.t = "notes" /\ session[p] \in ChatViews
                   /\ m.space = session[p].space
                   /\ \E view \in ChatViews :
                        /\ view.space = m.space /\ view.notes = m.notes
                        /\ view.open = session[p].open
                        /\ view.seenId = IF session[p].notes = Null THEN chatSeen[p][m.space]
                                                                  ELSE session[p].seenId
                        /\ IF view.open THEN Read(p, view) ELSE Keep(p, view)
                \/ /\ m.t # "notes"
                   /\ session'[p] \in ChatViews
                   /\ session'[p].space = m.space /\ session'[p].notes = Null
                   /\ UNCHANGED <<chatSeen, shown>>
<1> DEFINE m == Head(inbox[p])
<1>1. inbox[p] \in Seq(Messages) /\ inbox[p] # <<>> /\ DOMAIN session = Persons
  BY DEF ChatTyped, Handle
<1>2. m \in Messages
  BY <1>1, HeadTailProperties
<1>3. session[p] \in ChatViews \/ m = WelcomeMsg
  BY <1>1 DEF ChatTyped, SessionTyped
<1> HIDE DEF m
<1>4. CASE m.t = "notes"
  <2>1. HandleNotes(p, m)
    BY <1>4 DEF Handle, m
  <2>2. session[p] \in ChatViews
    BY <1>2, <1>3, <1>4, MessageFields
  <2>3. m.space \in Boards /\ m.notes \in Seq(Note)
    BY <1>2, <1>4, MessageFields
  <2>4. CASE m.space # session[p].space
    <3>1. UNCHANGED clientVars
      BY <2>1, <2>4 DEF HandleNotes
    <3> QED BY <1>1, <1>2, <1>4, <2>2, <2>4, <3>1 DEF clientVars, m
  <2>5. CASE m.space = session[p].space
    <3> DEFINE old == session[p]
               view == [old EXCEPT !.notes = m.notes,
                          !.seenId = IF old.notes = Null THEN SeenBefore(p, m) ELSE @]
    <3>1. chatSeen[p][m.space] \in Nat
      BY <2>3 DEF ChatTyped
    <3>2. /\ view \in ChatViews /\ view.space = m.space /\ view.notes = m.notes
          /\ view.open = old.open
          /\ view.seenId = IF old.notes = Null THEN chatSeen[p][m.space] ELSE old.seenId
      BY <2>2, <2>3, <2>5, <3>1 DEF ChatViews, SeenBefore
    <3>3. IF view.open THEN Read(p, view) ELSE Keep(p, view)
      BY <2>1, <2>5 DEF HandleNotes
    <3> HIDE DEF view
    <3>4. DOMAIN session' = Persons /\ \A q \in Persons \ {p} : session'[q] = session[q]
      BY <3>3, <1>1 DEF Read, Keep
    <3> QED BY <1>2, <1>4, <2>2, <2>5, <3>2, <3>3, <3>4 DEF m
  <2> QED BY <2>4, <2>5
<1>5. CASE m.t # "notes"
  <2>1. HandleSpace(p, m)
    BY <1>5 DEF Handle, m
  <2> DEFINE view == [space |-> m.space, notes |-> Null,
                      open |-> IF m.t = "welcome" THEN FALSE ELSE session[p].open,
                      seenId |-> IF m.t = "welcome" THEN 0 ELSE session[p].seenId]
  <2>2. Keep(p, view)
    BY <2>1 DEF HandleSpace
  <2>3. m.space \in Boards /\ (m.t = "welcome" \/ session[p] \in ChatViews)
    BY <1>2, <1>3, MessageFields
  <2>4. view \in ChatViews /\ view.space = m.space /\ view.notes = Null
    BY <2>3 DEF ChatViews
  <2> HIDE DEF view
  <2>5. /\ DOMAIN session' = Persons /\ session'[p] = view
        /\ \A q \in Persons \ {p} : session'[q] = session[q]
        /\ UNCHANGED <<chatSeen, shown>>
    BY <2>2, <1>1 DEF Keep
  <2> QED BY <1>2, <1>5, <2>4, <2>5 DEF m
<1> QED
  BY <1>4, <1>5

LEMMA ReadEffect ==
  ASSUME ChatTyped, NEW p \in Persons, NEW view \in ChatViews, view.notes \in Seq(Note),
         Read(p, view)
  PROVE  \E newest \in Nat :
           /\ newest \in Ids(view.notes) \union {view.seenId}
           /\ \A x \in Ids(view.notes) \union {view.seenId} : x <= newest
           /\ session'[p] \in ChatViews
           /\ session'[p].space = view.space /\ session'[p].notes = view.notes
           /\ session'[p].seenId = newest
           /\ chatSeen' = [chatSeen EXCEPT ![p][view.space] = newest]
           /\ shown' = [shown EXCEPT ![p] = @ \union Serials(view.notes)]
<1> DEFINE S == Ids(view.notes) \union {view.seenId}
           newest == Max(S)
<1>1. view.seenId \in Nat
  BY DEF ChatViews
<1>2. newest \in Nat /\ newest \in S /\ \A x \in S : x <= newest
  BY <1>1, NewestSeen
<1>3. /\ session' = [session EXCEPT ![p] = [view EXCEPT !.seenId = newest]]
      /\ chatSeen' = [chatSeen EXCEPT ![p][view.space] = newest]
      /\ shown' = [shown EXCEPT ![p] = @ \union Serials(view.notes)]
  BY DEF Read
<1> HIDE DEF newest
<1>4. session'[p] = [view EXCEPT !.seenId = newest]
  BY <1>3 DEF ChatTyped
<1>5. /\ session'[p] \in ChatViews
      /\ session'[p].space = view.space /\ session'[p].notes = view.notes
      /\ session'[p].seenId = newest
  BY <1>2, <1>4 DEF ChatViews
<1> QED
  BY <1>2, <1>3, <1>5

LEMMA KeepEffect ==
  ASSUME ChatTyped, NEW p \in Persons, NEW view, Keep(p, view)
  PROVE  session'[p] = view /\ chatSeen' = chatSeen /\ shown' = shown
BY DEF Keep, ChatTyped

(* The marks stay numbers, the shown serials stay serials.                 *)
LEMMA ReadTyped ==
  ASSUME ChatTyped, NEW p \in Persons, NEW view \in ChatViews, view.notes \in Seq(Note),
         Read(p, view)
  PROVE  /\ chatSeen' \in [Persons -> [Boards -> Nat]] /\ shown' \in [Persons -> SUBSET Nat]
         /\ session'[p] \in ChatViews
<1>1. PICK newest \in Nat :
        /\ session'[p] \in ChatViews
        /\ chatSeen' = [chatSeen EXCEPT ![p][view.space] = newest]
        /\ shown' = [shown EXCEPT ![p] = @ \union Serials(view.notes)]
  BY ReadEffect
<1>2. chatSeen' \in [Persons -> [Boards -> Nat]]
  <2>1. chatSeen \in [Persons -> [Boards -> Nat]]
    BY DEF ChatTyped
  <2> QED BY <1>1, <2>1
<1>3. Serials(view.notes) \subseteq Nat
  BY NotesOfList DEF Serials
<1>4. shown' \in [Persons -> SUBSET Nat]
  BY <1>1, <1>3 DEF ChatTyped
<1> QED
  BY <1>1, <1>2, <1>4

Rests(q) ==
  at'[q] = at[q] /\ inbox'[q] = inbox[q] /\ owed'[q] = owed[q] /\ session'[q] = session[q]

(* A quiet step is one person's.                                           *)
LEMMA QuietOthers ==
  ASSUME ChatTyped, NEW p \in Persons, Quiet(p), NEW q \in Persons \ {p}
  PROVE  Rests(q)
<1>1. DOMAIN at = Persons /\ DOMAIN inbox = Persons /\ DOMAIN owed = Persons /\ DOMAIN session = Persons
  BY DEF ChatTyped
<1>2. CASE ChatJoin(p)
  BY <1>1, <1>2 DEF ChatJoin, Rests, clientVars
<1>3. CASE ChatLeave(p)
  BY <1>1, <1>3 DEF ChatLeave, Rests
<1>4. CASE Owed(p)
  BY <1>1, <1>4 DEF Owed, Rests, serverVars, clientVars
<1>5. CASE Handle(p)
  <2>1. at' = at /\ owed' = owed /\ inbox'[q] = inbox[q]
    BY <1>1, <1>5 DEF Handle, serverVars
  <2>2. session'[q] = session[q]
    BY <1>5, HandleEffect
  <2> QED BY <2>1, <2>2 DEF Rests
<1>6. CASE OpenChat(p)
  BY <1>1, <1>6 DEF OpenChat, Read, Keep, Rests, serverVars
<1>7. CASE CloseChat(p)
  BY <1>1, <1>7 DEF CloseChat, Keep, Rests, serverVars
<1>8. CASE \E s \in Boards : ChatEnter(p, s)
  BY <1>1, <1>8 DEF ChatEnter, Rests, clientVars
<1>9. CASE \E id \in 1 .. MaxPosts : Resend(p, id)
  BY <1>1, <1>9 DEF Resend, Rests, serverVars, clientVars
<1> QED
  BY <1>2, <1>3, <1>4, <1>5, <1>6, <1>7, <1>8, <1>9 DEF Quiet

LEMMA RestsTyped ==
  ASSUME NEW q, SessionTyped(q), Rests(q), up' = up
  PROVE  SessionTyped(q)'
BY DEF SessionTyped, Rests, Member, WelcomeMsg, ChatViews, Note

LEMMA AppendTyped ==
  ASSUME NEW q, SessionTyped(q), Member(q), inbox[q] \in Seq(Messages), NEW m \in Messages,
         up' = up, at'[q] = at[q], session'[q] = session[q],
         inbox'[q] = Append(inbox[q], m)
  PROVE  SessionTyped(q)'
<1>1. Append(inbox[q], m) # <<>>
  BY AppendProperties
<1>2. inbox[q] # <<>> => Head(Append(inbox[q], m)) = Head(inbox[q])
  BY HeadTailAppend
<1>3. Member(q)'
  BY DEF Member
<1> QED
  BY <1>1, <1>2, <1>3 DEF SessionTyped, WelcomeMsg, ChatViews, Note

LEMMA OwedTails ==
  /\ Head(<<"notes">>) = "notes" /\ Tail(<<"notes">>) = <<>>
  /\ Head(<<"snapshot", "notes">>) = "snapshot" /\ Tail(<<"snapshot", "notes">>) = <<"notes">>
  /\ <<"notes">> # <<>> /\ <<"snapshot", "notes">> # <<>> /\ <<"notes">> # <<"snapshot", "notes">>
<1>1. Tail(<<"notes">>) = <<>>
  OBVIOUS
<1>2. Tail(<<"snapshot", "notes">>) = <<"notes">>
  OBVIOUS
<1>3. Len(<<"notes">>) = 1 /\ Len(<<"snapshot", "notes">>) = 2
  OBVIOUS
<1> QED
  BY <1>1, <1>2, <1>3

(* What a person's step leaves typed.                                      *)
ClientTyped(p) ==
  /\ at \in [Persons -> Boards \union {Nowhere}]
  /\ owed \in [Persons -> {<<>>, <<"notes">>, <<"snapshot", "notes">>}]
  /\ inbox \in [Persons -> Seq(Messages)]
  /\ DOMAIN session = Persons /\ SessionTyped(p)
  /\ chatSeen \in [Persons -> [Boards -> Nat]]
  /\ shown \in [Persons -> SUBSET Nat]

LEMMA QuietClient ==
  ASSUME ChatTyped, NEW p \in Persons, Quiet(p)
  PROVE  ClientTyped(p)'
<1>1. /\ at \in [Persons -> Boards \union {Nowhere}]
      /\ owed \in [Persons -> {<<>>, <<"notes">>, <<"snapshot", "notes">>}]
      /\ inbox \in [Persons -> Seq(Messages)]
      /\ DOMAIN session = Persons /\ SessionTyped(p)
      /\ chatSeen \in [Persons -> [Boards -> Nat]]
      /\ shown \in [Persons -> SUBSET Nat]
      /\ boards \in [Boards -> Seq(Note)] /\ up \in BOOLEAN
  BY DEF ChatTyped
<1>2. inbox[p] \in Seq(Messages)
  BY <1>1
<1>3. up' = up /\ boards' = boards
  BY QuietServer
<1>4. CASE ChatJoin(p)
  <2>1. WelcomeMsg \in Messages /\ <<WelcomeMsg>> \in Seq(Messages) /\ <<WelcomeMsg>> # <<>>
        /\ Head(<<WelcomeMsg>>) = WelcomeMsg /\ LobbyBoard \in Boards /\ LobbyBoard # Nowhere
    BY SpaceMessage, ChatAssumption DEF ChatAssumption
  <2> DEFINE w == <<WelcomeMsg>>
  <2>2. /\ up /\ at[p] = Nowhere /\ at' = [at EXCEPT ![p] = LobbyBoard]
        /\ inbox' = [inbox EXCEPT ![p] = w] /\ owed' = [owed EXCEPT ![p] = <<"notes">>]
        /\ session' = session /\ chatSeen' = chatSeen /\ shown' = shown
    BY <1>4 DEF ChatJoin, clientVars
  <2> HIDE DEF w
  <2>3. session[p] = Null
    BY <1>1, <2>2 DEF SessionTyped, Member
  <2>4. at'[p] = LobbyBoard /\ inbox'[p] = w /\ session'[p] = Null
    BY <1>1, <2>2, <2>3
  <2>5. SessionTyped(p)'
    <3>1. w # <<>> /\ Head(w) = WelcomeMsg
      BY <2>1 DEF w
    <3> QED BY <2>1, <2>2, <2>4, <3>1, <1>3 DEF SessionTyped, Member, WelcomeMsg, ChatViews, Note
  <2>6. w \in Seq(Messages)
    BY <2>1 DEF w
  <2> QED BY <1>1, <2>1, <2>2, <2>5, <2>6 DEF ClientTyped
<1>5. CASE ChatLeave(p)
  <2>1. /\ at' = [at EXCEPT ![p] = Nowhere] /\ inbox' = [inbox EXCEPT ![p] = <<>>]
        /\ session' = [session EXCEPT ![p] = Null] /\ owed' = owed /\ owed[p] = <<>>
        /\ chatSeen' = chatSeen /\ shown' = shown
    BY <1>5 DEF ChatLeave, Acts
  <2>2. at'[p] = Nowhere /\ inbox'[p] = <<>> /\ session'[p] = Null /\ owed'[p] = <<>>
    BY <1>1, <2>1
  <2>3. SessionTyped(p)'
    BY <2>2 DEF SessionTyped, Member
  <2>4. <<>> \in Seq(Messages)
    OBVIOUS
  <2> QED BY <1>1, <2>1, <2>3, <2>4 DEF ClientTyped
<1>6. CASE Owed(p)
  <2> DEFINE m == IF Head(owed[p]) = "snapshot" THEN Snapshot(at[p])
                                                ELSE Notes(at[p], boards[at[p]])
  <2>1. /\ Member(p) /\ owed[p] # <<>> /\ inbox' = [inbox EXCEPT ![p] = Append(@, m)]
        /\ owed' = [owed EXCEPT ![p] = Tail(@)] /\ at' = at
        /\ session' = session /\ chatSeen' = chatSeen /\ shown' = shown
    BY <1>6 DEF Owed, serverVars, clientVars
  <2>2. at[p] \in Boards
    BY <1>1, <2>1 DEF Member
  <2>3. m \in Messages
    BY <1>1, <2>2, NotesMessage, SpaceMessage
  <2> HIDE DEF m
  <2>4. Append(inbox[p], m) \in Seq(Messages)
    BY <1>2, <2>3, AppendProperties
  <2>5. inbox'[p] = Append(inbox[p], m)
    BY <1>1, <2>1
  <2>6. SessionTyped(p)'
    BY <1>1, <1>2, <1>3, <2>1, <2>3, <2>5, AppendTyped
  <2>7. inbox' \in [Persons -> Seq(Messages)]
    BY <1>1, <2>1, <2>4
  <2>8. owed' \in [Persons -> {<<>>, <<"notes">>, <<"snapshot", "notes">>}]
    <3>1. owed[p] = <<"notes">> \/ owed[p] = <<"snapshot", "notes">>
      BY <1>1, <2>1
    <3>2. Tail(owed[p]) \in {<<>>, <<"notes">>}
      BY <3>1, OwedTails
    <3> QED BY <1>1, <2>1, <3>2
  <2> QED BY <1>1, <2>1, <2>6, <2>7, <2>8 DEF ClientTyped
<1>7. CASE Handle(p)
  <2>1. /\ inbox[p] # <<>> /\ inbox' = [inbox EXCEPT ![p] = Tail(@)]
        /\ at' = at /\ owed' = owed
    BY <1>7 DEF Handle, serverVars
  <2>2. Tail(inbox[p]) \in Seq(Messages)
    BY <1>2, <2>1, HeadTailProperties
  <2>3. Member(p) /\ Member(p)'
    BY <1>1, <1>3, <2>1 DEF SessionTyped, Member
  <2>4. DOMAIN session' = Persons /\ session'[p] \in ChatViews
        /\ chatSeen' \in [Persons -> [Boards -> Nat]] /\ shown' \in [Persons -> SUBSET Nat]
    <3> DEFINE m == Head(inbox[p])
    <3>1. /\ m \in Messages /\ DOMAIN session' = Persons
          /\ \/ session[p] \in ChatViews /\ UNCHANGED clientVars
             \/ m.t = "notes" /\ \E view \in ChatViews :
                   /\ view.notes = m.notes
                   /\ IF view.open THEN Read(p, view) ELSE Keep(p, view)
             \/ session'[p] \in ChatViews /\ UNCHANGED <<chatSeen, shown>>
      BY <1>7, HandleEffect
    <3> HIDE DEF m
    <3>2. CASE session[p] \in ChatViews /\ UNCHANGED clientVars
      BY <3>1, <3>2, <1>1 DEF clientVars
    <3>3. CASE m.t = "notes" /\ \E view \in ChatViews :
                   /\ view.notes = m.notes
                   /\ IF view.open THEN Read(p, view) ELSE Keep(p, view)
      <4>1. PICK view \in ChatViews : /\ view.notes = m.notes
                                      /\ IF view.open THEN Read(p, view) ELSE Keep(p, view)
        BY <3>3
      <4>2. view.notes \in Seq(Note)
        BY <3>1, <3>3, <4>1, MessageFields
      <4>3. CASE Read(p, view)
        BY <3>1, <4>2, <4>3, ReadTyped
      <4>4. CASE Keep(p, view)
        BY <3>1, <4>4, <1>1, KeepEffect
      <4> QED BY <4>1, <4>3, <4>4
    <3>4. CASE session'[p] \in ChatViews /\ UNCHANGED <<chatSeen, shown>>
      BY <3>1, <3>4, <1>1
    <3> QED BY <3>1, <3>2, <3>3, <3>4
  <2>5. SessionTyped(p)'
    BY <2>3, <2>4 DEF SessionTyped, ChatViews, Note
  <2> QED BY <1>1, <2>1, <2>2, <2>4, <2>5 DEF ClientTyped
<1>8. ASSUME NEW view \in ChatViews, Keep(p, view) \/ (view.notes # Null /\ Read(p, view)),
             session[p] # Null, at' = at, owed' = owed, inbox' = inbox
      PROVE  ClientTyped(p)'
  <2>1. DOMAIN session' = Persons
    BY <1>1, <1>8 DEF Read, Keep
  <2>2. /\ session'[p] \in ChatViews
        /\ chatSeen' \in [Persons -> [Boards -> Nat]] /\ shown' \in [Persons -> SUBSET Nat]
    <3>1. CASE Keep(p, view)
      BY <3>1, <1>1, <1>8, KeepEffect
    <3>2. CASE view.notes # Null /\ Read(p, view)
      <4>1. view.notes \in Seq(Note)
        BY <3>2 DEF ChatViews
      <4> QED BY <3>2, <4>1, ReadTyped
    <3> QED BY <3>1, <3>2, <1>8
  <2>3. Member(p) /\ Member(p)'
    BY <1>1, <1>3, <1>8 DEF SessionTyped, Member
  <2>4. SessionTyped(p)'
    BY <2>2, <2>3 DEF SessionTyped, ChatViews, Note
  <2> QED BY <1>1, <1>8, <2>1, <2>2, <2>4 DEF ClientTyped
<1>9. session[p] # Null => session[p] \in ChatViews
  BY <1>1 DEF SessionTyped
<1>10. CASE OpenChat(p)
  <2> DEFINE view == [session[p] EXCEPT !.open = TRUE]
  <2>1. /\ session[p] # Null /\ (IF view.notes = Null THEN Keep(p, view) ELSE Read(p, view))
        /\ at' = at /\ owed' = owed /\ inbox' = inbox
    BY <1>10 DEF OpenChat, serverVars
  <2>2. view \in ChatViews
    BY <1>9, <2>1 DEF ChatViews
  <2> HIDE DEF view
  <2> QED BY <1>8, <2>1, <2>2
<1>11. CASE CloseChat(p)
  <2> DEFINE view == [session[p] EXCEPT !.open = FALSE]
  <2>1. /\ session[p] # Null /\ Keep(p, view)
        /\ at' = at /\ owed' = owed /\ inbox' = inbox
    BY <1>11 DEF CloseChat, serverVars
  <2>2. view \in ChatViews
    BY <1>9, <2>1 DEF ChatViews
  <2> HIDE DEF view
  <2> QED BY <1>8, <2>1, <2>2
<1>12. ASSUME NEW s \in Boards, ChatEnter(p, s) PROVE ClientTyped(p)'
  <2>1. /\ Member(p) /\ session[p] # Null /\ at' = [at EXCEPT ![p] = s]
        /\ owed' = [owed EXCEPT ![p] = <<"snapshot", "notes">>]
        /\ inbox' = inbox /\ session' = session /\ chatSeen' = chatSeen /\ shown' = shown
    BY <1>12 DEF ChatEnter, Acts, clientVars
  <2>2. at'[p] = s /\ s # Nowhere
    BY <1>1, <2>1, ChatAssumption DEF ChatAssumption
  <2>3. Member(p)' /\ session'[p] \in ChatViews
    BY <1>3, <1>9, <2>1, <2>2 DEF Member
  <2>4. SessionTyped(p)'
    BY <2>3 DEF SessionTyped, ChatViews, Note
  <2>5. owed' \in [Persons -> {<<>>, <<"notes">>, <<"snapshot", "notes">>}]
    BY <1>1, <2>1
  <2>6. at' \in [Persons -> Boards \union {Nowhere}]
    BY <1>1, <2>1
  <2> QED BY <1>1, <2>1, <2>4, <2>5, <2>6 DEF ClientTyped
<1>13. ASSUME NEW id, Resend(p, id) PROVE ClientTyped(p)'
  <2> DEFINE m == Notes(at[p], boards[at[p]])
  <2>1. /\ Member(p) /\ inbox' = [inbox EXCEPT ![p] = Append(@, m)] /\ at' = at /\ owed' = owed
        /\ session' = session /\ chatSeen' = chatSeen /\ shown' = shown
    BY <1>13 DEF Resend, Picks, Acts, serverVars, clientVars
  <2>2. m \in Messages
    BY <1>1, <2>1, NotesMessage DEF Member
  <2> HIDE DEF m
  <2>3. Append(inbox[p], m) \in Seq(Messages)
    BY <1>2, <2>2, AppendProperties
  <2>4. inbox'[p] = Append(inbox[p], m)
    BY <1>1, <2>1
  <2>5. SessionTyped(p)'
    BY <1>1, <1>2, <1>3, <2>1, <2>2, <2>4, AppendTyped
  <2>6. inbox' \in [Persons -> Seq(Messages)]
    BY <1>1, <2>1, <2>3
  <2> QED BY <1>1, <2>1, <2>5, <2>6 DEF ClientTyped
<1> QED
  BY <1>4, <1>5, <1>6, <1>7, <1>10, <1>11, <1>12, <1>13 DEF Quiet

LEMMA ClientsTyped ==
  ASSUME ChatTyped, NEW p \in Persons, Quiet(p)
  PROVE  ChatTyped'
<1>1. ClientTyped(p)'
  BY QuietClient
<1>2. UNCHANGED <<up, crashes, posts, boards, nextNoteId, rows>>
  BY QuietServer
<1>3. ASSUME NEW q \in Persons PROVE SessionTyped(q)'
  <2>1. CASE q = p
    BY <2>1, <1>1 DEF ClientTyped
  <2>2. CASE q # p
    <3>1. Rests(q) /\ SessionTyped(q)
      BY <2>2, QuietOthers DEF ChatTyped
    <3> QED BY <3>1, <1>2, RestsTyped
  <2> QED BY <2>1, <2>2
<1> QED
  BY <1>1, <1>2, <1>3 DEF ClientTyped, ChatTyped

(* Whoever is in the chat gets the board, nobody else anything.            *)
Sent(q, s, board) == IF at[q] = s THEN Append(inbox[q], Notes(s, board)) ELSE inbox[q]

Committed(s, board, next) ==
  /\ up' = up /\ crashes' = crashes /\ at' = at /\ owed' = owed
  /\ session' = session /\ chatSeen' = chatSeen /\ shown' = shown
  /\ nextNoteId' = next
  /\ boards' \in [Boards -> Seq(Note)]
  /\ \A t \in Boards : boards'[t] = IF t = s THEN board ELSE boards[t]
  /\ inbox' \in [Persons -> Seq(Messages)]
  /\ \A q \in Persons : inbox'[q] = Sent(q, s, board)

LEMMA CommitEffect ==
  ASSUME ChatTyped, NEW p, NEW s \in Boards, NEW board \in Seq(Note), NEW next,
         Commit(p, s, board, next)
  PROVE  Committed(s, board, next)
<1> DEFINE m == Notes(s, board)
<1>1. /\ up' = up /\ crashes' = crashes /\ at' = at /\ owed' = owed
      /\ session' = session /\ chatSeen' = chatSeen /\ shown' = shown
      /\ nextNoteId' = next /\ boards' = [boards EXCEPT ![s] = board]
      /\ inbox' = [q \in Persons |->
                     IF q \in Audience(s, p) THEN Append(inbox[q], m) ELSE inbox[q]]
  BY DEF Commit, clientVars
<1>2. m \in Messages
  BY NotesMessage
<1>3. \A q \in Persons : q \in Audience(s, p) <=> at[q] = s
  BY DEF Audience
<1>4. \A q \in Persons : inbox'[q] = Sent(q, s, board)
  BY <1>1, <1>3 DEF Sent
<1> HIDE DEF m
<1>5. \A q \in Persons : Append(inbox[q], m) \in Seq(Messages)
  <2> SUFFICES ASSUME NEW q \in Persons PROVE Append(inbox[q], m) \in Seq(Messages)
    OBVIOUS
  <2>1. inbox[q] \in Seq(Messages)
    BY DEF ChatTyped
  <2> QED BY <2>1, <1>2, AppendProperties
<1>6. inbox' \in [Persons -> Seq(Messages)]
  BY <1>1, <1>5 DEF ChatTyped
<1>7. /\ boards' \in [Boards -> Seq(Note)]
      /\ \A t \in Boards : boards'[t] = IF t = s THEN board ELSE boards[t]
  BY <1>1 DEF ChatTyped
<1> QED
  BY <1>1, <1>4, <1>6, <1>7 DEF Committed

LEMMA DownEffect ==
  ASSUME ChatTyped, Down
  PROVE  /\ up' = FALSE /\ crashes' = crashes + 1
         /\ \A q \in Persons : /\ at'[q] = Nowhere /\ inbox'[q] = <<>>
                                /\ owed'[q] = <<>> /\ session'[q] = Null
         /\ (posts' \in Nat /\ rows' \in SUBSET [space : Boards, note : Note]) => ChatTyped'
<1>1. /\ up' = FALSE /\ crashes' = crashes + 1
      /\ boards' = [s \in Boards |-> <<>>] /\ nextNoteId' = 0
      /\ at' = [p \in Persons |-> Nowhere] /\ owed' = [p \in Persons |-> <<>>]
      /\ inbox' = [p \in Persons |-> <<>>] /\ session' = [p \in Persons |-> Null]
      /\ chatSeen' = chatSeen /\ shown' = shown
  BY DEF Down
<1>2. <<>> \in Seq(Note) /\ <<>> \in Seq(Messages)
  OBVIOUS
<1>3. \A q \in Persons : SessionTyped(q)'
  BY <1>1 DEF SessionTyped, Member
<1>4. /\ boards' \in [Boards -> Seq(Note)] /\ inbox' \in [Persons -> Seq(Messages)]
      /\ at' \in [Persons -> Boards \union {Nowhere}]
      /\ owed' \in [Persons -> {<<>>, <<"notes">>, <<"snapshot", "notes">>}]
  BY <1>1, <1>2
<1>5. \A q \in Persons : /\ at'[q] = Nowhere /\ inbox'[q] = <<>>
                         /\ owed'[q] = <<>> /\ session'[q] = Null
  BY <1>1
<1>6. DOMAIN session' = Persons /\ crashes' \in Nat /\ nextNoteId' \in Nat /\ up' \in BOOLEAN
  <2>1. crashes \in Nat
    BY DEF ChatTyped
  <2>2. crashes' \in Nat /\ nextNoteId' \in Nat
    BY <1>1, <2>1
  <2>3. DOMAIN session' = Persons
    BY <1>1
  <2> QED BY <1>1, <2>2, <2>3
<1>7. ASSUME posts' \in Nat, rows' \in SUBSET [space : Boards, note : Note] PROVE ChatTyped'
  BY <1>1, <1>3, <1>4, <1>6, <1>7 DEF ChatTyped
<1> QED
  BY <1>1, <1>5, <1>7

LEMMA ChangedTyped ==
  ASSUME ChatTyped, StoreInv, NEW p \in Persons, Changes(p)
  PROVE  ChatTyped'
<1>1. PICK table, board, next :
        Legal(p, table, board, next) /\ Change(p, at[p], table, board, next)
  BY DEF Changes
<1> DEFINE s == at[p]
<1>2. up /\ s \in Boards /\ board \in Seq(Note) /\ next \in Nat
  BY <1>1, ActsWhere DEF Legal
<1>3. posts' \in Nat /\ rows' = table /\ rows' \in SUBSET [space : Boards, note : Note]
      /\ (Commit(p, s, board, next) \/ Down)
  BY <1>1 DEF Legal, Change, TableSound
<1> HIDE DEF s
<1>4. CASE Commit(p, s, board, next)
  <2>1. /\ up' = up /\ crashes' = crashes /\ at' = at /\ owed' = owed
        /\ session' = session /\ chatSeen' = chatSeen /\ shown' = shown
        /\ nextNoteId' = next
        /\ boards' \in [Boards -> Seq(Note)]
        /\ inbox' \in [Persons -> Seq(Messages)]
        /\ \A q \in Persons : inbox'[q] = Sent(q, s, board)
    <3>1. Committed(s, board, next)
      BY <1>2, <1>4, CommitEffect
    <3> QED BY <3>1 DEF Committed
  <2>2. ASSUME NEW q \in Persons PROVE SessionTyped(q)'
    <3>1. SessionTyped(q) /\ inbox[q] \in Seq(Messages)
      BY DEF ChatTyped
    <3>2. CASE at[q] = s
      <4>1. Notes(s, board) \in Messages
        BY <1>2, NotesMessage
      <4>2. Member(q)
        BY <3>2, <1>2, ChatAssumption DEF Member, ChatAssumption
      <4>3. inbox'[q] = Append(inbox[q], Notes(s, board))
        BY <2>1, <3>2 DEF Sent
      <4> QED BY <2>1, <3>1, <4>1, <4>2, <4>3, AppendTyped
    <3>3. CASE at[q] # s
      <4>1. Rests(q)
        BY <2>1, <3>3 DEF Sent, Rests
      <4> QED BY <2>1, <3>1, <4>1, RestsTyped
    <3> QED BY <3>2, <3>3
  <2> QED BY <1>2, <1>3, <2>1, <2>2 DEF ChatTyped
<1>5. CASE Down
  BY <1>3, <1>5, DownEffect
<1> QED
  BY <1>3, <1>4, <1>5

LEMMA TypedNext ==
  ASSUME ChatTyped, StoreInv, [ChatNext]_chatVars
  PROVE  ChatTyped'
<1>1. ASSUME NEW p \in Persons, Changes(p) PROVE ChatTyped'
  BY <1>1, ChangedTyped
<1>2. ASSUME NEW p \in Persons, Quiet(p) PROVE ChatTyped'
  BY <1>2, ClientsTyped
<1>3. CASE Crash
  <2>1. Down /\ posts' = posts /\ rows' = rows
    BY <1>3 DEF Crash
  <2> QED BY <2>1, DownEffect DEF ChatTyped
<1>4. CASE Restart
  <2>1. /\ up' = TRUE /\ boards' = [s \in Boards |-> Load(rows, s)] /\ ~up
        /\ crashes' = crashes /\ posts' = posts /\ rows' = rows /\ at' = at /\ owed' = owed
        /\ inbox' = inbox /\ session' = session /\ chatSeen' = chatSeen /\ shown' = shown
    BY <1>4 DEF Restart, clientVars
  <2>2. boards' \in [Boards -> Seq(Note)]
    BY <2>1 DEF StoreInv, Stored
  <2>3. nextNoteId' \in Nat
    <3>1. StoreInv'
      BY <1>4, StoreNext DEF ChatNext
    <3> QED BY <2>1, <3>1 DEF StoreInv, ChatTyped
  <2>4. ASSUME NEW q \in Persons PROVE SessionTyped(q)'
    <3>1. at[q] = Nowhere /\ inbox[q] = <<>> /\ owed[q] = <<>> /\ session[q] = Null
      BY <2>1 DEF ChatTyped, SessionTyped, Member
    <3> QED BY <2>1, <3>1 DEF SessionTyped, Member
  <2> QED BY <2>1, <2>2, <2>3, <2>4 DEF ChatTyped
<1>5. CASE UNCHANGED chatVars
  <2>1. \A q \in Persons : SessionTyped(q)'
    <3>1. \A q \in Persons : SessionTyped(q) /\ Rests(q)
      BY <1>5 DEF ChatTyped, Rests, chatVars
    <3>2. up' = up
      BY <1>5 DEF chatVars
    <3> QED BY <3>1, <3>2, RestsTyped
  <2> QED BY <1>5, <2>1 DEF ChatTyped, chatVars
<1> QED
  BY <1>1, <1>2, <1>3, <1>4, <1>5, StepCases

LEMMA StoreStart == ASSUME ChatInit PROVE ChatTyped /\ StoreInv
<1>1. /\ up = TRUE /\ crashes = 0 /\ posts = 0 /\ nextNoteId = 1 /\ rows = {}
      /\ boards = [s \in Boards |-> <<>>]
      /\ at = [p \in Persons |-> Nowhere] /\ owed = [p \in Persons |-> <<>>]
      /\ inbox = [p \in Persons |-> <<>>] /\ session = [p \in Persons |-> Null]
      /\ chatSeen = [p \in Persons |-> [s \in Boards |-> 0]]
      /\ shown = [p \in Persons |-> {}]
  BY DEF ChatInit
<1>2. <<>> \in Seq(Note) /\ <<>> \in Seq(Messages) /\ DOMAIN <<>> = {}
  OBVIOUS
<1>3. \A p \in Persons : SessionTyped(p)
  BY <1>1 DEF SessionTyped, Member
<1>4. ChatTyped
  BY <1>1, <1>2, <1>3 DEF ChatTyped
<1>5. ASSUME NEW s \in Boards PROVE Stored(s) /\ Load(rows, s) = <<>>
  <2>1. NotesIn(rows, s) = {}
    BY <1>1 DEF NotesIn
  <2>2. Lists(<<>>, {})
    BY DEF Lists, ToSet, Rising
  <2>3. Load(rows, s) = <<>>
    BY <1>2, <2>1, <2>2, ListIsById DEF Load
  <2>4. Len(<<>>) <= MaxNotes
    BY ChatAssumption DEF ChatAssumption
  <2> QED BY <1>2, <2>1, <2>2, <2>3, <2>4 DEF Stored
<1>6. StoreInv
  <2>1. TableSound(rows, posts)
    BY <1>1 DEF TableSound
  <2>2. nextNoteId \in 1 .. posts + 1 /\ \A r \in rows : r.note.id < nextNoteId
    BY <1>1
  <2> QED BY <1>1, <1>5, <2>1, <2>2 DEF StoreInv
<1> QED
  BY <1>4, <1>6

LEMMA StoreHolds == ASSUME ChatTyped, StoreInv PROVE StoreSound
<1>1. WriteThrough
  BY DEF StoreInv, WriteThrough
<1>2. PostingOrder
  BY DEF StoreInv, TableSound, PostingOrder
<1>3. CapHeld
  <2>1. Len(<<>>) <= MaxNotes
    BY ChatAssumption DEF ChatAssumption
  <2> QED BY <2>1 DEF StoreInv, Stored, CapHeld
<1> QED
  BY <1>1, <1>2, <1>3 DEF StoreSound

(* Whatever is posted, taken down, liked or pushed out by the cap, and     *)
(* wherever the server crashes between its rows and its memory: what a     *)
(* restart would load is what is shown, ids keep posting order, and no     *)
(* chat exceeds its cap.                                                   *)
THEOREM StoreSoundCorrect == ChatSpec => []StoreSound
<1>1. ChatInit => ChatTyped /\ StoreInv
  BY StoreStart
<1>2. ChatTyped /\ StoreInv /\ [ChatNext]_chatVars => (ChatTyped /\ StoreInv)'
  BY TypedNext, StoreNext
<1>3. ChatTyped /\ StoreInv => StoreSound
  BY StoreHolds
<1> QED
  BY <1>1, <1>2, <1>3, PTL DEF ChatSpec

(***************************************************************************)
(* What clients show.                                                      *)
(***************************************************************************)
(* The last space a client was told of, or will have been.                 *)
LastTold(p) ==
  /\ \A i \in DOMAIN inbox[p] :
       inbox[p][i].t # "notes" /\ (\A j \in DOMAIN inbox[p] : i < j => inbox[p][j].t = "notes")
         => inbox[p][i].space = at[p]
  /\ (\A i \in DOMAIN inbox[p] : inbox[p][i].t = "notes") => session[p].space = at[p]

LastBoard(p) ==
  IF inbox[p] = <<>> THEN session[p].notes = boards[at[p]]
                     ELSE inbox[p][Len(inbox[p])] = Notes(at[p], boards[at[p]])

(* A member whose snapshot is queued has its space as the last it is told  *)
(* of, and one that is owed nothing has the board as the last of the boards *)
(* it gets.                                                                *)
ViewOf(p) ==
  Member(p) =>
    /\ owed[p] # <<"snapshot", "notes">> => LastTold(p)
    /\ owed[p] = <<>> => LastBoard(p)

ViewInv == \A p \in Persons : ViewOf(p)

LEMMA Appended ==
  ASSUME NEW seq \in Seq(Messages), NEW m \in Messages, NEW longer, longer = Append(seq, m)
  PROVE  /\ Len(seq) \in Nat /\ DOMAIN seq = 1 .. Len(seq)
         /\ Len(longer) = Len(seq) + 1 /\ DOMAIN longer = 1 .. Len(seq) + 1
         /\ longer # <<>> /\ longer \in Seq(Messages)
         /\ \A i \in 1 .. Len(seq) : longer[i] = seq[i]
         /\ longer[Len(seq) + 1] = m
BY AppendProperties, LenProperties

LEMMA ToldNotes ==
  ASSUME NEW p, LastTold(p), inbox[p] \in Seq(Messages), NEW m \in Messages, m.t = "notes",
         inbox'[p] = Append(inbox[p], m), at'[p] = at[p], session'[p] = session[p]
  PROVE  LastTold(p)'
<1> DEFINE old == inbox[p]
           new == inbox'[p]
<1>1. /\ Len(old) \in Nat /\ DOMAIN old = 1 .. Len(old) /\ DOMAIN new = 1 .. Len(old) + 1
      /\ \A i \in 1 .. Len(old) : new[i] = old[i]
      /\ new[Len(old) + 1] = m
  BY Appended
<1>2. ASSUME NEW i \in DOMAIN new, new[i].t # "notes",
             \A j \in DOMAIN new : i < j => new[j].t = "notes"
      PROVE  new[i].space = at[p]
  <2>1. i \in DOMAIN old /\ new[i] = old[i]
    BY <1>1, <1>2
  <2>2. \A j \in DOMAIN old : j \in DOMAIN new /\ new[j] = old[j]
    BY <1>1
  <2>3. \A j \in DOMAIN old : i < j => old[j].t = "notes"
    BY <1>2, <2>2
  <2> QED BY <1>2, <2>1, <2>3 DEF LastTold
<1>3. ASSUME \A i \in DOMAIN new : new[i].t = "notes"
      PROVE  session[p].space = at[p]
  <2>1. \A i \in DOMAIN old : old[i].t = "notes"
    BY <1>1, <1>3
  <2> QED BY <2>1 DEF LastTold
<1> QED
  BY <1>2, <1>3 DEF LastTold

LEMMA ToldSpace ==
  ASSUME NEW p, inbox[p] \in Seq(Messages), NEW m \in Messages, m.t # "notes",
         inbox'[p] = Append(inbox[p], m), m.space = at'[p]
  PROVE  LastTold(p)'
<1> DEFINE old == inbox[p]
           new == inbox'[p]
<1>1. /\ Len(old) \in Nat /\ DOMAIN new = 1 .. Len(old) + 1
      /\ new[Len(old) + 1] = m
  BY Appended
<1>2. Len(old) + 1 \in DOMAIN new
  BY <1>1
<1>3. ASSUME NEW i \in DOMAIN new, \A j \in DOMAIN new : i < j => new[j].t = "notes"
      PROVE  new[i].space = at'[p]
  <2>1. ~(i < Len(old) + 1)
    BY <1>1, <1>2, <1>3
  <2>2. i = Len(old) + 1
    BY <2>1, <1>1
  <2> QED BY <2>2, <1>1
<1>4. ~\A i \in DOMAIN new : new[i].t = "notes"
  BY <1>1, <1>2
<1> QED
  BY <1>3, <1>4 DEF LastTold

LEMMA BoardSent ==
  ASSUME NEW p, inbox[p] \in Seq(Messages), NEW m \in Messages,
         inbox'[p] = Append(inbox[p], m), m = Notes(at'[p], boards'[at'[p]])
  PROVE  LastBoard(p)'
<1>1. /\ Len(inbox[p]) \in Nat /\ Len(inbox'[p]) = Len(inbox[p]) + 1 /\ inbox'[p] # <<>>
      /\ inbox'[p][Len(inbox[p]) + 1] = m
  BY Appended
<1> QED
  BY <1>1 DEF LastBoard, Notes

LEMMA ViewRests ==
  ASSUME NEW q, ViewOf(q), Rests(q), up' = up, Member(q) => boards'[at[q]] = boards[at[q]]
  PROVE  ViewOf(q)'
BY DEF ViewOf, Rests, Member, LastTold, LastBoard, Notes

LEMMA ViewChanged ==
  ASSUME ChatTyped, ViewInv, NEW p \in Persons, Changes(p)
  PROVE  ViewInv'
<1>1. PICK table, board, next :
        Legal(p, table, board, next) /\ Change(p, at[p], table, board, next)
  BY DEF Changes
<1> DEFINE s == at[p]
<1>2. up /\ s \in Boards /\ board \in Seq(Note)
  BY <1>1, ActsWhere DEF Legal
<1>3. Commit(p, s, board, next) \/ Down
  BY <1>1 DEF Change
<1> HIDE DEF s
<1>4. CASE Commit(p, s, board, next)
  <2>1. /\ up' = up /\ at' = at /\ owed' = owed /\ session' = session
        /\ \A t \in Boards : boards'[t] = IF t = s THEN board ELSE boards[t]
        /\ \A q \in Persons : inbox'[q] = Sent(q, s, board)
    <3>1. Committed(s, board, next)
      BY <1>2, <1>4, CommitEffect
    <3> QED BY <3>1 DEF Committed
  <2>2. ASSUME NEW q \in Persons PROVE ViewOf(q)'
    <3>1. ViewOf(q) /\ inbox[q] \in Seq(Messages) /\ at[q] \in Boards \union {Nowhere}
      BY DEF ViewInv, ChatTyped
    <3>2. CASE at[q] = s
      <4> DEFINE m == Notes(s, board)
      <4>1. m \in Messages /\ m.t = "notes" /\ inbox'[q] = Append(inbox[q], m) /\ Member(q)
        BY <1>2, <2>1, <3>2, NotesMessage, ChatAssumption DEF Sent, Member, ChatAssumption
      <4>2. m = Notes(at'[q], boards'[at'[q]])
        BY <1>2, <2>1, <3>2
      <4> HIDE DEF m
      <4>3. LastTold(q) => LastTold(q)'
        BY <2>1, <3>1, <4>1, ToldNotes
      <4>4. LastBoard(q)'
        BY <3>1, <4>1, <4>2, BoardSent
      <4> QED BY <2>1, <3>1, <4>1, <4>3, <4>4 DEF ViewOf
    <3>3. CASE at[q] # s
      <4>1. Rests(q)
        BY <2>1, <3>3 DEF Sent, Rests
      <4>2. Member(q) => boards'[at[q]] = boards[at[q]]
        BY <2>1, <3>1, <3>3 DEF Member
      <4> QED BY <2>1, <3>1, <4>1, <4>2, ViewRests
    <3> QED BY <3>2, <3>3
  <2> QED BY <2>2 DEF ViewInv
<1>5. CASE Down
  BY <1>5, DownEffect DEF ViewInv, ViewOf, Member
<1> QED
  BY <1>3, <1>4, <1>5

LEMMA ViewHandled ==
  ASSUME ChatTyped, NEW p \in Persons, ViewOf(p), Handle(p)
  PROVE  ViewOf(p)'
<1> DEFINE old == inbox[p]
           new == inbox'[p]
           m == Head(old)
<1>1. old \in Seq(Messages) /\ old # <<>> /\ new = Tail(old)
      /\ at' = at /\ owed' = owed /\ boards' = boards /\ up' = up
  BY DEF Handle, ChatTyped, serverVars
<1>2. /\ Len(old) \in Nat \ {0} /\ DOMAIN old = 1 .. Len(old)
      /\ new \in Seq(Messages) /\ Len(new) = Len(old) - 1 /\ DOMAIN new = 1 .. Len(old) - 1
      /\ \A i \in 1 .. Len(old) - 1 : new[i] = old[i + 1]
      /\ m = old[1]
  BY <1>1, HeadTailProperties, LenProperties, EmptySeq
<1>3. \/ /\ m.t = "notes" /\ session'[p].space = session[p].space
         /\ m.space = session[p].space => session'[p].notes = m.notes
      \/ m.t # "notes" /\ session'[p].space = m.space
  <2>1. \/ m.t = "notes" /\ m.space # session[p].space /\ UNCHANGED clientVars
        \/ m.t = "notes" /\ m.space = session[p].space /\ \E view \in ChatViews :
              /\ view.space = m.space /\ view.notes = m.notes
              /\ IF view.open THEN Read(p, view) ELSE Keep(p, view)
        \/ m.t # "notes" /\ session'[p].space = m.space
    BY HandleEffect
  <2>2. ASSUME m.t = "notes", m.space = session[p].space,
               NEW view \in ChatViews, view.space = m.space, view.notes = m.notes,
               IF view.open THEN Read(p, view) ELSE Keep(p, view)
        PROVE  session'[p].space = session[p].space /\ session'[p].notes = m.notes
    <3>1. view.notes \in Seq(Note)
      BY <1>1, <2>2, HeadTailProperties, MessageFields
    <3>2. CASE Read(p, view)
      BY <3>1, <3>2, <2>2, ReadEffect
    <3>3. CASE Keep(p, view)
      BY <3>3, <2>2, KeepEffect
    <3> QED BY <3>2, <3>3, <2>2
  <2>3. CASE m.t = "notes" /\ m.space # session[p].space /\ UNCHANGED clientVars
    BY <2>3 DEF clientVars
  <2> QED BY <2>1, <2>2, <2>3
<1> HIDE DEF m, old, new
<1>4. \A j \in DOMAIN new : j + 1 \in DOMAIN old /\ new[j] = old[j + 1]
  BY <1>2
<1>5. \A k \in DOMAIN old : k = 1 \/ (k - 1 \in DOMAIN new /\ new[k - 1] = old[k])
  BY <1>2
<1>6. ASSUME LastTold(p) PROVE LastTold(p)'
  <2>1. /\ \A i \in DOMAIN old :
             old[i].t # "notes" /\ (\A j \in DOMAIN old : i < j => old[j].t = "notes")
               => old[i].space = at[p]
        /\ (\A i \in DOMAIN old : old[i].t = "notes") => session[p].space = at[p]
    BY <1>6 DEF LastTold, old
  <2>2. ASSUME NEW i \in DOMAIN new, new[i].t # "notes",
               \A j \in DOMAIN new : i < j => new[j].t = "notes"
        PROVE  new[i].space = at[p]
    <3>1. i + 1 \in DOMAIN old /\ new[i] = old[i + 1]
      BY <1>4
    <3>2. ASSUME NEW k \in DOMAIN old, i + 1 < k PROVE old[k].t = "notes"
      <4>1. k - 1 \in DOMAIN new /\ new[k - 1] = old[k] /\ i < k - 1
        BY <1>2, <1>5, <3>2
      <4> QED BY <2>2, <4>1
    <3> QED BY <2>1, <2>2, <3>1, <3>2
  <2>3. ASSUME \A i \in DOMAIN new : new[i].t = "notes"
        PROVE  session'[p].space = at[p]
    <3>1. \A k \in DOMAIN old : k = 1 \/ old[k].t = "notes"
      BY <1>5, <2>3
    <3>2. CASE m.t = "notes"
      <4>1. \A k \in DOMAIN old : old[k].t = "notes"
        BY <1>2, <3>1, <3>2
      <4> QED BY <1>3, <2>1, <3>2, <4>1
    <3>3. CASE m.t # "notes"
      <4>1. 1 \in DOMAIN old /\ \A j \in DOMAIN old : 1 < j => old[j].t = "notes"
        BY <1>2, <3>1
      <4>2. old[1].space = at[p]
        BY <1>2, <2>1, <3>3, <4>1
      <4> QED BY <1>2, <1>3, <3>3, <4>2
    <3> QED BY <3>2, <3>3
  <2> QED BY <1>1, <2>2, <2>3 DEF LastTold, new
<1>7. ASSUME LastTold(p), LastBoard(p), Member(p) PROVE LastBoard(p)'
  <2>1. old[Len(old)] = Notes(at[p], boards[at[p]])
    BY <1>1, <1>7 DEF LastBoard, old
  <2>2. CASE Len(old) = 1
    <3>1. m = Notes(at[p], boards[at[p]]) /\ new = <<>>
      <4>1. Len(new) = 0
        BY <1>2, <2>2
      <4> QED BY <1>2, <2>1, <2>2, <4>1, EmptySeq
    <3>2. m.t = "notes" /\ m.space = at[p] /\ m.notes = boards[at[p]]
      BY <3>1 DEF Notes
    <3>3. session[p].space = at[p]
      <4>1. \A i \in DOMAIN inbox[p] : inbox[p][i].t = "notes"
        BY <1>2, <2>2, <3>2 DEF old
      <4> QED BY <1>7, <4>1 DEF LastTold
    <3>4. session'[p].notes = boards[at[p]]
      BY <1>3, <3>2, <3>3
    <3> QED BY <1>1, <3>1, <3>4 DEF LastBoard, new
  <2>3. CASE Len(old) # 1
    <3>1. new # <<>> /\ new[Len(new)] = old[Len(old)]
      <4>1. Len(new) \in 1 .. Len(old) - 1 /\ Len(new) + 1 = Len(old)
        BY <1>2, <2>3
      <4>2. new # <<>>
        BY <4>1
      <4> QED BY <1>2, <4>1, <4>2
    <3> QED BY <1>1, <2>1, <3>1 DEF LastBoard, new, Notes
  <2> QED BY <2>2, <2>3
<1>8. CASE Member(p)
  <2>1. owed[p] = <<>> => owed[p] # <<"snapshot", "notes">>
    BY OwedTails
  <2> QED BY <1>1, <1>6, <1>7, <1>8, <2>1 DEF ViewOf
<1>9. CASE ~Member(p)
  BY <1>1, <1>9 DEF ViewOf, Member
<1> QED
  BY <1>8, <1>9

LEMMA ViewQuiet ==
  ASSUME ChatTyped, NEW p \in Persons, ViewOf(p), Quiet(p)
  PROVE  ViewOf(p)'
<1>1. /\ inbox[p] \in Seq(Messages) /\ SessionTyped(p) /\ boards \in [Boards -> Seq(Note)]
      /\ at[p] \in Boards \union {Nowhere} /\ DOMAIN session = Persons
      /\ inbox \in [Persons -> Seq(Messages)] /\ DOMAIN at = Persons
      /\ owed \in [Persons -> {<<>>, <<"notes">>, <<"snapshot", "notes">>}]
  BY DEF ChatTyped
<1>2. up' = up /\ boards' = boards
  BY QuietServer
<1>3. CASE ChatJoin(p)
  <2> DEFINE w == <<WelcomeMsg>>
  <2>1. /\ at'[p] = LobbyBoard /\ inbox'[p] = w /\ owed'[p] = <<"notes">>
    BY <1>1, <1>3 DEF ChatJoin
  <2>2. w = Append(<<>>, WelcomeMsg) /\ <<>> \in Seq(Messages)
    OBVIOUS
  <2>3. DOMAIN w = 1 .. 1 /\ w[1] = WelcomeMsg
    OBVIOUS
  <2>4. WelcomeMsg.t # "notes" /\ WelcomeMsg.space = LobbyBoard
    BY SpaceMessage, ChatAssumption DEF ChatAssumption
  <2> HIDE DEF w
  <2>5. LastTold(p)'
    <3>1. \A i \in DOMAIN inbox'[p] : inbox'[p][i].space = at'[p] /\ inbox'[p][i].t # "notes"
      BY <2>1, <2>3, <2>4
    <3>2. 1 \in DOMAIN inbox'[p]
      BY <2>1, <2>3
    <3> QED BY <3>1, <3>2 DEF LastTold
  <2>6. owed'[p] # <<>>
    BY <2>1, OwedTails
  <2> QED BY <2>5, <2>6 DEF ViewOf
<1>4. CASE ChatLeave(p)
  BY <1>1, <1>4 DEF ChatLeave, ViewOf, Member
<1>5. CASE Owed(p)
  <2> DEFINE m == IF Head(owed[p]) = "snapshot" THEN Snapshot(at[p])
                                                ELSE Notes(at[p], boards[at[p]])
  <2>1. /\ Member(p) /\ owed[p] # <<>> /\ at' = at /\ session' = session
        /\ inbox'[p] = Append(inbox[p], m) /\ owed'[p] = Tail(owed[p])
    BY <1>1, <1>5 DEF Owed, serverVars, clientVars
  <2>2. at[p] \in Boards
    BY <1>1, <2>1 DEF Member
  <2>3. m \in Messages
    BY <1>1, <2>2, NotesMessage, SpaceMessage
  <2>4. CASE owed[p] = <<"notes">>
    <3>1. m = Notes(at[p], boards[at[p]]) /\ m.t = "notes" /\ owed'[p] = <<>>
      BY <1>1, <2>1, <2>2, <2>4, OwedTails, NotesMessage
    <3> HIDE DEF m
    <3>2. LastTold(p)
      BY <2>1, <2>4, OwedTails DEF ViewOf
    <3>3. LastTold(p)'
      BY <1>1, <2>1, <2>3, <3>1, <3>2, ToldNotes
    <3>4. LastBoard(p)'
      BY <1>1, <1>2, <2>1, <2>3, <3>1, BoardSent
    <3> QED BY <3>3, <3>4 DEF ViewOf
  <2>5. CASE owed[p] = <<"snapshot", "notes">>
    <3>1. m = Snapshot(at[p]) /\ m.t # "notes" /\ m.space = at[p] /\ owed'[p] = <<"notes">>
      BY <2>1, <2>2, <2>5, OwedTails, SpaceMessage
    <3> HIDE DEF m
    <3>2. LastTold(p)'
      BY <1>1, <2>1, <2>3, <3>1, ToldSpace
    <3> QED BY <3>1, <3>2, OwedTails DEF ViewOf
  <2> QED BY <1>1, <2>1, <2>4, <2>5
<1>6. CASE Handle(p)
  BY <1>6, ViewHandled
<1>7. ASSUME at' = at, inbox' = inbox, owed' = owed,
             session'[p].space = session[p].space, session'[p].notes = session[p].notes
      PROVE  ViewOf(p)'
  BY <1>2, <1>7 DEF ViewOf, Member, LastTold, LastBoard, Notes
<1>8. session[p] # Null => session[p] \in ChatViews
  BY <1>1 DEF SessionTyped
<1>9. CASE OpenChat(p)
  <2> DEFINE view == [session[p] EXCEPT !.open = TRUE]
  <2>1. /\ session[p] # Null /\ (IF view.notes = Null THEN Keep(p, view) ELSE Read(p, view))
        /\ at' = at /\ owed' = owed /\ inbox' = inbox
    BY <1>9 DEF OpenChat, serverVars
  <2>2. view \in ChatViews /\ view.space = session[p].space /\ view.notes = session[p].notes
    BY <1>8, <2>1 DEF ChatViews
  <2> HIDE DEF view
  <2>3. CASE Keep(p, view)
    BY <2>1, <2>2, <2>3, <1>7, KeepEffect
  <2>4. CASE view.notes # Null /\ Read(p, view)
    <3>1. view.notes \in Seq(Note)
      BY <2>2, <2>4 DEF ChatViews
    <3>2. session'[p].space = view.space /\ session'[p].notes = view.notes
      BY <2>2, <2>4, <3>1, ReadEffect
    <3> QED BY <2>1, <2>2, <3>2, <1>7
  <2> QED BY <2>1, <2>3, <2>4
<1>10. CASE CloseChat(p)
  <2> DEFINE view == [session[p] EXCEPT !.open = FALSE]
  <2>1. /\ session[p] # Null /\ Keep(p, view)
        /\ at' = at /\ owed' = owed /\ inbox' = inbox
    BY <1>10 DEF CloseChat, serverVars
  <2>2. view.space = session[p].space /\ view.notes = session[p].notes
    BY <1>8, <2>1 DEF ChatViews
  <2> HIDE DEF view
  <2> QED BY <2>1, <2>2, <1>7, KeepEffect
<1>11. ASSUME NEW s \in Boards, ChatEnter(p, s) PROVE ViewOf(p)'
  <2>1. owed'[p] = <<"snapshot", "notes">>
    BY <1>1, <1>11 DEF ChatEnter
  <2> QED BY <2>1, OwedTails DEF ViewOf
<1>12. ASSUME NEW id, Resend(p, id) PROVE ViewOf(p)'
  <2> DEFINE m == Notes(at[p], boards[at[p]])
  <2>1. /\ Member(p) /\ owed[p] = <<>> /\ inbox' = [inbox EXCEPT ![p] = Append(@, m)]
        /\ at' = at /\ owed' = owed /\ session' = session
    BY <1>12 DEF Resend, Picks, Acts, serverVars, clientVars
  <2>2. m \in Messages /\ m.t = "notes"
    BY <1>1, <2>1, NotesMessage DEF Member
  <2>3. inbox'[p] = Append(inbox[p], m) /\ m = Notes(at'[p], boards'[at'[p]])
    BY <1>1, <1>2, <2>1
  <2> HIDE DEF m
  <2>4. LastTold(p)
    BY <2>1, OwedTails DEF ViewOf
  <2>5. LastTold(p)'
    BY <1>1, <2>1, <2>2, <2>3, <2>4, ToldNotes
  <2>6. LastBoard(p)'
    BY <1>1, <2>2, <2>3, BoardSent
  <2> QED BY <2>5, <2>6 DEF ViewOf
<1> QED
  BY <1>3, <1>4, <1>5, <1>6, <1>9, <1>10, <1>11, <1>12 DEF Quiet

LEMMA ViewNext ==
  ASSUME ChatTyped, StoreInv, ViewInv, [ChatNext]_chatVars
  PROVE  ViewInv'
<1>1. ASSUME NEW p \in Persons, Changes(p) PROVE ViewInv'
  BY <1>1, ViewChanged
<1>2. ASSUME NEW p \in Persons, Quiet(p) PROVE ViewInv'
  <2>1. ASSUME NEW q \in Persons \ {p} PROVE ViewOf(q)'
    <3>1. Rests(q) /\ up' = up /\ boards' = boards
      BY <1>2, QuietOthers, QuietServer
    <3> QED BY <3>1, ViewRests DEF ViewInv
  <2>2. ViewOf(p)'
    BY <1>2, ViewQuiet DEF ViewInv
  <2> QED BY <2>1, <2>2 DEF ViewInv
<1>3. CASE Crash
  BY <1>3, DownEffect DEF Crash, ViewInv, ViewOf, Member
<1>4. CASE Restart
  <2>1. ~up /\ at' = at
    BY <1>4 DEF Restart
  <2>2. \A q \in Persons : at[q] = Nowhere
    BY <2>1 DEF ChatTyped, SessionTyped, Member
  <2> QED BY <2>1, <2>2 DEF ViewInv, ViewOf, Member
<1>5. CASE UNCHANGED chatVars
  <2>1. \A q \in Persons : Rests(q) /\ up' = up /\ boards' = boards
    BY <1>5 DEF Rests, chatVars
  <2> QED BY <2>1, ViewRests DEF ViewInv
<1> QED
  BY <1>1, <1>2, <1>3, <1>4, <1>5, StepCases

LEMMA ViewHolds == ASSUME ViewInv PROVE ViewConverges
<1> SUFFICES ASSUME NEW p \in Persons, Acts(p), inbox[p] = <<>>
             PROVE  session[p].space = at[p] /\ session[p].notes = boards[at[p]]
  BY DEF ViewConverges
<1>1. LastTold(p) /\ LastBoard(p)
  BY OwedTails DEF ViewInv, ViewOf, Acts
<1>2. \A i \in DOMAIN inbox[p] : inbox[p][i].t = "notes"
  OBVIOUS
<1> QED
  BY <1>1, <1>2 DEF LastTold, LastBoard

(* However a space switch, the reader's late snapshot and the broadcasts   *)
(* of two chats interleave, and however long a client's queue is: one that *)
(* has handled everything shows the board of the space it is in.           *)
THEOREM ViewConvergesCorrect == ChatSpec => []ViewConverges
<1>1. ChatInit => ChatTyped /\ StoreInv /\ ViewInv
  <2>1. ASSUME ChatInit PROVE ViewInv
    BY <2>1 DEF ChatInit, ViewInv, ViewOf, Member
  <2> QED BY <2>1, StoreStart
<1>2. ChatTyped /\ StoreInv /\ ViewInv /\ [ChatNext]_chatVars => (ChatTyped /\ StoreInv /\ ViewInv)'
  BY TypedNext, StoreNext, ViewNext
<1>3. ViewInv => ViewConverges
  BY ViewHolds
<1> QED
  BY <1>1, <1>2, <1>3, PTL DEF ChatSpec

(***************************************************************************)
(* What counts as seen.  While the server never stopped, ids are the posts'*)
(* numbers; of a chat, `seen' is the mark and `known' the serials shown.   *)
(***************************************************************************)
Numbered(notes, next) == \A n \in ToSet(notes) : n.id = n.serial /\ n.id < next

ShownUpTo(notes, seen, known) == \A n \in ToSet(notes) : n.id <= seen => n.id \in known

(* Of two boards of one chat the later has nothing new among the old.      *)
Follows(before, after) ==
  \A n \in ToSet(after), m \in ToSet(before) : n.id <= m.id => n.id \in Ids(before)

(* A board on its way, or on show, and how it goes on.                     *)
InOrder(s, notes, seen, known, bds, next) ==
  Numbered(notes, next) /\ ShownUpTo(notes, seen[s], known) /\ Follows(notes, bds[s])

BoxSeen(box, seen, known, bds, next) ==
  /\ \A i \in DOMAIN box : box[i].t = "notes" =>
       InOrder(box[i].space, box[i].notes, seen, known, bds, next)
  /\ \A i, j \in DOMAIN box :
       i < j /\ box[i].t = "notes" /\ box[j].t = "notes" /\ box[i].space = box[j].space
         => Follows(box[i].notes, box[j].notes)

(* A session that shows notes: its mark is the device's, and what comes    *)
(* follows them.                                                           *)
SessionSeen(view, box, seen, known, bds, next) ==
  view # Null /\ view.notes # Null =>
    /\ view.seenId = seen[view.space]
    /\ InOrder(view.space, view.notes, seen, known, bds, next)
    /\ \A j \in DOMAIN box :
         box[j].t = "notes" /\ box[j].space = view.space => Follows(view.notes, box[j].notes)

MarksSeen(seen, known, bds, next) ==
  \A s \in Boards : seen[s] < next /\ ShownUpTo(bds[s], seen[s], known)

SeenOf(view, box, seen, known, bds, next) ==
  /\ MarksSeen(seen, known, bds, next)
  /\ BoxSeen(box, seen, known, bds, next)
  /\ SessionSeen(view, box, seen, known, bds, next)

BoardsNumbered(bds, next) == \A s \in Boards : Numbered(bds[s], next)

SeenInv ==
  crashes = 0 =>
    /\ up /\ nextNoteId = posts + 1 /\ BoardsNumbered(boards, nextNoteId)
    /\ \A p \in Persons :
         SeenOf(session[p], inbox[p], chatSeen[p], shown[p], boards, nextNoteId)

(* Boards gain notes under new ids only.                                   *)
Grown(bds, bds2, next) ==
  \A s \in Boards : \A n \in ToSet(bds2[s]) : n.id \in Ids(bds[s]) \/ next <= n.id

LEMMA FollowsItself == ASSUME NEW notes PROVE Follows(notes, notes)
BY DEF Follows, Ids

LEMMA SeenGrows ==
  ASSUME NEW view \in ChatViews \union {Null}, NEW box \in Seq(Messages),
         NEW seen \in [Boards -> Nat], NEW known \in SUBSET Nat,
         NEW bds \in [Boards -> Seq(Note)], NEW next \in Nat,
         NEW bds2 \in [Boards -> Seq(Note)], NEW next2 \in Nat,
         SeenOf(view, box, seen, known, bds, next),
         next <= next2, Grown(bds, bds2, next)
  PROVE  SeenOf(view, box, seen, known, bds2, next2)
<1>1. ASSUME NEW s \in Boards, NEW notes \in Seq(Note),
             InOrder(s, notes, seen, known, bds, next)
      PROVE  InOrder(s, notes, seen, known, bds2, next2)
  <2>1. \A n \in ToSet(notes) : n.id \in Nat
    BY NotesOfList
  <2>2. \A n \in ToSet(bds2[s]) : n.id \in Nat
    BY NotesOfList
  <2>3. Numbered(notes, next2)
    BY <1>1, <2>1 DEF InOrder, Numbered
  <2>4. ASSUME NEW n \in ToSet(bds2[s]), NEW m \in ToSet(notes), n.id <= m.id
        PROVE  n.id \in Ids(notes)
    <3>1. m.id < next /\ m.id \in Nat /\ n.id \in Nat
      BY <1>1, <2>1, <2>2 DEF InOrder, Numbered
    <3>2. ~(next <= n.id)
      BY <2>4, <3>1
    <3>3. PICK k \in ToSet(bds[s]) : k.id = n.id
      BY <3>2 DEF Grown, Ids
    <3>4. k.id \in Ids(notes)
      BY <1>1, <2>4, <3>3 DEF InOrder, Follows
    <3> QED BY <3>3, <3>4
  <2>5. Follows(notes, bds2[s])
    BY <2>4 DEF Follows
  <2> QED BY <1>1, <2>3, <2>5 DEF InOrder
<1>2. MarksSeen(seen, known, bds2, next2)
  <2> SUFFICES ASSUME NEW s \in Boards
               PROVE  seen[s] < next2 /\ ShownUpTo(bds2[s], seen[s], known)
    BY DEF MarksSeen
  <2>1. seen[s] \in Nat /\ seen[s] < next /\ ShownUpTo(bds[s], seen[s], known)
    BY DEF SeenOf, MarksSeen
  <2>2. ASSUME NEW n \in ToSet(bds2[s]), n.id <= seen[s] PROVE n.id \in known
    <3>1. n.id \in Nat
      BY NotesOfList
    <3>2. ~(next <= n.id)
      BY <2>1, <2>2, <3>1
    <3>3. PICK k \in ToSet(bds[s]) : k.id = n.id
      BY <3>2 DEF Grown, Ids
    <3> QED BY <2>1, <2>2, <3>3 DEF ShownUpTo
  <2> QED BY <2>1, <2>2 DEF ShownUpTo
<1>3. BoxSeen(box, seen, known, bds2, next2)
  <2>1. ASSUME NEW i \in DOMAIN box, box[i].t = "notes"
        PROVE  InOrder(box[i].space, box[i].notes, seen, known, bds2, next2)
    <3>1. box[i] \in Messages
      BY LenProperties
    <3>2. box[i].space \in Boards /\ box[i].notes \in Seq(Note)
      BY <2>1, <3>1, MessageFields
    <3>3. InOrder(box[i].space, box[i].notes, seen, known, bds, next)
      BY <2>1 DEF SeenOf, BoxSeen
    <3> QED BY <1>1, <3>2, <3>3
  <2> QED BY <2>1 DEF BoxSeen, SeenOf
<1>4. SessionSeen(view, box, seen, known, bds2, next2)
  <2>1. ASSUME view # Null, view.notes # Null
        PROVE  InOrder(view.space, view.notes, seen, known, bds2, next2)
    <3>1. view.space \in Boards /\ view.notes \in Seq(Note)
      BY <2>1 DEF ChatViews
    <3>2. InOrder(view.space, view.notes, seen, known, bds, next)
      BY <2>1 DEF SeenOf, SessionSeen
    <3> QED BY <1>1, <3>1, <3>2
  <2> QED BY <2>1 DEF SessionSeen, SeenOf
<1> QED
  BY <1>2, <1>3, <1>4 DEF SeenOf

(* The board of this moment joins what is on its way.                      *)
LEMMA SeenSent ==
  ASSUME NEW view \in ChatViews \union {Null}, NEW box \in Seq(Messages),
         NEW seen, NEW known, NEW bds, NEW next, NEW m \in Messages,
         SeenOf(view, box, seen, known, bds, next), BoardsNumbered(bds, next),
         m.t = "notes" => m.notes = bds[m.space]
  PROVE  SeenOf(view, Append(box, m), seen, known, bds, next)
<1> DEFINE new == Append(box, m)
<1>1. /\ Len(box) \in Nat /\ DOMAIN box = 1 .. Len(box) /\ DOMAIN new = 1 .. Len(box) + 1
      /\ \A i \in 1 .. Len(box) : new[i] = box[i]
      /\ new[Len(box) + 1] = m
  BY Appended
<1>2. m.space \in Boards
  BY MessageFields
<1> HIDE DEF new
<1>3. ASSUME m.t = "notes" PROVE InOrder(m.space, m.notes, seen, known, bds, next)
  BY <1>2, <1>3, FollowsItself DEF InOrder, SeenOf, MarksSeen, BoardsNumbered
<1>4. \A i \in DOMAIN new : (i \in DOMAIN box /\ new[i] = box[i]) \/ (i = Len(box) + 1 /\ new[i] = m)
  BY <1>1
<1>5. BoxSeen(new, seen, known, bds, next)
  <2>1. ASSUME NEW i \in DOMAIN new, new[i].t = "notes"
        PROVE  InOrder(new[i].space, new[i].notes, seen, known, bds, next)
    BY <1>3, <1>4, <2>1 DEF SeenOf, BoxSeen
  <2>2. ASSUME NEW i \in DOMAIN new, NEW j \in DOMAIN new, i < j, new[i].t = "notes",
               new[j].t = "notes", new[i].space = new[j].space
        PROVE  Follows(new[i].notes, new[j].notes)
    <3>1. i \in DOMAIN box /\ new[i] = box[i]
      BY <1>1, <2>2
    <3>2. CASE j \in DOMAIN box /\ new[j] = box[j]
      BY <2>2, <3>1, <3>2 DEF SeenOf, BoxSeen
    <3>3. CASE new[j] = m
      <4>1. Follows(box[i].notes, bds[box[i].space])
        BY <2>2, <3>1 DEF SeenOf, BoxSeen, InOrder
      <4> QED BY <2>2, <3>1, <3>3, <4>1
    <3> QED BY <1>4, <3>2, <3>3
  <2> QED BY <2>1, <2>2 DEF BoxSeen
<1>6. SessionSeen(view, new, seen, known, bds, next)
  <2> SUFFICES ASSUME view # Null, view.notes # Null
               PROVE  /\ view.seenId = seen[view.space]
                      /\ InOrder(view.space, view.notes, seen, known, bds, next)
                      /\ \A j \in DOMAIN new :
                           new[j].t = "notes" /\ new[j].space = view.space
                             => Follows(view.notes, new[j].notes)
    BY DEF SessionSeen
  <2>1. /\ view.seenId = seen[view.space]
        /\ InOrder(view.space, view.notes, seen, known, bds, next)
        /\ \A j \in DOMAIN box :
             box[j].t = "notes" /\ box[j].space = view.space => Follows(view.notes, box[j].notes)
    BY DEF SeenOf, SessionSeen
  <2>2. Follows(view.notes, bds[view.space])
    BY <2>1 DEF InOrder
  <2> QED BY <1>4, <2>1, <2>2
<1> QED
  BY <1>5, <1>6 DEF SeenOf, new

(* A message less.                                                         *)
LEMMA SeenTail ==
  ASSUME NEW view, NEW box \in Seq(Messages), box # <<>>,
         NEW seen, NEW known, NEW bds, NEW next,
         SeenOf(view, box, seen, known, bds, next)
  PROVE  /\ SeenOf(view, Tail(box), seen, known, bds, next)
         /\ \A v : /\ Head(box).t = "notes" /\ v.space = Head(box).space
                   /\ v.notes = Head(box).notes /\ v.seenId = seen[v.space]
                   => SeenOf(v, Tail(box), seen, known, bds, next)
         /\ \A v : v.notes = Null => SeenOf(v, Tail(box), seen, known, bds, next)
<1> DEFINE new == Tail(box)
           m == Head(box)
<1>1. /\ Len(box) \in Nat \ {0} /\ DOMAIN box = 1 .. Len(box)
      /\ DOMAIN new = 1 .. Len(box) - 1
      /\ \A i \in 1 .. Len(box) - 1 : new[i] = box[i + 1]
      /\ m = box[1]
  BY HeadTailProperties, LenProperties, EmptySeq
<1> HIDE DEF new, m
<1>2. \A i \in DOMAIN new : i + 1 \in DOMAIN box /\ 1 < i + 1 /\ new[i] = box[i + 1]
  BY <1>1
<1>3. \A i, j \in DOMAIN new : i < j => i + 1 < j + 1
  BY <1>1
<1>4. BoxSeen(new, seen, known, bds, next)
  BY <1>2, <1>3 DEF SeenOf, BoxSeen
<1>5. SeenOf(view, new, seen, known, bds, next)
  BY <1>2, <1>4 DEF SeenOf, SessionSeen
<1>6. ASSUME NEW v, m.t = "notes", v.space = m.space, v.notes = m.notes, v.seenId = seen[v.space]
      PROVE  SeenOf(v, new, seen, known, bds, next)
  <2>1. 1 \in DOMAIN box
    BY <1>1
  <2>2. InOrder(v.space, v.notes, seen, known, bds, next)
    BY <1>1, <1>6, <2>1 DEF SeenOf, BoxSeen
  <2>3. ASSUME NEW j \in DOMAIN new, new[j].t = "notes", new[j].space = v.space
        PROVE  Follows(v.notes, new[j].notes)
    <3>1. j + 1 \in DOMAIN box /\ 1 < j + 1 /\ new[j] = box[j + 1]
      BY <1>2
    <3> QED BY <1>1, <1>6, <2>1, <2>3, <3>1 DEF SeenOf, BoxSeen
  <2> QED BY <1>4, <1>6, <2>2, <2>3 DEF SeenOf, SessionSeen
<1>7. ASSUME NEW v, v.notes = Null PROVE SeenOf(v, new, seen, known, bds, next)
  BY <1>4, <1>7 DEF SeenOf, SessionSeen
<1> QED
  BY <1>5, <1>6, <1>7 DEF new, m

(* Reading a board marks it, and shows every note it marks.                *)
LEMMA SeenRead ==
  ASSUME NEW view \in ChatViews, view.notes \in Seq(Note), NEW box \in Seq(Messages),
         NEW seen \in [Boards -> Nat], NEW known \in SUBSET Nat,
         NEW bds \in [Boards -> Seq(Note)], NEW next \in Nat,
         SeenOf(view, box, seen, known, bds, next),
         view # Null, view.notes # Null,
         NEW newest \in Nat, newest \in Ids(view.notes) \union {view.seenId},
         \A x \in Ids(view.notes) \union {view.seenId} : x <= newest,
         NEW view2, view2.space = view.space, view2.notes = view.notes, view2.seenId = newest,
         NEW seen2, seen2 = [seen EXCEPT ![view.space] = newest],
         NEW known2, known2 = known \union Serials(view.notes)
  PROVE  SeenOf(view2, box, seen2, known2, bds, next)
<1> DEFINE s == view.space
           b == view.notes
<1>1. s \in Boards /\ view.seenId = seen[s] /\ InOrder(s, b, seen, known, bds, next)
  BY DEF SeenOf, SessionSeen, ChatViews
<1>2. seen2[s] = newest /\ seen2 \in [Boards -> Nat] /\ \A t \in Boards \ {s} : seen2[t] = seen[t]
  BY <1>1
<1>3. \A n \in ToSet(b) : n.id \in Nat /\ n.id = n.serial /\ n.id < next /\ n.id \in known2
  <2>1. \A n \in ToSet(b) : n.id \in Nat /\ n.id = n.serial /\ n.id < next
    BY <1>1, NotesOfList DEF InOrder, Numbered
  <2> QED BY <2>1 DEF Serials
<1>4. ASSUME NEW c \in Seq(Note), ShownUpTo(c, seen[s], known), Follows(b, c)
      PROVE  ShownUpTo(c, newest, known2)
  <2> SUFFICES ASSUME NEW n \in ToSet(c), n.id <= newest PROVE n.id \in known2
    BY DEF ShownUpTo
  <2>1. CASE newest = view.seenId
    BY <1>1, <1>4, <2>1 DEF ShownUpTo
  <2>2. CASE newest \in Ids(b)
    <3>1. PICK m \in ToSet(b) : m.id = newest
      BY <2>2 DEF Ids
    <3>2. PICK k \in ToSet(b) : k.id = n.id
      BY <1>4, <3>1 DEF Follows, Ids
    <3> QED BY <1>3, <3>2
  <2> QED BY <2>1, <2>2
<1>5. newest < next
  BY <1>1, <1>3 DEF SeenOf, MarksSeen, Ids
<1>6. ASSUME NEW t \in Boards, NEW c \in Seq(Note), ShownUpTo(c, seen[t], known),
             t = s => Follows(b, c)
      PROVE  ShownUpTo(c, seen2[t], known2)
  <2>1. CASE t = s
    BY <1>2, <1>4, <1>6, <2>1
  <2>2. CASE t # s
    BY <1>2, <1>6, <2>2 DEF ShownUpTo
  <2> QED BY <2>1, <2>2
<1>7. MarksSeen(seen2, known2, bds, next)
  <2> SUFFICES ASSUME NEW t \in Boards
               PROVE  seen2[t] < next /\ ShownUpTo(bds[t], seen2[t], known2)
    BY DEF MarksSeen
  <2>1. seen[t] < next /\ ShownUpTo(bds[t], seen[t], known) /\ bds[t] \in Seq(Note)
    BY DEF SeenOf, MarksSeen
  <2>2. seen2[t] < next
    BY <1>2, <1>5, <2>1
  <2>3. t = s => Follows(b, bds[t])
    BY <1>1 DEF InOrder
  <2> QED BY <1>6, <2>1, <2>2, <2>3
<1>8. ASSUME NEW t \in Boards, NEW c \in Seq(Note), InOrder(t, c, seen, known, bds, next),
             t = s => Follows(b, c)
      PROVE  InOrder(t, c, seen2, known2, bds, next)
  BY <1>6, <1>8 DEF InOrder
<1>9. BoxSeen(box, seen2, known2, bds, next)
  <2>1. ASSUME NEW i \in DOMAIN box, box[i].t = "notes"
        PROVE  InOrder(box[i].space, box[i].notes, seen2, known2, bds, next)
    <3>1. box[i] \in Messages
      BY LenProperties
    <3>2. box[i].space \in Boards /\ box[i].notes \in Seq(Note)
      BY <2>1, <3>1, MessageFields
    <3>3. InOrder(box[i].space, box[i].notes, seen, known, bds, next)
      BY <2>1 DEF SeenOf, BoxSeen
    <3>4. box[i].space = s => Follows(b, box[i].notes)
      BY <2>1 DEF SeenOf, SessionSeen
    <3> QED BY <1>8, <3>2, <3>3, <3>4
  <2> QED BY <2>1 DEF BoxSeen, SeenOf
<1>10. SessionSeen(view2, box, seen2, known2, bds, next)
  <2>1. InOrder(s, b, seen2, known2, bds, next)
    BY <1>1, <1>8, FollowsItself
  <2>2. \A j \in DOMAIN box :
          box[j].t = "notes" /\ box[j].space = s => Follows(b, box[j].notes)
    BY DEF SeenOf, SessionSeen
  <2> QED BY <1>2, <2>1, <2>2 DEF SessionSeen
<1> QED
  BY <1>7, <1>9, <1>10 DEF SeenOf

SeenBy(p) == SeenOf(session[p], inbox[p], chatSeen[p], shown[p], boards, nextNoteId)

LEMMA ClientTypes ==
  ASSUME ChatTyped, NEW p \in Persons
  PROVE  /\ session[p] \in ChatViews \union {Null} /\ inbox[p] \in Seq(Messages)
         /\ chatSeen[p] \in [Boards -> Nat] /\ shown[p] \in SUBSET Nat
         /\ boards \in [Boards -> Seq(Note)] /\ nextNoteId \in Nat
<1>1. session[p] \in ChatViews \union {Null}
  BY DEF ChatTyped, SessionTyped
<1> QED
  BY <1>1 DEF ChatTyped

(* A change of a chat: the boards grow, and who is there is sent the board. *)
LEMMA SeenChanged ==
  ASSUME ChatTyped, StoreInv, SeenInv, NEW p \in Persons, Changes(p)
  PROVE  SeenInv'
<1> SUFFICES ASSUME crashes' = 0
             PROVE  /\ up' /\ nextNoteId' = posts' + 1 /\ BoardsNumbered(boards', nextNoteId')
                    /\ \A q \in Persons :
                         SeenOf(session'[q], inbox'[q], chatSeen'[q], shown'[q], boards', nextNoteId')
  BY DEF SeenInv
<1>1. PICK table, board, next :
        Legal(p, table, board, next) /\ Change(p, at[p], table, board, next)
  BY DEF Changes
<1> DEFINE s == at[p]
<1>2. up /\ s \in Boards /\ board \in Seq(Note) /\ next \in Nat
  BY <1>1, ActsWhere DEF Legal
<1>3. Commit(p, s, board, next) \/ Down
  BY <1>1 DEF Change
<1>4. ~Down
  <2>1. crashes \in Nat
    BY DEF ChatTyped
  <2>2. ASSUME Down PROVE crashes' = crashes + 1
    BY <2>2 DEF Down
  <2> QED BY <2>1, <2>2
<1>5. /\ posts' \in Nat /\ next - nextNoteId = posts' - posts /\ posts <= posts'
      /\ Lists(board, NotesIn(table, s))
      /\ \A r \in table : r.note.id < next
      /\ \A n \in ToSet(board) :
           \/ \E m \in ToSet(boards[s]) : n.id = m.id /\ n.serial = m.serial
           \/ n.id = nextNoteId /\ n.serial = posts' /\ posts' = posts + 1
  BY <1>1 DEF Legal
<1> HIDE DEF s
<1>6. Committed(s, board, next)
  BY <1>2, <1>3, <1>4, CommitEffect
<1>7. /\ up' = up /\ crashes' = crashes /\ at' = at
      /\ session' = session /\ chatSeen' = chatSeen /\ shown' = shown
      /\ nextNoteId' = next /\ boards' \in [Boards -> Seq(Note)]
      /\ \A t \in Boards : boards'[t] = IF t = s THEN board ELSE boards[t]
      /\ \A q \in Persons : inbox'[q] = Sent(q, s, board)
  BY <1>6 DEF Committed
<1>8. /\ nextNoteId = posts + 1 /\ BoardsNumbered(boards, nextNoteId)
      /\ \A q \in Persons : SeenBy(q)
  BY <1>7 DEF SeenInv, SeenBy
<1>9. next = posts' + 1 /\ nextNoteId <= next /\ nextNoteId \in Nat /\ posts \in Nat
  <2>1. posts \in Nat /\ nextNoteId \in Nat
    BY DEF ChatTyped
  <2> QED BY <1>2, <1>5, <1>8, <2>1
<1>10. \A t \in Boards : \A n \in ToSet(boards[t]) : n.id \in Nat /\ n.id = n.serial /\ n.id < nextNoteId
  <2>1. \A t \in Boards : \A n \in ToSet(boards[t]) : n.id \in Nat
    BY NotesOfList DEF ChatTyped
  <2> QED BY <1>8, <2>1 DEF BoardsNumbered, Numbered
<1>11. ASSUME NEW n \in ToSet(board)
       PROVE  n.id = n.serial /\ n.id < next /\ (n.id \in Ids(boards[s]) \/ nextNoteId <= n.id)
  <2>1. n.id < next
    <3>1. n \in NotesIn(table, s)
      BY <1>5 DEF Lists
    <3> QED BY <1>5, <3>1 DEF NotesIn
  <2>2. CASE \E m \in ToSet(boards[s]) : n.id = m.id /\ n.serial = m.serial
    BY <1>2, <1>10, <2>1, <2>2 DEF Ids
  <2>3. CASE n.id = nextNoteId /\ n.serial = posts' /\ posts' = posts + 1
    BY <1>8, <1>9, <2>1, <2>3
  <2> QED BY <1>5, <2>2, <2>3
<1>12. Grown(boards, boards', nextNoteId)
  <2> SUFFICES ASSUME NEW t \in Boards, NEW n \in ToSet(boards'[t])
               PROVE  n.id \in Ids(boards[t]) \/ nextNoteId <= n.id
    BY DEF Grown
  <2>1. CASE t = s
    BY <1>7, <1>11, <2>1
  <2>2. CASE t # s
    BY <1>7, <2>2 DEF Ids
  <2> QED BY <2>1, <2>2
<1>13. BoardsNumbered(boards', next)
  <2> SUFFICES ASSUME NEW t \in Boards, NEW n \in ToSet(boards'[t])
               PROVE  n.id = n.serial /\ n.id < next
    BY DEF BoardsNumbered, Numbered
  <2>1. CASE t = s
    BY <1>7, <1>11, <2>1
  <2>2. CASE t # s
    BY <1>2, <1>7, <1>9, <1>10, <2>2
  <2> QED BY <2>1, <2>2
<1>14. ASSUME NEW q \in Persons
       PROVE  SeenOf(session[q], inbox'[q], chatSeen[q], shown[q], boards', next)
  <2>1. /\ session[q] \in ChatViews \union {Null} /\ inbox[q] \in Seq(Messages)
        /\ chatSeen[q] \in [Boards -> Nat] /\ shown[q] \in SUBSET Nat
        /\ boards \in [Boards -> Seq(Note)]
    BY ClientTypes
  <2>2. SeenOf(session[q], inbox[q], chatSeen[q], shown[q], boards, nextNoteId)
    BY <1>8 DEF SeenBy
  <2>3. SeenOf(session[q], inbox[q], chatSeen[q], shown[q], boards', next)
    BY <1>2, <1>7, <1>9, <1>12, <2>1, <2>2, SeenGrows
  <2>4. CASE at[q] = s
    <3> DEFINE m == Notes(s, board)
    <3>1. m \in Messages /\ m.space = s /\ m.notes = board
      BY <1>2, NotesMessage
    <3>2. m.notes = boards'[m.space] /\ inbox'[q] = Append(inbox[q], m)
      BY <1>2, <1>7, <2>4, <3>1 DEF Sent
    <3> HIDE DEF m
    <3>3. SeenOf(session[q], Append(inbox[q], m), chatSeen[q], shown[q], boards', next)
      BY <1>13, <2>1, <2>3, <3>1, <3>2, SeenSent
    <3> QED BY <3>2, <3>3
  <2>5. CASE at[q] # s
    BY <1>7, <2>3, <2>5 DEF Sent
  <2> QED BY <2>4, <2>5
<1> QED
  BY <1>2, <1>7, <1>9, <1>13, <1>14

(* Nobody else's marks move.                                               *)
LEMMA QuietMarks ==
  ASSUME ChatTyped, NEW p \in Persons, Quiet(p), NEW q \in Persons \ {p}
  PROVE  chatSeen'[q] = chatSeen[q] /\ shown'[q] = shown[q]
<1>1. DOMAIN chatSeen = Persons /\ DOMAIN shown = Persons
  BY DEF ChatTyped
<1>2. ASSUME NEW view, Read(p, view) \/ Keep(p, view)
      PROVE  chatSeen'[q] = chatSeen[q] /\ shown'[q] = shown[q]
  BY <1>1, <1>2 DEF Read, Keep
<1>3. CASE Handle(p)
  BY <1>2, <1>3 DEF Handle, HandleNotes, HandleSpace, clientVars
<1>4. CASE OpenChat(p)
  BY <1>2, <1>4 DEF OpenChat
<1>5. CASE CloseChat(p)
  BY <1>2, <1>5 DEF CloseChat
<1>6. CASE ChatJoin(p) \/ ChatLeave(p) \/ Owed(p)
           \/ (\E s \in Boards : ChatEnter(p, s)) \/ \E id \in 1 .. MaxPosts : Resend(p, id)
  BY <1>6 DEF ChatJoin, ChatLeave, Owed, ChatEnter, Resend, clientVars
<1> QED
  BY <1>3, <1>4, <1>5, <1>6 DEF Quiet

(* Showing a session open, its mark the device's.                          *)
LEMMA SeenShown ==
  ASSUME ChatTyped, NEW p \in Persons, NEW view \in ChatViews, NEW box \in Seq(Messages),
         view.notes # Null, IF view.open THEN Read(p, view) ELSE Keep(p, view),
         SeenOf(view, box, chatSeen[p], shown[p], boards, nextNoteId)
  PROVE  SeenOf(session'[p], box, chatSeen'[p], shown'[p], boards, nextNoteId)
<1>1. view.notes \in Seq(Note) /\ view # Null /\ view.space \in Boards
  BY ChatAssumption DEF ChatViews, ChatAssumption
<1>2. CASE Read(p, view)
  <2>1. PICK newest \in Nat :
          /\ newest \in Ids(view.notes) \union {view.seenId}
          /\ \A x \in Ids(view.notes) \union {view.seenId} : x <= newest
          /\ session'[p].space = view.space /\ session'[p].notes = view.notes
          /\ session'[p].seenId = newest
          /\ chatSeen' = [chatSeen EXCEPT ![p][view.space] = newest]
          /\ shown' = [shown EXCEPT ![p] = @ \union Serials(view.notes)]
    BY <1>1, <1>2, ReadEffect
  <2>2. /\ chatSeen'[p] = [chatSeen[p] EXCEPT ![view.space] = newest]
        /\ shown'[p] = shown[p] \union Serials(view.notes)
    BY <2>1 DEF ChatTyped
  <2>3. /\ chatSeen[p] \in [Boards -> Nat] /\ shown[p] \in SUBSET Nat
        /\ boards \in [Boards -> Seq(Note)] /\ nextNoteId \in Nat
    BY ClientTypes
  <2> DEFINE view2 == session'[p]
             seen == chatSeen[p]
             seen2 == chatSeen'[p]
             known == shown[p]
             known2 == shown'[p]
  <2>4. SeenOf(view, box, seen, known, boards, nextNoteId)
    OBVIOUS
  <2>5. /\ seen \in [Boards -> Nat] /\ known \in SUBSET Nat
        /\ seen2 = [seen EXCEPT ![view.space] = newest]
        /\ known2 = known \union Serials(view.notes)
        /\ view2.space = view.space /\ view2.notes = view.notes /\ view2.seenId = newest
    BY <2>1, <2>2, <2>3
  <2>6. SeenOf(view2, box, seen2, known2, boards, nextNoteId)
    <3> HIDE DEF view2, seen, seen2, known, known2
    <3> QED BY <1>1, <2>1, <2>3, <2>4, <2>5, SeenRead
  <2> QED BY <2>6
<1>3. CASE Keep(p, view)
  BY <1>3, KeepEffect
<1> QED
  BY <1>2, <1>3

LEMMA SeenHandled ==
  ASSUME ChatTyped, NEW p \in Persons, SeenBy(p), Handle(p)
  PROVE  SeenOf(session'[p], inbox'[p], chatSeen'[p], shown'[p], boards, nextNoteId)
<1> DEFINE box == inbox[p]
           m == Head(box)
<1>1. box \in Seq(Messages) /\ box # <<>> /\ inbox'[p] = Tail(box)
  BY DEF Handle, ChatTyped
<1>2. m \in Messages /\ Tail(box) \in Seq(Messages)
  BY <1>1, HeadTailProperties
<1> DEFINE seen == chatSeen[p]
           known == shown[p]
<1>3. /\ SeenOf(session[p], Tail(box), seen, known, boards, nextNoteId)
      /\ \A v : /\ m.t = "notes" /\ v.space = m.space
                /\ v.notes = m.notes /\ v.seenId = seen[v.space]
                => SeenOf(v, Tail(box), seen, known, boards, nextNoteId)
      /\ \A v : v.notes = Null => SeenOf(v, Tail(box), seen, known, boards, nextNoteId)
  <2>1. SeenOf(session[p], box, seen, known, boards, nextNoteId)
    BY DEF SeenBy
  <2> HIDE DEF box, seen, known
  <2> QED BY <1>1, <2>1, SeenTail
<1>4. \/ m.t = "notes" /\ UNCHANGED clientVars
      \/ /\ m.t = "notes" /\ session[p] \in ChatViews /\ m.space = session[p].space
         /\ \E view \in ChatViews :
              /\ view.space = m.space /\ view.notes = m.notes
              /\ view.seenId = IF session[p].notes = Null THEN seen[m.space]
                                                          ELSE session[p].seenId
              /\ IF view.open THEN Read(p, view) ELSE Keep(p, view)
      \/ session'[p].notes = Null /\ UNCHANGED <<chatSeen, shown>>
  BY HandleEffect
<1> HIDE DEF box, m
<1>5. CASE UNCHANGED clientVars
  BY <1>1, <1>3, <1>5 DEF clientVars
<1>6. CASE session'[p].notes = Null /\ UNCHANGED <<chatSeen, shown>>
  BY <1>1, <1>3, <1>6
<1>7. ASSUME m.t = "notes", session[p] \in ChatViews, m.space = session[p].space,
             NEW view \in ChatViews, view.space = m.space, view.notes = m.notes,
             view.seenId = IF session[p].notes = Null THEN seen[m.space] ELSE session[p].seenId,
             IF view.open THEN Read(p, view) ELSE Keep(p, view)
      PROVE  SeenOf(session'[p], inbox'[p], chatSeen'[p], shown'[p], boards, nextNoteId)
  <2>1. session[p] # Null
    BY <1>7, ChatAssumption DEF ChatAssumption
  <2>2. session[p].notes # Null => session[p].seenId = seen[session[p].space]
    BY <1>3, <2>1 DEF SeenOf, SessionSeen
  <2>3. view.seenId = seen[view.space]
    BY <1>7, <2>2
  <2>4. SeenOf(view, Tail(box), seen, known, boards, nextNoteId)
    BY <1>3, <1>7, <2>3
  <2>5. view.notes # Null
    BY <1>2, <1>7, MessageFields, ChatAssumption DEF ChatAssumption
  <2>6. SeenOf(session'[p], Tail(box), chatSeen'[p], shown'[p], boards, nextNoteId)
    BY <1>2, <1>7, <2>4, <2>5, SeenShown
  <2> QED BY <1>1, <2>6
<1> QED
  BY <1>4, <1>5, <1>6, <1>7

LEMMA SeenQuiet ==
  ASSUME ChatTyped, NEW p \in Persons, SeenBy(p), BoardsNumbered(boards, nextNoteId), Quiet(p)
  PROVE  SeenOf(session'[p], inbox'[p], chatSeen'[p], shown'[p], boards, nextNoteId)
<1>1. /\ session[p] \in ChatViews \union {Null} /\ inbox[p] \in Seq(Messages)
      /\ boards \in [Boards -> Seq(Note)]
  BY ClientTypes
<1>2. /\ DOMAIN inbox = Persons /\ DOMAIN session = Persons /\ SessionTyped(p)
      /\ at[p] \in Boards \union {Nowhere}
      /\ owed[p] \in {<<>>, <<"notes">>, <<"snapshot", "notes">>}
  BY DEF ChatTyped
<1> DEFINE seen == chatSeen[p]
           known == shown[p]
<1>3. SeenOf(session[p], inbox[p], seen, known, boards, nextNoteId)
  BY DEF SeenBy
<1>4. ASSUME inbox'[p] = inbox[p], UNCHANGED clientVars
      PROVE  SeenOf(session'[p], inbox'[p], chatSeen'[p], shown'[p], boards, nextNoteId)
  BY <1>3, <1>4 DEF clientVars
<1>5. ASSUME NEW m \in Messages, inbox'[p] = Append(inbox[p], m), UNCHANGED clientVars,
             m.t = "notes" => m.notes = boards[m.space]
      PROVE  SeenOf(session'[p], inbox'[p], chatSeen'[p], shown'[p], boards, nextNoteId)
  <2>1. SeenOf(session[p], Append(inbox[p], m), seen, known, boards, nextNoteId)
    <3> HIDE DEF seen, known
    <3> QED BY <1>1, <1>3, <1>5, SeenSent
  <2> QED BY <1>5, <2>1 DEF clientVars
<1>6. SeenOf(Null, <<>>, seen, known, boards, nextNoteId)
  BY <1>3 DEF SeenOf, BoxSeen, SessionSeen
<1>7. CASE ChatJoin(p)
  <2>1. at[p] = Nowhere /\ inbox'[p] = <<WelcomeMsg>> /\ UNCHANGED clientVars
    BY <1>2, <1>7 DEF ChatJoin
  <2>2. inbox[p] = <<>> /\ <<WelcomeMsg>> = Append(<<>>, WelcomeMsg)
    BY <1>2, <2>1 DEF SessionTyped, Member
  <2>3. inbox'[p] = Append(inbox[p], WelcomeMsg) /\ WelcomeMsg \in Messages /\ WelcomeMsg.t # "notes"
    BY <2>1, <2>2, SpaceMessage, ChatAssumption DEF ChatAssumption
  <2> QED BY <2>1, <2>3, <1>5
<1>8. CASE ChatLeave(p)
  <2>1. session'[p] = Null /\ inbox'[p] = <<>> /\ chatSeen' = chatSeen /\ shown' = shown
    BY <1>2, <1>8 DEF ChatLeave
  <2> QED BY <1>6, <2>1
<1>9. CASE Owed(p)
  <2> DEFINE m == IF Head(owed[p]) = "snapshot" THEN Snapshot(at[p])
                                                ELSE Notes(at[p], boards[at[p]])
  <2>1. /\ Member(p) /\ UNCHANGED clientVars /\ inbox'[p] = Append(inbox[p], m)
    BY <1>2, <1>9 DEF Owed
  <2>2. at[p] \in Boards
    BY <1>2, <2>1 DEF Member
  <2>3. m \in Messages /\ (m.t = "notes" => m.notes = boards[m.space])
    BY <1>1, <2>2, NotesMessage, SpaceMessage
  <2> HIDE DEF m
  <2> QED BY <2>1, <2>3, <1>5
<1>10. CASE Handle(p)
  BY <1>10, SeenHandled
<1>11. CASE OpenChat(p)
  <2> DEFINE view == [session[p] EXCEPT !.open = TRUE]
  <2>1. /\ session[p] # Null /\ (IF view.notes = Null THEN Keep(p, view) ELSE Read(p, view))
        /\ inbox' = inbox
    BY <1>11 DEF OpenChat
  <2>2. /\ view \in ChatViews /\ view.space = session[p].space /\ view.notes = session[p].notes
        /\ view.seenId = session[p].seenId /\ view.open
    BY <1>1, <2>1 DEF ChatViews
  <2> HIDE DEF view
  <2>3. SeenOf(view, inbox[p], seen, known, boards, nextNoteId)
    BY <1>3, <2>1, <2>2 DEF SeenOf, SessionSeen
  <2>4. CASE view.notes # Null
    <3>1. Read(p, view)
      BY <2>1, <2>4
    <3>2. SeenOf(session'[p], inbox[p], chatSeen'[p], shown'[p], boards, nextNoteId)
      BY <1>1, <2>2, <2>3, <2>4, <3>1, SeenShown
    <3> QED BY <2>1, <3>2
  <2>5. CASE view.notes = Null
    BY <2>1, <2>3, <2>5, KeepEffect
  <2> QED BY <2>4, <2>5
<1>12. CASE CloseChat(p)
  <2> DEFINE view == [session[p] EXCEPT !.open = FALSE]
  <2>1. session[p] # Null /\ Keep(p, view) /\ inbox' = inbox
    BY <1>12 DEF CloseChat
  <2>2. /\ view \in ChatViews /\ view.space = session[p].space /\ view.notes = session[p].notes
        /\ view.seenId = session[p].seenId
    BY <1>1, <2>1 DEF ChatViews
  <2> HIDE DEF view
  <2>3. SeenOf(view, inbox[p], seen, known, boards, nextNoteId)
    BY <1>3, <2>1, <2>2 DEF SeenOf, SessionSeen
  <2> QED BY <2>1, <2>3, KeepEffect
<1>13. ASSUME NEW s \in Boards, ChatEnter(p, s)
       PROVE  SeenOf(session'[p], inbox'[p], chatSeen'[p], shown'[p], boards, nextNoteId)
  BY <1>4, <1>13 DEF ChatEnter
<1>14. ASSUME NEW id, Resend(p, id)
       PROVE  SeenOf(session'[p], inbox'[p], chatSeen'[p], shown'[p], boards, nextNoteId)
  <2> DEFINE m == Notes(at[p], boards[at[p]])
  <2>1. Member(p) /\ UNCHANGED clientVars /\ inbox' = [inbox EXCEPT ![p] = Append(@, m)]
    BY <1>14 DEF Resend, Picks, Acts
  <2>2. m \in Messages /\ m.notes = boards[m.space]
    BY <1>1, <1>2, <2>1, NotesMessage DEF Member
  <2> HIDE DEF m
  <2>3. inbox'[p] = Append(inbox[p], m)
    BY <1>2, <2>1
  <2> QED BY <2>1, <2>2, <2>3, <1>5
<1> QED
  BY <1>7, <1>8, <1>9, <1>10, <1>11, <1>12, <1>13, <1>14 DEF Quiet

LEMMA SeenNext ==
  ASSUME ChatTyped, StoreInv, SeenInv, [ChatNext]_chatVars
  PROVE  SeenInv'
<1>1. ASSUME NEW p \in Persons, Changes(p) PROVE SeenInv'
  BY <1>1, SeenChanged
<1>2. ASSUME NEW p \in Persons, Quiet(p) PROVE SeenInv'
  <2>1. UNCHANGED <<up, crashes, posts, boards, nextNoteId>>
    BY <1>2, QuietServer
  <2> SUFFICES ASSUME crashes' = 0
               PROVE  /\ up' /\ nextNoteId' = posts' + 1 /\ BoardsNumbered(boards', nextNoteId')
                      /\ \A q \in Persons :
                           SeenOf(session'[q], inbox'[q], chatSeen'[q], shown'[q], boards', nextNoteId')
    BY DEF SeenInv
  <2>2. /\ up /\ nextNoteId = posts + 1 /\ BoardsNumbered(boards, nextNoteId)
        /\ \A q \in Persons : SeenBy(q)
    BY <2>1 DEF SeenInv, SeenBy
  <2>3. ASSUME NEW q \in Persons \ {p}
        PROVE  SeenOf(session'[q], inbox'[q], chatSeen'[q], shown'[q], boards, nextNoteId)
    <3>1. /\ inbox'[q] = inbox[q] /\ session'[q] = session[q]
          /\ chatSeen'[q] = chatSeen[q] /\ shown'[q] = shown[q]
      BY <1>2, QuietOthers, QuietMarks DEF Rests
    <3>2. SeenOf(session[q], inbox[q], chatSeen[q], shown[q], boards, nextNoteId)
      BY <2>2 DEF SeenBy
    <3> QED BY <3>1, <3>2
  <2>4. SeenOf(session'[p], inbox'[p], chatSeen'[p], shown'[p], boards, nextNoteId)
    BY <1>2, <2>2, SeenQuiet
  <2> QED BY <2>1, <2>2, <2>3, <2>4
<1>3. CASE Crash
  <2>1. crashes \in Nat /\ crashes' = crashes + 1
    BY <1>3 DEF ChatTyped, Crash, Down
  <2>2. crashes' # 0
    BY <2>1
  <2> QED BY <2>2 DEF SeenInv
<1>4. CASE Restart
  BY <1>4 DEF Restart, SeenInv
<1>5. CASE UNCHANGED chatVars
  BY <1>5 DEF chatVars, SeenInv
<1> QED
  BY <1>1, <1>2, <1>3, <1>4, <1>5, StepCases

LEMMA SeenHolds == ASSUME ChatTyped, SeenInv PROVE SeenMeansShownWhileUp
<1> SUFFICES ASSUME crashes = 0, NEW p \in Persons,
                    session[p] # Null, session[p].notes # Null,
                    NEW n \in ToSet(session[p].notes), n.id <= session[p].seenId
             PROVE  n.serial \in shown[p]
  BY DEF SeenMeansShownWhileUp, SeenMeansShown
<1>1. SessionSeen(session[p], inbox[p], chatSeen[p], shown[p], boards, nextNoteId)
  BY DEF SeenInv, SeenOf
<1>2. /\ session[p].seenId = chatSeen[p][session[p].space]
      /\ InOrder(session[p].space, session[p].notes, chatSeen[p], shown[p], boards, nextNoteId)
  BY <1>1 DEF SessionSeen
<1> QED
  BY <1>2 DEF InOrder, Numbered, ShownUpTo

(* While the server never stopped, and however people walk between chats   *)
(* and leave and come back: a note the device counts as seen it has shown. *)
THEOREM SeenMeansShownCorrect == ChatSpec => []SeenMeansShownWhileUp
<1>1. ChatInit => ChatTyped /\ StoreInv /\ SeenInv
  <2> SUFFICES ASSUME ChatInit PROVE SeenInv
    BY StoreStart
  <2>1. /\ up = TRUE /\ posts = 0 /\ nextNoteId = 1 /\ boards = [s \in Boards |-> <<>>]
        /\ inbox = [p \in Persons |-> <<>>] /\ session = [p \in Persons |-> Null]
        /\ chatSeen = [p \in Persons |-> [s \in Boards |-> 0]]
    BY DEF ChatInit
  <2>2. \A s \in Boards : ToSet(boards[s]) = {}
    BY <2>1 DEF ToSet
  <2>3. BoardsNumbered(boards, nextNoteId)
    BY <2>2 DEF BoardsNumbered, Numbered
  <2>4. ASSUME NEW p \in Persons
        PROVE  SeenOf(session[p], inbox[p], chatSeen[p], shown[p], boards, nextNoteId)
    <3>1. MarksSeen(chatSeen[p], shown[p], boards, nextNoteId)
      BY <2>1, <2>2 DEF MarksSeen, ShownUpTo
    <3>2. inbox[p] = <<>> /\ session[p] = Null
      BY <2>1
    <3> QED BY <3>1, <3>2 DEF SeenOf, BoxSeen, SessionSeen
  <2> QED BY <2>1, <2>3, <2>4 DEF SeenInv
<1>2. ChatTyped /\ StoreInv /\ SeenInv /\ [ChatNext]_chatVars => (ChatTyped /\ StoreInv /\ SeenInv)'
  BY TypedNext, StoreNext, SeenNext
<1>3. ChatTyped /\ SeenInv => SeenMeansShownWhileUp
  BY SeenHolds
<1> QED
  BY <1>1, <1>2, <1>3, PTL DEF ChatSpec

(***************************************************************************)
(* The catalog.  Whatever statement the server stopped after, the rows are *)
(* those of some proper list of spaces: the first has ord 0, the next 1,   *)
(* and the lobby is the first.                                             *)
(***************************************************************************)
SpaceRecords == [id : {LobbyId, DevId} \union Nat, name : {LobbyId, DevId} \union Names]

Tables == [org : BOOLEAN, seq : Nat, spaces : SUBSET [space : SpaceRecords, ord : Nat]]

RowAt(c, i) == [space |-> c[i], ord |-> i - 1]

RowsOf(c) == {RowAt(c, i) : i \in 1 .. Len(c)}

Apart(c) ==
  \A i, j \in 1 .. Len(c) : c[i].id = c[j].id \/ c[i].name = c[j].name => i = j

Proper(c) ==
  /\ c \in Seq(SpaceRecords) /\ Len(c) <= MaxSpaces /\ Apart(c)
  /\ c # <<>> => c[1] = Space(LobbyId, LobbyId)

Holds(d, c) ==
  /\ d \in Tables /\ Proper(c) /\ d.spaces = RowsOf(c)
  /\ ~d.org => c = <<>>

CatalogInv ==
  /\ live \in BOOLEAN /\ nextSeq \in Nat
  /\ \E c : /\ Holds(db, c) /\ catalog = (IF live THEN c ELSE <<>>)
            /\ live => db.org /\ c # <<>>

LEMMA SpacesLoaded ==
  ASSUME NEW d, NEW c, Holds(d, c)
  PROVE  LoadSpaces(d) = c /\ Cardinality(d.spaces) = Len(c)
<1> DEFINE N == Len(c)
           R == [space : SpaceRecords, ord : Nat]
           f == [i \in 1 .. N |-> RowAt(c, i)]
           key == [r \in R |-> r.ord]
           less(r) == {q \in d.spaces : q.ord < r.ord}
<1>1. N \in Nat /\ DOMAIN c = 1 .. N /\ c \in [1 .. N -> SpaceRecords]
  BY LenProperties DEF Holds, Proper
<1>2. \A i \in 1 .. N : /\ RowAt(c, i) \in R /\ RowAt(c, i).ord = i - 1
                        /\ RowAt(c, i).space = c[i]
  <2> SUFFICES ASSUME NEW i \in 1 .. N
               PROVE  RowAt(c, i) \in R /\ RowAt(c, i).ord = i - 1 /\ RowAt(c, i).space = c[i]
    OBVIOUS
  <2>1. i - 1 \in Nat /\ c[i] \in SpaceRecords
    BY <1>1
  <2> QED BY <2>1 DEF RowAt
<1>3. f \in [1 .. N -> R] /\ \A i \in 1 .. N : f[i] = RowAt(c, i)
  BY <1>2
<1>4. key \in [R -> Int] /\ \A r \in R : key[r] = r.ord
  OBVIOUS
<1>5. d.spaces = Image(f, N) /\ d.spaces \subseteq R
  BY <1>2 DEF Holds, RowsOf, Image
<1> HIDE DEF f, key, N, R
<1>6. Ordered(f, N, key)
  <2>1. \A i \in 1 .. N : key[f[i]] = i - 1
    BY <1>2, <1>3, <1>4
  <2> QED BY <1>1, <2>1 DEF Ordered
<1>7. /\ Cardinality(d.spaces) = N
      /\ \A i \in 1 .. N : Cardinality(Below(d.spaces, key, f[i])) = i - 1
  <2>1. RankedBy(d.spaces, key, f, N)
    BY <1>1, <1>3, <1>4, <1>5, <1>6, Ranked
  <2> QED BY <2>1 DEF RankedBy
<1>8. \A i \in 1 .. N : Cardinality(less(f[i])) = i - 1
  <2> SUFFICES ASSUME NEW i \in 1 .. N PROVE Cardinality(less(f[i])) = i - 1
    OBVIOUS
  <2>1. less(f[i]) = Below(d.spaces, key, f[i])
    BY <1>3, <1>4, <1>5 DEF Below
  <2> QED BY <2>1, <1>7
<1>9. ASSUME NEW i \in 1 .. N
      PROVE  (CHOOSE r \in d.spaces : Cardinality(less(r)) = i - 1) = f[i]
  <2> HIDE DEF less
  <2>1. f[i] \in d.spaces /\ Cardinality(less(f[i])) = i - 1
    BY <1>5, <1>8 DEF Image
  <2>2. ASSUME NEW r \in d.spaces, Cardinality(less(r)) = i - 1
        PROVE  r = f[i]
    <3>1. PICK j \in 1 .. N : r = f[j]
      BY <1>5 DEF Image
    <3>2. j - 1 = i - 1
      BY <3>1, <2>2, <1>8
    <3> QED BY <3>1, <3>2, <1>1
  <2> QED BY <2>1, <2>2
<1> HIDE DEF less
<1>10. LoadSpaces(d) = [i \in 1 .. N |-> (CHOOSE r \in d.spaces : Cardinality(less(r)) = i - 1).space]
  BY <1>7 DEF LoadSpaces, less
<1>11. \A i \in 1 .. N : LoadSpaces(d)[i] = c[i]
  BY <1>2, <1>3, <1>9, <1>10
<1>12. LoadSpaces(d) = c
  BY <1>1, <1>10, <1>11
<1> QED
  BY <1>7, <1>12 DEF N

Written(writes) == \A d \in ToSet(writes) : \E c : Holds(d, c)

LEMMA WritesJoined ==
  ASSUME NEW s \in Seq(Tables), NEW t \in Seq(Tables), Written(s), Written(t)
  PROVE  /\ s \o t \in Seq(Tables) /\ Written(s \o t)
         /\ t # <<>> => s \o t # <<>> /\ Last(s \o t) = Last(t)
<1> DEFINE st == s \o t
<1>1. /\ Len(s) \in Nat /\ Len(t) \in Nat /\ DOMAIN s = 1 .. Len(s) /\ DOMAIN t = 1 .. Len(t)
      /\ st \in Seq(Tables) /\ DOMAIN st = 1 .. Len(s) + Len(t)
      /\ \A i \in 1 .. Len(s) + Len(t) : st[i] = IF i <= Len(s) THEN s[i] ELSE t[i - Len(s)]
  BY ConcatProperties, LenProperties
<1> HIDE DEF st
<1>2. \A i \in DOMAIN st : (i \in DOMAIN s /\ st[i] = s[i])
                           \/ (i - Len(s) \in DOMAIN t /\ st[i] = t[i - Len(s)])
  BY <1>1
<1>3. Written(st)
  BY <1>2 DEF Written, ToSet
<1>4. ASSUME t # <<>> PROVE st # <<>> /\ Last(st) = Last(t)
  <2>1. Len(t) # 0
    BY <1>4, EmptySeq
  <2>2. /\ Len(s) + Len(t) \in 1 .. Len(s) + Len(t) /\ ~(Len(s) + Len(t) <= Len(s))
        /\ Len(s) + Len(t) - Len(s) = Len(t) /\ Len(st) = Len(s) + Len(t)
    BY <1>1, <2>1, LenProperties
  <2>3. st[Len(st)] = t[Len(t)] /\ st # <<>>
    BY <1>1, <2>2
  <2> QED BY <2>3 DEF Last
<1> QED
  BY <1>1, <1>3, <1>4 DEF st

LEMMA OneOrTwo ==
  ASSUME NEW a, NEW b
  PROVE  /\ ToSet(<<a>>) = {a} /\ ToSet(<<a, b>>) = {a, b}
         /\ Last(<<a>>) = a /\ Last(<<a, b>>) = b
<1>1. DOMAIN <<a>> = {1} /\ DOMAIN <<a, b>> = {1, 2}
  OBVIOUS
<1> QED
  BY <1>1 DEF ToSet, Last

LEMMA WrittenTwo ==
  ASSUME NEW a, NEW b, NEW c, Holds(a, c), Holds(b, c)
  PROVE  /\ <<a, b>> \in Seq(Tables) /\ Written(<<a, b>>) /\ <<a, b>> # <<>>
         /\ <<a>> \in Seq(Tables) /\ Written(<<a>>) /\ <<a>> # <<>>
<1>1. a \in Tables /\ b \in Tables
  BY DEF Holds
<1>2. /\ <<a, b>> \in Seq(Tables) /\ <<a>> \in Seq(Tables)
      /\ <<a, b>> # <<>> /\ <<a>> # <<>>
  BY <1>1
<1> QED
  BY <1>2, OneOrTwo DEF Written

(* What an insertion writes ends in the rows of c.                         *)
Inserted(writes, c, seq) ==
  /\ writes \in Seq(Tables) /\ writes # <<>> /\ Written(writes)
  /\ Holds(Last(writes), c) /\ Last(writes).org /\ Last(writes).seq = seq

(* A space with a new id and name goes into the rows as the last one.      *)
LEMMA SpaceInserted ==
  ASSUME NEW d, NEW c, Holds(d, c), d.org,
         NEW space \in SpaceRecords, NEW seq \in Nat, Len(c) + 1 <= MaxSpaces,
         \A i \in 1 .. Len(c) : c[i].id # space.id /\ c[i].name # space.name,
         c = <<>> => space = Space(LobbyId, LobbyId),
         NEW n, n = Len(c), NEW new, new = Append(c, space)
  PROVE  Inserted(InsertSpace(d, space, n, seq), new, seq)
<1> DEFINE row == [space |-> space, ord |-> n]
           d1 == [d EXCEPT !.spaces = @ \union {row}]
           d2 == [d1 EXCEPT !.seq = seq]
<1>1. /\ n \in Nat /\ DOMAIN c = 1 .. n /\ c \in Seq(SpaceRecords) /\ Apart(c) /\ d \in Tables
      /\ d.spaces = RowsOf(c)
  BY LenProperties DEF Holds, Proper
<1>2. /\ new \in Seq(SpaceRecords) /\ Len(new) = n + 1 /\ new[n + 1] = space
      /\ \A i \in 1 .. n : new[i] = c[i]
  BY <1>1, AppendProperties
<1>3. \A i \in 1 .. Len(new) : i = n + 1 \/ i \in 1 .. n
  BY <1>1, <1>2
<1>4. RowsOf(new) = RowsOf(c) \union {row}
  <2>1. \A i \in 1 .. n : RowAt(new, i) = RowAt(c, i) /\ i \in 1 .. Len(new)
    BY <1>1, <1>2 DEF RowAt
  <2>2. RowAt(new, n + 1) = row /\ n + 1 \in 1 .. Len(new)
    <3>1. n + 1 - 1 = n
      BY <1>1
    <3> QED BY <1>1, <1>2, <3>1 DEF RowAt
  <2> HIDE DEF row
  <2> QED BY <1>3, <2>1, <2>2 DEF RowsOf
<1>5. Apart(new)
  <2> SUFFICES ASSUME NEW i \in 1 .. Len(new), NEW j \in 1 .. Len(new),
                      new[i].id = new[j].id \/ new[i].name = new[j].name
               PROVE  i = j
    BY DEF Apart
  <2>1. CASE i \in 1 .. n /\ j \in 1 .. n
    BY <1>1, <1>2, <2>1 DEF Apart
  <2>2. CASE i = n + 1 /\ j = n + 1
    BY <2>2
  <2>3. CASE i \in 1 .. n /\ j = n + 1
    BY <1>2, <2>3
  <2>4. CASE i = n + 1 /\ j \in 1 .. n
    BY <1>2, <2>4
  <2> QED BY <1>3, <2>1, <2>2, <2>3, <2>4
<1>6. Proper(new)
  <2>1. new[1] = Space(LobbyId, LobbyId)
    <3>1. CASE c = <<>>
      BY <1>2, <3>1
    <3>2. CASE c # <<>>
      <4>1. 1 \in 1 .. n
        BY <1>1, <3>2, EmptySeq
      <4> QED BY <1>2, <3>2, <4>1 DEF Holds, Proper
    <3> QED BY <3>1, <3>2
  <2> QED BY <1>2, <1>5, <2>1 DEF Proper
<1>7. ~\E r \in d.spaces : r.space.id = space.id
  BY <1>1 DEF RowsOf, RowAt
<1>8. row \in [space : SpaceRecords, ord : Nat]
  BY <1>1
<1>9. /\ d1 \in Tables /\ d1.org /\ d1.spaces = d.spaces \union {row}
      /\ d2 \in Tables /\ d2.org /\ d2.spaces = d.spaces \union {row} /\ d2.seq = seq
  <2> HIDE DEF row
  <2> QED BY <1>1, <1>8 DEF Tables
<1>10. InsertSpace(d, space, n, seq) = <<d1, d2>>
  BY <1>7 DEF InsertSpace, InsertRow
<1> HIDE DEF d1, d2, row
<1>11. Holds(d1, new) /\ Holds(d2, new)
  BY <1>1, <1>4, <1>6, <1>9 DEF Holds
<1>12. <<d1, d2>> \in Seq(Tables) /\ Written(<<d1, d2>>) /\ <<d1, d2>> # <<>> /\ Last(<<d1, d2>>) = d2
  BY <1>11, WrittenTwo, OneOrTwo
<1> QED
  BY <1>9, <1>10, <1>11, <1>12 DEF Inserted

(* The first number from the counter on that no space has: there is one,   *)
(* since the candidates are more than the spaces.                          *)
LEMMA FreshNumber ==
  ASSUME catalog \in Seq(SpaceRecords), nextSeq \in Nat
  PROVE  FreshSeq \in Nat /\ FreshSeq \notin IdsOf(catalog)
<1> DEFINE n == Len(catalog)
           free == {k \in nextSeq .. nextSeq + n : k \notin IdsOf(catalog)}
           g == [i \in 1 .. n |-> catalog[i].id]
<1>1. n \in Nat /\ DOMAIN catalog = 1 .. n
  BY LenProperties
<1>2. g \in Surjection(1 .. n, IdsOf(catalog))
  <2>1. ToSet(catalog) = {catalog[i] : i \in 1 .. n}
    BY <1>1 DEF ToSet
  <2>2. \A i \in 1 .. n : g[i] \in IdsOf(catalog)
    BY <2>1 DEF IdsOf
  <2>3. \A x \in IdsOf(catalog) : \E i \in 1 .. n : g[i] = x
    BY <2>1 DEF IdsOf
  <2>4. g \in [1 .. n -> IdsOf(catalog)]
    BY <2>2
  <2> QED BY <2>3, <2>4 DEF Surjection
<1>3. IsFiniteSet(1 .. n) /\ Cardinality(1 .. n) = n
  BY <1>1, FS_Interval
<1>4. IsFiniteSet(IdsOf(catalog)) /\ Cardinality(IdsOf(catalog)) <= n
  <2> HIDE DEF g
  <2>1. \E h : h \in Surjection(1 .. n, IdsOf(catalog))
    BY <1>2
  <2> QED BY <1>2, <1>3, <2>1, FS_Surjection
<1>5. Cardinality(nextSeq .. nextSeq + n) = n + 1 /\ IsFiniteSet(nextSeq .. nextSeq + n)
  <2>1. nextSeq \in Int /\ nextSeq + n \in Int /\ nextSeq <= nextSeq + n
    BY <1>1
  <2>2. nextSeq + n - nextSeq + 1 = n + 1
    BY <1>1
  <2> QED BY <2>1, <2>2, FS_Interval
<1>6. free # {}
  <2> SUFFICES ASSUME nextSeq .. nextSeq + n \subseteq IdsOf(catalog) PROVE FALSE
    OBVIOUS
  <2>1. Cardinality(nextSeq .. nextSeq + n) <= Cardinality(IdsOf(catalog))
    BY <1>4, FS_Subset
  <2>2. Cardinality(IdsOf(catalog)) \in Nat
    BY <1>4, FS_CardinalityType
  <2> QED BY <1>1, <1>4, <1>5, <2>1, <2>2
<1>7. free \in SUBSET Nat
  BY <1>1
<1>8. Min(free) \in free
  <2> HIDE DEF free
  <2>1. PICK m \in free : \A k \in free : m <= k
    BY <1>6, <1>7, LeastNumber
  <2> QED BY <2>1 DEF Min
<1> QED
  BY <1>7, <1>8 DEF FreshSeq

(* Whatever row a crash leaves behind, the rows are still in order.        *)
LEMMA CatalogDown ==
  ASSUME CatalogInv, NEW writes \in Seq(Tables), Written(writes), CrashAfter(writes)
  PROVE  CatalogInv'
<1>1. PICK c : Holds(db, c)
  BY DEF CatalogInv
<1>2. <<db>> \in Seq(Tables) /\ Written(<<db>>)
  BY <1>1, WrittenTwo
<1>3. Written(<<db>> \o writes)
  BY <1>2, WritesJoined
<1>4. PICK e : Holds(db', e)
  BY <1>3 DEF CrashAfter, Written
<1>5. live' = FALSE /\ catalog' = <<>> /\ nextSeq' = 1
  BY DEF CrashAfter
<1> QED
  BY <1>4, <1>5 DEF CatalogInv

LEMMA EmptyCatalog ==
  /\ Proper(<<>>) /\ RowsOf(<<>>) = {} /\ Len(<<>>) = 0
  /\ \A x \in SpaceRecords : Append(<<>>, x) = <<x>> /\ Len(<<x>>) = 1 /\ <<x>>[1] = x /\ <<x>> # <<>>
  /\ \A x, y \in SpaceRecords : Append(<<x>>, y) = <<x, y>> /\ <<x, y>> # <<>>
<1>1. Proper(<<>>)
  <2>1. 0 <= MaxSpaces
    BY CatalogAssumption DEF CatalogAssumption
  <2> QED BY <2>1 DEF Proper, Apart
<1>2. RowsOf(<<>>) = {} /\ Len(<<>>) = 0
  BY DEF RowsOf
<1>3. ASSUME NEW x \in SpaceRecords
      PROVE  Append(<<>>, x) = <<x>> /\ Len(<<x>>) = 1 /\ <<x>>[1] = x /\ <<x>> # <<>>
  OBVIOUS
<1>4. ASSUME NEW x \in SpaceRecords, NEW y \in SpaceRecords
      PROVE  Append(<<x>>, y) = <<x, y>> /\ <<x, y>> # <<>>
  <2> DEFINE one == <<x>>
             two == <<x, y>>
             grown == Append(one, y)
  <2>1. one \in Seq(SpaceRecords) /\ Len(one) = 1 /\ one[1] = x
    OBVIOUS
  <2>2. two \in Seq(SpaceRecords) /\ Len(two) = 2 /\ two[1] = x /\ two[2] = y /\ two # <<>>
    <3>1. two \in Seq(SpaceRecords)
      OBVIOUS
    <3>2. Len(two) = 2
      OBVIOUS
    <3>3. two[1] = x /\ two[2] = y
      OBVIOUS
    <3>4. two # <<>>
      BY <3>1, <3>2
    <3> QED BY <3>1, <3>2, <3>3, <3>4
  <2> HIDE DEF one, two
  <2>3. grown \in Seq(SpaceRecords) /\ Len(grown) = 2 /\ grown[1] = x /\ grown[2] = y
    <3>1. /\ grown \in Seq(SpaceRecords) /\ Len(grown) = Len(one) + 1
          /\ \A i \in 1 .. Len(one) : grown[i] = one[i]
          /\ grown[Len(one) + 1] = y
      <4>1. one \in Seq(SpaceRecords) /\ y \in SpaceRecords
        BY <2>1
      <4> QED BY <4>1, AppendProperties
    <3> HIDE DEF grown
    <3> QED BY <2>1, <3>1
  <2> HIDE DEF grown
  <2>4. \A i \in 1 .. 2 : grown[i] = two[i]
    BY <2>2, <2>3
  <2>5. grown = two
    BY <2>2, <2>3, <2>4, SeqEqual
  <2> QED BY <2>2, <2>5 DEF grown, one, two
<1> QED
  BY <1>1, <1>2, <1>3, <1>4

LEMMA FirstSpaces ==
  /\ Space(LobbyId, LobbyId) \in SpaceRecords /\ Space(DevId, DevId) \in SpaceRecords
  /\ Space(LobbyId, LobbyId).id # Space(DevId, DevId).id
  /\ Space(LobbyId, LobbyId).name # Space(DevId, DevId).name
  /\ 0 + 1 <= MaxSpaces /\ 1 + 1 <= MaxSpaces /\ 0 \in Nat /\ 1 \in Nat
BY CatalogAssumption DEF Space, SpaceRecords, CatalogAssumption

(* The lobby is the first row of an org that has none.                     *)
LEMMA LobbyInserted ==
  ASSUME NEW d, Holds(d, <<>>), d.org, NEW seq \in Nat
  PROVE  Inserted(InsertSpace(d, Space(LobbyId, LobbyId), 0, seq), <<Space(LobbyId, LobbyId)>>, seq)
<1> DEFINE L == Space(LobbyId, LobbyId)
           c == <<>>
           one == <<L>>
<1>1. L \in SpaceRecords /\ one = Append(c, L) /\ Len(c) = 0 /\ Len(c) + 1 <= MaxSpaces
  BY FirstSpaces, EmptyCatalog
<1>2. \A i \in 1 .. Len(c) : c[i].id # L.id /\ c[i].name # L.name
  BY EmptyCatalog
<1>3. Holds(d, c)
  OBVIOUS
<1> HIDE DEF c, one
<1>4. Inserted(InsertSpace(d, L, 0, seq), one, seq)
  BY <1>1, <1>2, <1>3, SpaceInserted
<1> QED
  BY <1>4 DEF one

LEMMA NewOrgStep ==
  ASSUME CatalogInv, NewOrg
  PROVE  CatalogInv'
<1> DEFINE L == Space(LobbyId, LobbyId)
           D == Space(DevId, DevId)
           one == <<L>>
           two == <<L, D>>
<1>1. L \in SpaceRecords /\ D \in SpaceRecords /\ L.id # D.id /\ L.name # D.name
  BY FirstSpaces
<1>2. Holds(db, <<>>) /\ db \in Tables /\ ~live /\ ~db.org
  BY DEF CatalogInv, Holds, NewOrg
<1> DEFINE d0 == UpsertOrg(db)
<1>3. d0 \in Tables /\ d0.org /\ d0.spaces = db.spaces
  BY <1>2 DEF UpsertOrg, Tables
<1>4. Holds(d0, <<>>)
  BY <1>2, <1>3 DEF Holds
<1> HIDE DEF d0
<1> DEFINE withLobby == InsertSpace(d0, L, 0, 1)
           withDev == InsertSpace(Last(withLobby), D, 1, 1)
<1>5. Inserted(withLobby, one, 1)
  BY <1>3, <1>4, FirstSpaces, LobbyInserted
<1>6. two = Append(one, D) /\ Len(one) = 1 /\ one[1] = L /\ one # <<>> /\ two # <<>>
  BY <1>1, EmptyCatalog
<1>7. NewOrgWrites(db) = (<<d0>> \o withLobby) \o withDev
  BY DEF NewOrgWrites, d0
<1> HIDE DEF L, D, one, two, withLobby
<1>8. Inserted(withDev, two, 1)
  <2>1. Holds(Last(withLobby), one) /\ Last(withLobby).org
    BY <1>5 DEF Inserted
  <2>2. \A i \in 1 .. Len(one) : one[i].id # D.id /\ one[i].name # D.name
    BY <1>1, <1>6
  <2>3. Len(one) + 1 <= MaxSpaces /\ 1 \in Nat
    BY <1>6, FirstSpaces
  <2> QED BY <1>1, <1>6, <2>1, <2>2, <2>3, SpaceInserted
<1> HIDE DEF withDev
<1>9. /\ NewOrgWrites(db) \in Seq(Tables) /\ Written(NewOrgWrites(db))
      /\ Last(NewOrgWrites(db)) = Last(withDev)
  <2>1. <<d0>> \in Seq(Tables) /\ Written(<<d0>>)
    BY <1>4, WrittenTwo
  <2>2. <<d0>> \o withLobby \in Seq(Tables) /\ Written(<<d0>> \o withLobby)
    BY <1>5, <2>1, WritesJoined DEF Inserted
  <2> DEFINE first == <<d0>> \o withLobby
  <2>3. first \in Seq(Tables) /\ Written(first) /\ NewOrgWrites(db) = first \o withDev
    BY <1>7, <2>2
  <2> HIDE DEF first
  <2> QED BY <1>8, <2>3, WritesJoined DEF Inserted
<1>10. CASE CrashAfter(NewOrgWrites(db))
  BY <1>9, <1>10, CatalogDown
<1>11. CASE /\ live' = TRUE /\ catalog' = two /\ nextSeq' = 1
            /\ db' = Last(NewOrgWrites(db))
  BY <1>6, <1>8, <1>9, <1>11 DEF CatalogInv, Inserted
<1>12. \/ CrashAfter(NewOrgWrites(db))
       \/ /\ live' = TRUE /\ catalog' = two /\ nextSeq' = 1
          /\ db' = Last(NewOrgWrites(db))
  BY DEF NewOrg, L, D, two
<1> QED
  BY <1>10, <1>11, <1>12

LEMMA LobbyFirst ==
  ASSUME NEW c, Proper(c)
  PROVE  c # <<>> <=> LobbyId \in IdsOf(c)
<1>1. c \in Seq(SpaceRecords) /\ DOMAIN c = 1 .. Len(c) /\ Len(c) \in Nat
  BY LenProperties DEF Proper
<1>2. ASSUME c # <<>> PROVE LobbyId \in IdsOf(c)
  <2>1. 1 \in DOMAIN c
    BY <1>1, <1>2, EmptySeq
  <2>2. c[1].id = LobbyId
    BY <1>2 DEF Proper, Space
  <2> QED BY <2>1, <2>2 DEF IdsOf, ToSet
<1>3. ASSUME c = <<>> PROVE LobbyId \notin IdsOf(c)
  BY <1>3 DEF IdsOf, ToSet
<1> QED
  BY <1>2, <1>3

LEMMA RestoreStep ==
  ASSUME CatalogInv, Restore
  PROVE  CatalogInv'
<1> DEFINE L == Space(LobbyId, LobbyId)
           one == <<L>>
<1>1. PICK c : Holds(db, c)
  BY DEF CatalogInv
<1>2. LoadSpaces(db) = c /\ (c # <<>> <=> LobbyId \in IdsOf(c)) /\ db \in Tables /\ db.org
  BY <1>1, SpacesLoaded, LobbyFirst DEF Holds, Restore
<1>3. db.seq \in Nat
  BY <1>2 DEF Tables
<1>4. CASE c # <<>>
  <2>1. RestoreWrites(db) = <<db>> /\ Restored(db) = c
    BY <1>2, <1>4 DEF RestoreWrites, Restored
  <2>2. <<db>> \in Seq(Tables) /\ Written(<<db>>) /\ Last(<<db>>) = db
    BY <1>1, WrittenTwo, OneOrTwo
  <2>3. CASE CrashAfter(RestoreWrites(db))
    BY <2>1, <2>2, <2>3, CatalogDown
  <2>4. CASE /\ live' = TRUE /\ catalog' = Restored(db) /\ nextSeq' = db.seq
             /\ db' = Last(RestoreWrites(db))
    BY <1>1, <1>2, <1>3, <1>4, <2>1, <2>2, <2>4 DEF CatalogInv
  <2> QED BY <2>3, <2>4 DEF Restore
<1>5. CASE c = <<>>
  <2> DEFINE writes == RestoreWrites(db)
  <2>1. writes = InsertSpace(db, L, 0, db.seq) /\ Restored(db) = one \o <<>>
    BY <1>2, <1>5 DEF RestoreWrites, Restored
  <2>2. Inserted(writes, one, db.seq)
    BY <1>1, <1>2, <1>3, <1>5, <2>1, LobbyInserted
  <2>3. Restored(db) = one /\ one # <<>>
    BY <2>1, FirstSpaces, EmptyCatalog
  <2> HIDE DEF writes, one
  <2>4. CASE CrashAfter(writes)
    BY <2>2, <2>4, CatalogDown DEF Inserted
  <2>5. CASE live' = TRUE /\ catalog' = Restored(db) /\ nextSeq' = db.seq /\ db' = Last(writes)
    BY <1>3, <2>2, <2>3, <2>5 DEF CatalogInv, Inserted
  <2> QED BY <2>4, <2>5 DEF Restore, writes
<1> QED
  BY <1>4, <1>5

LEMMA CreateStep ==
  ASSUME CatalogInv, NEW name \in Names, CreateSpace(name)
  PROVE  CatalogInv'
<1> DEFINE space == Space(FreshSeq, name)
           n == Len(catalog)
           seq == FreshSeq + 1
           new == Append(catalog, space)
           writes == InsertSpace(db, space, n, seq)
<1>1. /\ Holds(db, catalog) /\ live /\ db.org /\ catalog # <<>> /\ nextSeq \in Nat
      /\ catalog \in Seq(SpaceRecords) /\ Len(catalog) \in Nat /\ DOMAIN catalog = 1 .. Len(catalog)
  BY LenProperties DEF CatalogInv, CreateSpace, Holds, Proper
<1>2. FreshSeq \in Nat /\ FreshSeq \notin IdsOf(catalog)
  BY <1>1, FreshNumber
<1>3. space \in SpaceRecords /\ space.id = FreshSeq /\ space.name = name /\ seq \in Nat
  BY <1>2 DEF Space, SpaceRecords
<1>4. /\ ~CatalogFull /\ ~Taken(name)
      /\ \/ /\ catalog' = new /\ nextSeq' = seq /\ db' = Last(writes) /\ live' = live
         \/ CrashAfter(writes)
  BY DEF CreateSpace
<1> HIDE DEF space, seq
<1>5. Len(catalog) + 1 <= MaxSpaces
  BY <1>1, <1>4, CatalogAssumption DEF CatalogFull, CatalogAssumption
<1>6. \A i \in 1 .. Len(catalog) : catalog[i].id # space.id /\ catalog[i].name # space.name
  BY <1>1, <1>2, <1>3, <1>4 DEF Taken, IdsOf, ToSet
<1>7. n = Len(catalog) /\ new = Append(catalog, space)
  OBVIOUS
<1>8. new # <<>>
  BY <1>1, <1>3, AppendProperties
<1> HIDE DEF n, new
<1>9. Inserted(writes, new, seq)
  BY <1>1, <1>3, <1>5, <1>6, <1>7, SpaceInserted
<1> HIDE DEF writes
<1>10. CASE CrashAfter(writes)
  BY <1>9, <1>10, CatalogDown DEF Inserted
<1>11. CASE catalog' = new /\ nextSeq' = seq /\ db' = Last(writes) /\ live' = live
  BY <1>1, <1>3, <1>8, <1>9, <1>11 DEF CatalogInv, Inserted
<1> QED
  BY <1>4, <1>10, <1>11

LEMMA CatalogStep ==
  ASSUME CatalogInv, [CatalogNext]_catalogVars
  PROVE  CatalogInv'
<1>1. CASE CatalogCrash
  <2> DEFINE writes == <<>>
  <2>1. writes \in Seq(Tables) /\ Written(writes) /\ CrashAfter(writes)
    BY <1>1 DEF CatalogCrash, Written, ToSet
  <2> HIDE DEF writes
  <2> QED BY <2>1, CatalogDown
<1>2. CASE UNCHANGED catalogVars
  BY <1>2 DEF catalogVars, CatalogInv
<1> QED
  BY <1>1, <1>2, NewOrgStep, RestoreStep, CreateStep DEF CatalogNext

LEMMA CatalogHolds ==
  ASSUME CatalogInv
  PROVE  Restorable /\ CatalogSound
<1>1. PICK c : /\ Holds(db, c) /\ catalog = (IF live THEN c ELSE <<>>)
               /\ live => db.org /\ c # <<>>
  BY DEF CatalogInv
<1>2. LoadSpaces(db) = c /\ Cardinality(db.spaces) = Len(c) /\ (c # <<>> <=> LobbyId \in IdsOf(c))
  BY <1>1, SpacesLoaded, LobbyFirst DEF Holds
<1>3. Restorable
  BY <1>1, <1>2 DEF Restorable, Restored
<1>4. Proper(catalog) /\ DOMAIN catalog = 1 .. Len(catalog)
  <2>1. Proper(catalog)
    BY <1>1, EmptyCatalog DEF Holds
  <2> QED BY <2>1, LenProperties DEF Proper
<1>5. CatalogSound
  <2>1. Len(catalog) <= MaxSpaces /\ Cardinality(db.spaces) <= MaxSpaces
    BY <1>1, <1>2, <1>4 DEF Proper, Holds
  <2>2. live => LobbyId \in IdsOf(catalog)
    BY <1>1, <1>2
  <2>3. \A i, j \in DOMAIN catalog :
          catalog[i].name = catalog[j].name \/ catalog[i].id = catalog[j].id => i = j
    BY <1>4 DEF Proper, Apart
  <2> QED BY <2>1, <2>2, <2>3 DEF CatalogSound
<1> QED
  BY <1>3, <1>5

LEMMA CatalogStart == ASSUME CatalogInit PROVE CatalogInv
<1> DEFINE c == <<>>
<1>1. db \in Tables /\ db.spaces = {} /\ live = FALSE /\ nextSeq = 1 /\ catalog = c
  BY DEF CatalogInit, NoRows, Tables
<1>2. Proper(c) /\ RowsOf(c) = {}
  BY EmptyCatalog
<1>3. ~db.org => c = <<>>
  OBVIOUS
<1> HIDE DEF c
<1>4. Holds(db, c)
  BY <1>1, <1>2, <1>3 DEF Holds, c
<1> QED
  BY <1>1, <1>4 DEF CatalogInv, c

(* However many crashes fall between the statements that create an org and *)
(* its spaces, and however many spaces are asked for: what a restart shows *)
(* is what the server shows.                                               *)
THEOREM RestorableCorrect == CatalogSpec => []Restorable
<1>1. CatalogInit => CatalogInv
  BY CatalogStart
<1>2. CatalogInv /\ [CatalogNext]_catalogVars => CatalogInv'
  BY CatalogStep
<1>3. CatalogInv => Restorable
  BY CatalogHolds
<1> QED
  BY <1>1, <1>2, <1>3, PTL DEF CatalogSpec

(* Through all of that the lobby is there, ids and names stay apart, and   *)
(* neither memory nor the store passes the cap.                            *)
THEOREM CatalogSoundCorrect == CatalogSpec => []CatalogSound
<1>1. CatalogInit => CatalogInv
  BY CatalogStart
<1>2. CatalogInv /\ [CatalogNext]_catalogVars => CatalogInv'
  BY CatalogStep
<1>3. CatalogInv => CatalogSound
  BY CatalogHolds
<1> QED
  BY <1>1, <1>2, <1>3, PTL DEF CatalogSpec

(***************************************************************************)
(* The connection.  The first two invariants are inductive as they stand,  *)
(* the last with ReserveInv.                                               *)
(***************************************************************************)
USE DEF tasks, socket, connVars

LEMMA TypeInit == ASSUME ConnectionAssumption PROVE Init => TypeOK
<1>. SUFFICES ASSUME Init PROVE TypeOK
  OBVIOUS
<1>1. TasksOK /\ FlagsOK BY DEF Init, TasksOK, FlagsOK
<1>2. ChannelOK BY DEF Init, ChannelOK, Free, ConnectionAssumption
<1>. QED BY <1>1, <1>2 DEF TypeOK

LEMMA TasksNext == ASSUME TasksOK, [Next]_connVars PROVE TasksOK'
<1>. USE DEF TasksOK
<1>1. CASE Control \/ SendNotes
  BY <1>1 DEF Control, Send, Kick, SendNotes
<1>2. CASE LossyCheck \/ LossyPut \/ KickOldest \/ Expire
  BY <1>2 DEF LossyCheck, LossyPut, KickOldest, Kick, Expire
<1>3. CASE WriterTake
  BY <1>3 DEF WriterTake
<1>4. CASE WriterSend \/ WriterFail \/ ClientRead \/ ClientClose
  BY <1>4 DEF WriterSend, WriterFail, ClientRead, ClientClose
<1>5. CASE Queue
  BY <1>5 DEF Queue, AfterAnswer
<1>6. CASE QueueFail \/ Wait \/ Renew \/ RenewFail \/ Leave \/ AbortWriter
  BY <1>6 DEF QueueFail, AfterAnswer, Wait, Renew, RenewFail, Leave, AbortWriter
<1>7. CASE Reject \/ Join \/ Welcome \/ WelcomeFail
  BY <1>7 DEF Reject, Join, Welcome, WelcomeFail
<1>8. CASE Answer(TRUE) \/ Answer(FALSE) \/ Reauth \/ Stop \/ TakeKick \/ TakeExpiry
  BY <1>8 DEF Answer, Reading, Reauth, Stop, TakeKick, TakeExpiry
<1>9. CASE UNCHANGED connVars
  BY <1>9
<1>. QED
  BY <1>1, <1>2, <1>3, <1>4, <1>5, <1>6, <1>7, <1>8, <1>9 DEF Next, Handler

LEMMA FlagsNext == ASSUME FlagsOK, [Next]_connVars PROVE FlagsOK'
<1>. USE DEF FlagsOK
<1>1. CASE Control \/ SendNotes
  BY <1>1 DEF Control, Send, Kick, SendNotes
<1>2. CASE LossyCheck \/ LossyPut \/ KickOldest \/ Expire
  BY <1>2 DEF LossyCheck, LossyPut, KickOldest, Kick, Expire
<1>3. CASE WriterTake
  BY <1>3 DEF WriterTake
<1>4. CASE WriterSend \/ WriterFail \/ ClientRead \/ ClientClose
  BY <1>4 DEF WriterSend, WriterFail, ClientRead, ClientClose
<1>5. CASE Queue
  BY <1>5 DEF Queue, AfterAnswer
<1>6. CASE QueueFail \/ Wait \/ Renew \/ RenewFail \/ Leave \/ AbortWriter
  BY <1>6 DEF QueueFail, AfterAnswer, Wait, Renew, RenewFail, Leave, AbortWriter
<1>7. CASE Reject \/ Join \/ Welcome \/ WelcomeFail
  BY <1>7 DEF Reject, Join, Welcome, WelcomeFail
<1>8. CASE Answer(TRUE) \/ Answer(FALSE) \/ Reauth \/ Stop \/ TakeKick \/ TakeExpiry
  BY <1>8 DEF Answer, Reading, Reauth, Stop, TakeKick, TakeExpiry
<1>9. CASE UNCHANGED connVars
  BY <1>9
<1>. QED
  BY <1>1, <1>2, <1>3, <1>4, <1>5, <1>6, <1>7, <1>8, <1>9 DEF Next, Handler

(* A message is only ever put where there is room for it, and the slot     *)
(* granted to a waiting reader is the one the writer has just given back.  *)
LEMMA ChannelNext ==
  ASSUME ConnectionAssumption, ChannelOK, [Next]_connVars
  PROVE  ChannelOK'
<1>. USE DEF ConnectionAssumption, ChannelOK, Free
<1>1. CASE Control \/ SendNotes
  <2>1. Send("control")
    BY <1>1 DEF Control, SendNotes
  <2>2. CASE Free > 0 /\ queue' = Append(queue, "control")
    BY <1>1, <2>2 DEF Control, SendNotes
  <2>3. CASE UNCHANGED queue
    BY <1>1, <2>3 DEF Control, SendNotes
  <2>. QED
    BY <2>1, <2>2, <2>3 DEF Send
<1>2. CASE LossyCheck \/ LossyPut \/ KickOldest \/ Expire
  BY <1>2 DEF LossyCheck, LossyPut, KickOldest, Kick, Expire
<1>3. CASE WriterTake
  <2>1. queue' = Tail(queue) /\ queue # <<>> /\ UNCHANGED wire
    BY <1>3 DEF WriterTake
  <2>2. queue' \in Seq({"control", "lossy"}) /\ Len(queue') = Len(queue) - 1
    BY <2>1, HeadTailProperties
  <2>3. Len(queue) \in Nat /\ Len(queue') \in Nat
    BY <2>2
  <2>4. wire' \in Nat /\ wire' <= SocketCap
    BY <2>1
  <2>5. Free' >= 0
    <3>1. CASE reader = "waiting"
      BY <2>2, <2>3, <3>1
    <3>2. CASE reader' = reader
      BY <2>2, <2>3, <3>2
    <3>. QED
      BY <1>3, <3>1, <3>2 DEF WriterTake
  <2>. QED
    BY <2>2, <2>4, <2>5
<1>4. CASE WriterSend \/ WriterFail \/ ClientRead \/ ClientClose
  <2>1. CASE WriterSend
    BY <2>1 DEF WriterSend
  <2>2. CASE WriterFail
    BY <2>2 DEF WriterFail
  <2>3. CASE ClientRead
    BY <2>3 DEF ClientRead
  <2>4. CASE ClientClose
    BY <2>4 DEF ClientClose
  <2>. QED
    BY <1>4, <2>1, <2>2, <2>3, <2>4
<1>5. CASE Queue
  BY <1>5 DEF Queue, AfterAnswer
<1>6. CASE QueueFail \/ Wait \/ Renew \/ RenewFail \/ Leave \/ AbortWriter
  <2>1. CASE QueueFail
    BY <2>1 DEF QueueFail, AfterAnswer
  <2>2. CASE Wait \/ Renew \/ RenewFail \/ Leave
    BY <2>2 DEF Wait, Renew, RenewFail, Leave
  <2>3. CASE AbortWriter
    BY <2>3 DEF AbortWriter
  <2>. QED
    BY <1>6, <2>1, <2>2, <2>3
<1>7. CASE Reject \/ Join \/ Welcome \/ WelcomeFail
  BY <1>7 DEF Reject, Join, Welcome, WelcomeFail
<1>8. CASE Answer(TRUE) \/ Answer(FALSE) \/ Reauth \/ Stop \/ TakeKick \/ TakeExpiry
  BY <1>8 DEF Answer, Reading, Reauth, Stop, TakeKick, TakeExpiry
<1>9. CASE UNCHANGED connVars
  BY <1>9
<1>. QED
  BY <1>1, <1>2, <1>3, <1>4, <1>5, <1>6, <1>7, <1>8, <1>9 DEF Next, Handler

LEMMA TypeNext ==
  ASSUME ConnectionAssumption, TypeOK, [Next]_connVars
  PROVE  TypeOK'
  BY TasksNext, FlagsNext, ChannelNext DEF TypeOK

(* Every variable keeps its type, and the channel its capacity, for every  *)
(* capacity, reserve and socket.                                           *)
THEOREM ConnectionTypeCorrect ==
  ASSUME ConnectionAssumption PROVE SafetySpec => []TypeOK
<1>1. Init => TypeOK BY TypeInit
<1>2. TypeOK /\ [Next]_connVars => TypeOK' BY TypeNext
<1>. QED BY <1>1, <1>2, PTL DEF SafetySpec

LEMMA LostNext ==
  ASSUME LostMeansEnding, [Next]_connVars
  PROVE  LostMeansEnding'
<1>. USE DEF LostMeansEnding
<1>1. CASE Control \/ SendNotes
  BY <1>1 DEF Control, SendNotes, Send, Kick
<1>2. CASE LossyCheck \/ LossyPut \/ KickOldest \/ Expire
  BY <1>2 DEF LossyCheck, LossyPut, KickOldest, Kick, Expire
<1>3. CASE WriterTake \/ WriterSend \/ WriterFail \/ ClientRead \/ ClientClose
  BY <1>3 DEF WriterTake, WriterSend, WriterFail, ClientRead, ClientClose
<1>4. CASE Queue \/ QueueFail \/ Wait \/ Renew \/ RenewFail \/ Leave \/ AbortWriter
  BY <1>4 DEF Queue, QueueFail, AfterAnswer, Wait, Renew, RenewFail, Leave, AbortWriter
<1>5. CASE Reject \/ Join \/ Welcome \/ WelcomeFail
  BY <1>5 DEF Reject, Join, Welcome, WelcomeFail
<1>6. CASE Answer(TRUE) \/ Answer(FALSE) \/ Reauth \/ Stop \/ TakeExpiry
  BY <1>6 DEF Answer, Reauth, Stop, TakeExpiry, Reading
<1>7. CASE TakeKick
  BY <1>7 DEF TakeKick
<1>8. CASE UNCHANGED connVars
  BY <1>8
<1>. QED
  BY <1>1, <1>2, <1>3, <1>4, <1>5, <1>6, <1>7, <1>8 DEF Next, Handler

(* A control message that could not be queued always leaves a kick for the *)
(* reader to find, until the reader is on its way out.                     *)
THEOREM LostMeansEndingCorrect == SafetySpec => []LostMeansEnding
<1>1. Init => LostMeansEnding BY DEF Init, LostMeansEnding
<1>2. LostMeansEnding /\ [Next]_connVars => LostMeansEnding' BY LostNext
<1>. QED BY <1>1, <1>2, PTL DEF SafetySpec

(***************************************************************************)
(* How many lossy messages a sequence holds, as it grows and shrinks.      *)
(***************************************************************************)
Lossy(q) == {i \in DOMAIN q : q[i] = "lossy"}

LEMMA LossyFinite ==
  ASSUME NEW q \in Seq({"control", "lossy"})
  PROVE  /\ IsFiniteSet(Lossy(q))
         /\ Cardinality(Lossy(q)) \in Nat
         /\ Cardinality(Lossy(q)) <= Len(q)
<1>1. IsFiniteSet(1 .. Len(q)) /\ Cardinality(1 .. Len(q)) = Len(q)
  <2>1. Len(q) \in Nat /\ 1 \in Int BY LenProperties
  <2>. QED BY <2>1, FS_Interval
<1>2. Lossy(q) \subseteq 1 .. Len(q)
  BY LenProperties DEF Lossy
<1>. QED
  BY <1>1, <1>2, FS_Subset, FS_CardinalityType

LEMMA LossyAppendControl ==
  ASSUME NEW q \in Seq({"control", "lossy"})
  PROVE  Lossy(Append(q, "control")) = Lossy(q)
  BY DEF Lossy

LEMMA LossyAppendLossy ==
  ASSUME NEW q \in Seq({"control", "lossy"})
  PROVE  Cardinality(Lossy(Append(q, "lossy"))) = Cardinality(Lossy(q)) + 1
<1>1. Lossy(Append(q, "lossy")) = Lossy(q) \union {Len(q) + 1}
  BY DEF Lossy
<1>2. Len(q) + 1 \notin Lossy(q)
  BY LenProperties DEF Lossy
<1>. QED
  BY <1>1, <1>2, LossyFinite, FS_AddElement

LEMMA LossyTail ==
  ASSUME NEW q \in Seq({"control", "lossy"}), q # <<>>
  PROVE  Cardinality(Lossy(Tail(q))) <= Cardinality(Lossy(q))
<1>. DEFINE next == [i \in Lossy(Tail(q)) |-> i + 1]
<1>1. Tail(q) \in Seq({"control", "lossy"})
  BY HeadTailProperties
<1>2. \A i \in Lossy(Tail(q)) : i \in Nat /\ i + 1 \in Lossy(q)
  BY HeadTailProperties, LenProperties, <1>1 DEF Lossy
<1>3. next \in Injection(Lossy(Tail(q)), Lossy(q))
  BY <1>2 DEF Injection, IsInjective
<1>. QED
  BY <1>3, LossyFinite, FS_Injection

LEMMA ReserveNext ==
  ASSUME ConnectionAssumption, TypeOK, ReserveInv, [Next]_connVars
  PROVE  ReserveInv'
<1>. DEFINE n == Cardinality(Lossy(queue))
<1>1. LossyQueued = n /\ LossyQueued' = n'
  BY DEF LossyQueued, Lossy
<1>2. queue \in Seq({"control", "lossy"}) /\ passing \in BOOLEAN
  BY DEF TypeOK, ChannelOK, FlagsOK
<1>3. n \in Nat /\ n <= Len(queue) /\ Len(queue) \in Nat
  BY <1>2, LossyFinite
<1>4. Cap \in Nat /\ Reserve \in Nat /\ Reserve < Cap
  BY DEF ConnectionAssumption
<1>5. n <= Cap - Reserve /\ (passing => n < Cap - Reserve)
  BY <1>1 DEF ReserveInv, ReserveKept
<1>6. SUFFICES n' <= Cap - Reserve /\ (passing' => n' < Cap - Reserve)
  BY <1>1 DEF ReserveInv, ReserveKept
<1>7. CASE LossyCheck
  <2>1. n' = n /\ Free > Reserve
    BY <1>7 DEF LossyCheck, AboveReserve
  <2>2. Len(queue) < Cap - Reserve
    BY <2>1, <1>3, <1>4 DEF Free
  <2>. QED
    BY <2>1, <2>2, <1>3, <1>4
<1>8. CASE LossyPut
  <2>1. passing /\ passing' = FALSE
    BY <1>8 DEF LossyPut
  <2>2. n' = n \/ n' = n + 1
    BY <1>2, <1>8, LossyAppendLossy DEF LossyPut
  <2>. QED
    BY <2>1, <2>2, <1>3, <1>4, <1>5
<1>9. CASE UNCHANGED <<queue, passing>>
  BY <1>5, <1>9
<1>10. CASE passing' = passing /\ queue' = Append(queue, "control")
  <2>1. n' = n
    BY <1>2, <1>10, LossyAppendControl
  <2>. QED
    BY <1>5, <1>10, <2>1
<1>11. CASE passing' = passing /\ queue # <<>> /\ queue' = Tail(queue)
  <2>1. n' \in Nat /\ n' <= n
    <3>1. Tail(queue) \in Seq({"control", "lossy"})
      BY <1>2, <1>11, HeadTailProperties
    <3>. QED
      BY <1>2, <1>11, <3>1, LossyTail, LossyFinite
  <2>. QED
    BY <1>3, <1>4, <1>5, <1>11, <2>1
<1>12. CASE passing' = passing /\ queue' = <<>>
  <2>1. n' = 0
    <3>1. Lossy(queue') = {} BY <1>12 DEF Lossy
    <3>. QED BY <3>1, FS_EmptySet
  <2>2. passing => 0 < Cap - Reserve
    BY <1>4
  <2>. QED
    BY <1>4, <1>12, <2>1, <2>2
<1>13. CASE Control \/ SendNotes
  BY <1>9, <1>10, <1>13 DEF Control, SendNotes, Send
<1>14. CASE KickOldest \/ Expire \/ WriterSend \/ ClientRead \/ ClientClose
  BY <1>9, <1>14 DEF KickOldest, Expire, WriterSend, ClientRead, ClientClose
<1>15. CASE WriterTake \/ WriterFail \/ AbortWriter
  BY <1>11, <1>12, <1>15 DEF WriterTake, WriterFail, AbortWriter
<1>16. CASE Queue \/ QueueFail \/ Wait \/ Renew \/ RenewFail \/ Leave
  BY <1>9, <1>10, <1>16 DEF Queue, QueueFail, Wait, Renew, RenewFail, Leave
<1>17. CASE Reject \/ Join \/ Welcome \/ WelcomeFail
  BY <1>9, <1>17 DEF Reject, Join, Welcome, WelcomeFail
<1>18. CASE Answer(TRUE) \/ Answer(FALSE) \/ Reauth \/ Stop \/ TakeKick \/ TakeExpiry
  BY <1>9, <1>18 DEF Answer, Reauth, Stop, TakeKick, TakeExpiry, Reading
<1>19. CASE UNCHANGED connVars
  BY <1>9, <1>19
<1>. QED
  BY <1>7, <1>8, <1>13, <1>14, <1>15, <1>16, <1>17, <1>18, <1>19 DEF Next, Handler

(* However lossy senders, the reader's answers and the writer interleave,  *)
(* lossy messages never take the slots kept for control messages.          *)
THEOREM ReserveKeptCorrect ==
  ASSUME ConnectionAssumption PROVE SafetySpec => []ReserveKept
<1>1. Init => ReserveInv
  <2>. SUFFICES ASSUME Init PROVE ReserveInv
    OBVIOUS
  <2>1. {i \in DOMAIN queue : queue[i] = "lossy"} = {} BY DEF Init
  <2>2. LossyQueued = 0 BY <2>1, FS_EmptySet DEF LossyQueued
  <2>. QED BY <2>2 DEF Init, ReserveInv, ReserveKept, ConnectionAssumption
<1>2. TypeOK /\ ReserveInv /\ [Next]_connVars => ReserveInv'
  BY ReserveNext
<1>3. ReserveInv => ReserveKept
  BY DEF ReserveInv
<1>. QED
  BY <1>1, <1>2, <1>3, ConnectionTypeCorrect, PTL DEF SafetySpec
=============================================================================
