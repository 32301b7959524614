-------------------------- MODULE SplitChunksProofs --------------------------
(***************************************************************************)
(* Proofs about SplitChunks for any characters, batches and max_string_len *)
(* above 0: what split_str_into_chunks computes is followed through one    *)
(* more character of a segment, of a message and of a batch.               *)
(***************************************************************************)
EXTENDS SplitChunks, SequenceLemmas

-----------------------------------------------------------------------------
(* How many chunks a segment has. *)

(* What a message is made of. *)
Characters == Chars \cup {Newline}

(* How many chunks chunks(max_string_len) makes of a segment of n
   characters. *)
Count(n) == (n + MaxStringLen - 1) \div MaxStringLen

(* Products grow with their factors. *)
LEMMA Multiples ==
  ASSUME NEW M \in Nat \ {0}, NEW p \in Int, NEW q \in Int, p < q
  PROVE  p * M \in Int /\ q * M \in Int /\ p * M + M <= q * M
  <1>1. (q - p - 1) * M >= 0
    BY SMT
  <1>2. (q - p - 1) * M = q * M - p * M - M
    BY SMT
  <1> QED BY <1>1, <1>2

(* Count chunks cover a segment of n characters, and one chunk fewer does
   not. *)
LEMMA CountBounds ==
  ASSUME NEW n \in Nat
  PROVE  /\ Count(n) \in Nat
         /\ (Count(n) - 1) * MaxStringLen < n
         /\ n <= Count(n) * MaxStringLen
  <1> DEFINE M == MaxStringLen
             q == Count(n)
             a == n + M - 1
  <1>1. M \in Nat \ {0} /\ a \in Nat
    BY SplitAssumption
  <1>2. q = a \div M
    BY DEF Count
  <1> HIDE DEF M, q, a
  <1>3. q \in Int /\ a = q * M + (a % M) /\ a % M \in 0..(M - 1)
    BY <1>1, <1>2
  <1>4. q \in Nat
    BY <1>1, <1>3
  <1>5. q * M \in Int /\ (q - 1) * M = q * M - M
    BY <1>1, <1>3
  <1>6. a = n + M - 1
    BY DEF a
  <1>7. n \in Int /\ M \in Int /\ q * M \in Int /\ a % M \in Int
          /\ 0 <= a % M /\ a % M <= M - 1
    BY <1>1, <1>3, <1>5
  <1>8. (q - 1) * M < n /\ n <= q * M
    BY <1>3, <1>5, <1>6, <1>7
  <1> QED BY <1>4, <1>8 DEF M, q

(* No other number does: this is how Count is computed where a character is
   added. *)
LEMMA CountUnique ==
  ASSUME NEW n \in Nat, NEW q \in Nat,
         (q - 1) * MaxStringLen < n, n <= q * MaxStringLen
  PROVE  Count(n) = q
  <1>1. MaxStringLen \in Nat \ {0}
    BY SplitAssumption
  <1>2. /\ Count(n) \in Nat
        /\ (Count(n) - 1) * MaxStringLen < n
        /\ n <= Count(n) * MaxStringLen
    BY CountBounds
  <1>3. ~ (Count(n) < q)
    <2> SUFFICES ASSUME Count(n) < q PROVE FALSE
      OBVIOUS
    <2>1. CASE Count(n) = q - 1
      BY <1>1, <1>2, <2>1
    <2>2. CASE Count(n) < q - 1
      <3>1. Count(n) * MaxStringLen + MaxStringLen <= (q - 1) * MaxStringLen
        BY <1>1, <1>2, <2>2, Multiples
      <3> QED BY <1>1, <1>2, <3>1
    <2> QED BY <1>2, <2>1, <2>2
  <1>4. ~ (q < Count(n))
    <2> SUFFICES ASSUME q < Count(n) PROVE FALSE
      OBVIOUS
    <2>1. CASE q = Count(n) - 1
      BY <1>1, <1>2, <2>1
    <2>2. CASE q < Count(n) - 1
      <3>1. q * MaxStringLen + MaxStringLen <= (Count(n) - 1) * MaxStringLen
        BY <1>1, <1>2, <2>2, Multiples
      <3> QED BY <1>1, <1>2, <3>1
    <2> QED BY <1>2, <2>1, <2>2
  <1> QED BY <1>2, <1>3, <1>4

-----------------------------------------------------------------------------
(* Full chunks. *)

(* The first k chunks of s, when each of them has max_string_len
   characters. *)
Full(s, k) == [i \in 1..k |-> SubSeq(s, (i - 1) * MaxStringLen + 1, i * MaxStringLen)]

(* A cut of a segment is a sequence of the cut's length. *)
LEMMA CutType ==
  ASSUME NEW S, NEW s \in Seq(S), NEW m \in Nat, NEW n \in Nat, n <= Len(s)
  PROVE  /\ SubSeq(s, m + 1, n) \in Seq(S)
         /\ m <= n => Len(SubSeq(s, m + 1, n)) = n - m
  <1>1. \A i \in (m + 1)..n : s[i] \in S
    BY ElementOfSeq, LenProperties
  <1> DEFINE a == m + 1
  <1>2. a \in Int /\ n \in Int
    OBVIOUS
  <1> HIDE DEF a
  <1>3. /\ SubSeq(s, a, n) \in Seq(S)
        /\ Len(SubSeq(s, a, n)) = IF a <= n THEN n - a + 1 ELSE 0
    <2>1. \A i \in a..n : s[i] \in S
      BY <1>1 DEF a
    <2> QED BY <1>2, <2>1, SubSeqProperties
  <1> QED BY <1>3 DEF a

(* The full chunks of a segment lie within it. *)
LEMMA FullType ==
  ASSUME NEW S, NEW s \in Seq(S), NEW k \in Nat, k * MaxStringLen <= Len(s)
  PROVE  /\ Full(s, k) \in Seq(Seq(S)) /\ Len(Full(s, k)) = k
         /\ \A i \in 1..k : /\ (i - 1) * MaxStringLen \in Nat
                            /\ i * MaxStringLen \in Nat
                            /\ (i - 1) * MaxStringLen + MaxStringLen = i * MaxStringLen
                            /\ i * MaxStringLen <= Len(s)
  <1> DEFINE M == MaxStringLen
  <1>1. M \in Nat \ {0} /\ Len(s) \in Nat /\ k * M <= Len(s)
    BY SplitAssumption, LenProperties
  <1> HIDE DEF M
  <1>2. ASSUME NEW i \in 1..k
        PROVE  /\ (i - 1) * M \in Nat /\ i * M \in Nat
               /\ (i - 1) * M + M = i * M /\ i * M <= Len(s)
    <2>1. (i - 1) * M \in Nat /\ i * M \in Nat /\ k * M \in Nat
      BY <1>1
    <2>2. (i - 1) * M + M = i * M
      BY <1>1
    <2>3. i * M <= k * M
      <3>1. CASE i = k
        BY <2>1, <3>1
      <3>2. CASE i < k
        <4>1. i * M + M <= k * M
          BY <1>1, <3>2, Multiples
        <4> QED BY <1>1, <2>1, <4>1
      <3> QED BY <3>1, <3>2
    <2> QED BY <1>1, <2>1, <2>2, <2>3
  <1>3. \A i \in 1..k : SubSeq(s, (i - 1) * M + 1, i * M) \in Seq(S)
    BY <1>2, CutType
  <1>4. Full(s, k) = [i \in 1..k |-> SubSeq(s, (i - 1) * M + 1, i * M)]
    BY DEF Full, M
  <1>5. Full(s, k) \in Seq(Seq(S)) /\ Len(Full(s, k)) = k
    BY <1>3, <1>4
  <1> QED BY <1>2, <1>5 DEF M

(* Full chunks are not touched by a character that comes after them. *)
LEMMA FullSame ==
  ASSUME NEW S, NEW s \in Seq(S), NEW c \in S, NEW k \in Nat, k * MaxStringLen <= Len(s)
  PROVE  Full(Append(s, c), k) = Full(s, k)
  <1> DEFINE u == <<c>>
  <1>1. Append(s, c) = s \o u /\ u \in Seq(S)
    BY AppendIsConcat
  <1> HIDE DEF u
  <1>2. ASSUME NEW i \in 1..k
        PROVE  SubSeq(s \o u, (i - 1) * MaxStringLen + 1, i * MaxStringLen) =
                  SubSeq(s, (i - 1) * MaxStringLen + 1, i * MaxStringLen)
    <2> DEFINE a == (i - 1) * MaxStringLen + 1
               b == i * MaxStringLen
    <2>1. a \in 1..Len(s) /\ b \in 1..Len(s)
      <3>1. MaxStringLen \in Nat \ {0} /\ Len(s) \in Nat
        BY SplitAssumption, LenProperties
      <3>2. /\ (i - 1) * MaxStringLen \in Nat /\ b \in Nat
            /\ (i - 1) * MaxStringLen + MaxStringLen = b /\ b <= Len(s)
        BY FullType
      <3> QED BY <3>1, <3>2
    <2> HIDE DEF a, b
    <2>2. SubSeq(s \o u, a, b) = SubSeq(s, a, b)
      BY <1>1, <2>1, SubSeqOfConcat1
    <2> QED BY <2>2 DEF a, b
  <1> QED BY <1>1, <1>2 DEF Full

(* One full chunk more. *)
LEMMA FullMore ==
  ASSUME NEW S, NEW s \in Seq(S), NEW k \in Nat \ {0}, k * MaxStringLen <= Len(s)
  PROVE  Full(s, k) =
            Append(Full(s, k - 1), SubSeq(s, (k - 1) * MaxStringLen + 1, k * MaxStringLen))
  <1> DEFINE M == MaxStringLen
             d == SubSeq(s, (k - 1) * M + 1, k * M)
             l == Full(s, k)
             a == Full(s, k - 1)
             r == Append(a, d)
  <1>1. /\ l \in Seq(Seq(S)) /\ Len(l) = k
        /\ \A i \in 1..k : /\ (i - 1) * M \in Nat /\ i * M \in Nat
                           /\ (i - 1) * M + M = i * M /\ i * M <= Len(s)
    BY FullType
  <1>2. k \in 1..k /\ M \in Nat \ {0} /\ Len(s) \in Nat
    BY SplitAssumption, LenProperties
  <1>3. (k - 1) * M <= Len(s) /\ (k - 1) * M \in Nat
    BY <1>1, <1>2
  <1>4. a \in Seq(Seq(S)) /\ Len(a) = k - 1
    BY <1>3, FullType
  <1>5. d \in Seq(S)
    BY <1>1, <1>2, CutType
  <1>6. \A i \in 1..k : l[i] = SubSeq(s, (i - 1) * M + 1, i * M)
    BY DEF Full
  <1>7. \A i \in 1..(k - 1) : a[i] = SubSeq(s, (i - 1) * M + 1, i * M)
    BY DEF Full
  <1>8. l[k] = d
    BY <1>2, <1>6
  <1> HIDE DEF l, a, d, M
  <1>9. /\ r \in Seq(Seq(S)) /\ Len(r) = k /\ r[k] = d
        /\ \A i \in 1..(k - 1) : r[i] = a[i]
    <2>1. /\ r \in Seq(Seq(S)) /\ Len(r) = Len(a) + 1 /\ r[Len(a) + 1] = d
          /\ \A i \in 1..Len(a) : r[i] = a[i]
      BY <1>4, <1>5, AppendProperties
    <2>2. (k - 1) + 1 = k
      OBVIOUS
    <2> QED BY <1>4, <2>1, <2>2
  <1> HIDE DEF r
  <1>10. ASSUME NEW i \in 1..k PROVE l[i] = r[i]
    <2>1. CASE i = k
      BY <1>8, <1>9, <2>1
    <2>2. CASE i # k
      <3>1. i \in 1..(k - 1)
        BY <2>2
      <3> QED BY <1>6, <1>7, <1>9, <3>1
    <2> QED BY <2>1, <2>2
  <1>11. l = r
    BY <1>1, <1>9, <1>10, SeqEqual
  <1> QED BY <1>11 DEF l, r, a, d, M

-----------------------------------------------------------------------------
(* The chunks of a segment. *)

(* chunks(max_string_len) makes full chunks of a segment, and then one of
   what is left, which may be full too. *)
LEMMA ChunksForm ==
  ASSUME NEW S, NEW s \in Seq(S), s # <<>>
  PROVE  LET k == Count(Len(s)) - 1
         IN  /\ k \in Nat /\ k * MaxStringLen \in Nat /\ k * MaxStringLen < Len(s)
             /\ Chunks(s) =
                   Append(Full(s, k), SubSeq(s, k * MaxStringLen + 1, Len(s)))
  <1> DEFINE M == MaxStringLen
             n == Len(s)
             q == Count(n)
             k == q - 1
             d == SubSeq(s, k * M + 1, n)
             a == Full(s, k)
             l == Chunks(s)
             r == Append(a, d)
  <1>1. M \in Nat \ {0} /\ n \in Nat \ {0}
    BY SplitAssumption, EmptySeq
  <1>2. q \in Nat /\ (q - 1) * M < n /\ n <= q * M
    BY <1>1, CountBounds
  <1>3. l = [i \in 1..q |-> SubSeq(s, (i - 1) * M + 1, IF i * M < n THEN i * M ELSE n)]
    BY DEF Chunks, Count
  <1>4. a = [i \in 1..k |-> SubSeq(s, (i - 1) * M + 1, i * M)]
    BY DEF Full
  <1> HIDE DEF M, n, q, l, a
  <1>5. q # 0
    BY <1>1, <1>2
  <1>6. k \in Nat /\ k * M \in Nat /\ k * M < n /\ k + 1 = q
    BY <1>1, <1>2, <1>5
  <1>7. /\ a \in Seq(Seq(S)) /\ Len(a) = k
        /\ \A i \in 1..k : (i - 1) * M \in Nat /\ i * M \in Nat /\ i * M <= k * M
    <2>1. k * M <= n
      BY <1>1, <1>6
    <2>2. a \in Seq(Seq(S)) /\ Len(a) = k /\ \A i \in 1..k : (i - 1) * M \in Nat /\ i * M \in Nat
      BY <1>6, <2>1, FullType DEF a, M, n
    <2>3. ASSUME NEW i \in 1..k PROVE i * M <= k * M
      <3>1. CASE i = k
        BY <1>6, <3>1
      <3>2. CASE i < k
        <4>1. i * M + M <= k * M
          BY <1>1, <1>6, <3>2, Multiples
        <4> QED BY <1>1, <1>6, <2>2, <4>1
      <3> QED BY <1>6, <3>1, <3>2
    <2> QED BY <2>2, <2>3
  <1>8. d \in Seq(S)
    BY <1>1, <1>6, CutType DEF n
  <1>9. ASSUME NEW i \in 1..k PROVE l[i] = a[i]
    <2>1. i \in 1..q
      BY <1>6
    <2>2. i * M < n
      BY <1>1, <1>6, <1>7
    <2> QED BY <1>3, <1>4, <2>1, <2>2
  <1>10. l[q] = d
    <2>1. q \in 1..q
      BY <1>2, <1>5
    <2>2. q * M \in Int /\ ~ (q * M < n)
      BY <1>1, <1>2
    <2> QED BY <1>3, <2>1, <2>2
  <1> HIDE DEF d, k
  <1>11. l \in Seq(Seq(S)) /\ Len(l) = q
    <2>1. \A i \in 1..q : l[i] \in Seq(S)
      <3> TAKE i \in 1..q
      <3>1. CASE i = q
        BY <1>8, <1>10, <3>1
      <3>2. CASE i # q
        <4>1. i \in 1..k
          BY <1>2, <1>6, <3>2
        <4> QED BY <1>7, <1>9, <4>1, ElementOfSeq
      <3> QED BY <3>1, <3>2
    <2>2. l \in [1..q -> Seq(S)]
      <3>1. l = [i \in 1..q |-> l[i]]
        BY <1>3
      <3> QED BY <2>1, <3>1
    <2> QED BY <1>2, <2>2
  <1>12. /\ r \in Seq(Seq(S)) /\ Len(r) = q /\ r[q] = d
         /\ \A i \in 1..k : r[i] = a[i]
    <2>1. /\ r \in Seq(Seq(S)) /\ Len(r) = Len(a) + 1 /\ r[Len(a) + 1] = d
          /\ \A i \in 1..Len(a) : r[i] = a[i]
      BY <1>7, <1>8, AppendProperties
    <2> QED BY <1>6, <1>7, <2>1
  <1> HIDE DEF r
  <1>13. ASSUME NEW i \in 1..q PROVE l[i] = r[i]
    <2>1. CASE i = q
      BY <1>10, <1>12, <2>1
    <2>2. CASE i # q
      <3>1. i \in 1..k
        BY <1>2, <1>6, <2>2
      <3> QED BY <1>9, <1>12, <3>1
    <2> QED BY <2>1, <2>2
  <1>14. l = r
    BY <1>11, <1>12, <1>13, SeqEqual
  <1> QED BY <1>6, <1>14 DEF l, r, a, d, k, q, n, M

(* When what is left fills the last chunk, no other chunk follows it. *)
LEMMA ChunksFull ==
  ASSUME NEW S, NEW s \in Seq(S), Len(s) = Count(Len(s)) * MaxStringLen
  PROVE  Chunks(s) = Full(s, Count(Len(s)))
  <1> DEFINE M == MaxStringLen
             n == Len(s)
             q == Count(n)
  <1>1. M \in Nat \ {0} /\ n \in Nat /\ q \in Nat /\ n = q * M
    BY SplitAssumption, LenProperties, CountBounds
  <1>2. \A i \in 1..q : i * M \in Nat /\ i * M <= n
    <2>1. q * M <= n
      BY <1>1
    <2> HIDE DEF q
    <2> QED BY <1>1, <2>1, FullType
  <1>3. Chunks(s) =
           [i \in 1..q |-> SubSeq(s, (i - 1) * M + 1, IF i * M < n THEN i * M ELSE n)]
    BY DEF Chunks, Count
  <1>4. Full(s, q) = [i \in 1..q |-> SubSeq(s, (i - 1) * M + 1, i * M)]
    BY DEF Full
  <1> HIDE DEF M, n, q
  <1>5. \A i \in 1..q : (IF i * M < n THEN i * M ELSE n) = i * M
    BY <1>1, <1>2
  <1>6. Chunks(s) = Full(s, q)
    BY <1>3, <1>4, <1>5
  <1> QED BY <1>6 DEF q, n

(* An empty segment, as between two newlines, has no chunk. *)
LEMMA ChunksEmpty == Chunks(<<>>) = <<>>
  <1>1. Len(<<>>) = 0
    OBVIOUS
  <1>2. Count(0) = 0
    <2>1. (0 - 1) * MaxStringLen < 0 /\ 0 <= 0 * MaxStringLen
      BY SplitAssumption
    <2> QED BY <2>1, CountUnique
  <1> QED BY <1>1, <1>2 DEF Chunks, Count

(* The segment fills its last chunk, or has none. *)
LastChunkFull(s) == Len(s) = Count(Len(s)) * MaxStringLen

(* A character that comes to a full last chunk, or to none, starts a new
   chunk. *)
LEMMA ChunksStart ==
  ASSUME NEW S, NEW s \in Seq(S), NEW c \in S, LastChunkFull(s)
  PROVE  Chunks(Append(s, c)) = Append(Chunks(s), <<c>>)
  <1> DEFINE M == MaxStringLen
             n == Len(s)
             q == Count(n)
             m == Append(s, c)
  <1>1. M \in Nat \ {0} /\ n \in Nat /\ q \in Nat /\ n = q * M
    BY SplitAssumption, LenProperties, CountBounds DEF LastChunkFull
  <1>2. m \in Seq(S) /\ m # <<>> /\ Len(m) = n + 1 /\ m = s \o <<c>>
    BY AppendProperties, AppendIsConcat
  <1>3. Chunks(s) = Full(s, q)
    BY ChunksFull DEF LastChunkFull
  <1>4. Full(m, q) = Full(s, q)
    <2>1. q * MaxStringLen <= Len(s)
      BY <1>1
    <2> HIDE DEF q
    <2> QED BY <1>1, <2>1, FullSame
  <1> HIDE DEF q
  <1>5. Count(n + 1) = q + 1
    <2>1. q + 1 \in Nat /\ n + 1 \in Nat
      BY <1>1
    <2>2. ((q + 1) - 1) * M < n + 1
      <3>1. ((q + 1) - 1) = q
        BY <1>1
      <3> QED BY <1>1, <3>1
    <2>3. n + 1 <= (q + 1) * M
      <3>1. q * M \in Nat /\ (q + 1) * M = q * M + M
        BY <1>1
      <3> QED BY <1>1, <3>1
    <2> QED BY <2>1, <2>2, <2>3, CountUnique
  <1>6. SubSeq(m, n + 1, n + 1) = <<c>>
    <2>1. /\ SubSeq(s, n + 1, n) \in Seq(S)
          /\ SubSeq(s \o <<c>>, n + 1, Len(s \o <<c>>)) = Append(SubSeq(s, n + 1, n), c)
      BY <1>1, SuffixAppend
    <2>2. SubSeq(s, n + 1, n) = <<>>
      <3>1. n + 1 \in Int /\ n \in Int /\ n < n + 1
        BY <1>1
      <3> QED BY <3>1, SubSeqEmpty
    <2>3. Append(<<>>, c) = <<c>>
      OBVIOUS
    <2> QED BY <1>2, <2>1, <2>2, <2>3
  <1>7. Chunks(m) = Append(Full(m, q), SubSeq(m, q * M + 1, n + 1))
    <2>1. Count(Len(m)) - 1 = q
      BY <1>1, <1>2, <1>5
    <2> QED BY <1>2, <2>1, ChunksForm
  <1>8. SubSeq(m, q * M + 1, n + 1) = SubSeq(m, n + 1, n + 1)
    BY <1>1
  <1> QED BY <1>3, <1>4, <1>6, <1>7, <1>8

(* The chunks of a segment end with d, and a character that finds room
   there goes to the end of d. *)
ChunksWith(s, c, A, d) ==
    /\ Chunks(s) = Append(A, d)
    /\ Len(d) < MaxStringLen <=> ~LastChunkFull(s)
    /\ ~LastChunkFull(s) => Chunks(Append(s, c)) = Append(A, Append(d, c))

(* Every segment with a character in it has a last chunk d, and the next
   character goes there when there is room. *)
LEMMA ChunksLast ==
  ASSUME NEW S, NEW s \in Seq(S), NEW c \in S, s # <<>>
  PROVE  \E A \in Seq(Seq(S)), d \in Seq(S) : ChunksWith(s, c, A, d)
  <1> DEFINE M == MaxStringLen
             n == Len(s)
             k == Count(n) - 1
             m == Append(s, c)
             A == Full(s, k)
             d == SubSeq(s, k * M + 1, n)
  <1>1. M \in Nat \ {0} /\ n \in Nat
    BY SplitAssumption, LenProperties
  <1>2. k \in Nat /\ k * M \in Nat /\ k * M < n /\ Chunks(s) = Append(A, d)
    BY ChunksForm
  <1>3. Count(n) = k + 1 /\ Count(n) \in Nat /\ n <= Count(n) * M
    BY <1>1, <1>2, CountBounds, SMTT(30)
  <1>4. LastChunkFull(s) <=> n = Count(n) * M
    BY DEF LastChunkFull
  <1> HIDE DEF k, n, M
  <1>5. Count(n) * M = k * M + M
    BY <1>1, <1>2, <1>3
  <1>6. d \in Seq(S) /\ Len(d) = n - k * M
    <2> DEFINE j == k * M
    <2>1. j \in Nat /\ n \in Nat /\ n <= Len(s) /\ j <= n
      BY <1>1, <1>2 DEF n
    <2> HIDE DEF j
    <2>2. SubSeq(s, j + 1, n) \in Seq(S) /\ Len(SubSeq(s, j + 1, n)) = n - j
      BY <2>1, CutType
    <2> QED BY <2>2 DEF j
  <1>7. A \in Seq(Seq(S))
    <2>1. k * MaxStringLen <= Len(s)
      BY <1>1, <1>2 DEF n, M
    <2> QED BY <1>2, <2>1, FullType
  <1>8. Len(d) < M <=> ~LastChunkFull(s)
    BY <1>1, <1>2, <1>3, <1>4, <1>5, <1>6
  <1>9. ASSUME ~LastChunkFull(s) PROVE Chunks(m) = Append(A, Append(d, c))
    <2>1. m \in Seq(S) /\ m # <<>> /\ Len(m) = n + 1 /\ m = s \o <<c>>
      BY AppendProperties, AppendIsConcat DEF n
    <2> HIDE DEF m
    <2>2. Count(n + 1) = Count(n)
      <3>1. n + 1 \in Nat /\ n + 1 <= Count(n) * M
        BY <1>1, <1>2, <1>3, <1>4, <1>5, <1>9
      <3>2. (Count(n) - 1) * M < n + 1
        <4>1. Count(n) - 1 = k
          BY <1>2, <1>3
        <4> QED BY <1>1, <1>2, <4>1
      <3> QED BY <1>3, <3>1, <3>2, CountUnique DEF M
    <2>3. Chunks(m) = Append(Full(m, k), SubSeq(m, k * M + 1, n + 1))
      <3>1. Count(Len(m)) - 1 = k
        BY <1>2, <1>3, <2>1, <2>2
      <3> QED BY <2>1, <3>1, ChunksForm DEF M
    <2>4. Full(m, k) = A
      <3>1. k * MaxStringLen <= Len(s)
        BY <1>1, <1>2 DEF n, M
      <3> QED BY <1>2, <3>1, FullSame DEF m
    <2>5. SubSeq(m, k * M + 1, n + 1) = Append(d, c)
      <3> DEFINE j == k * M
      <3>1. j \in Nat /\ j <= Len(s)
        BY <1>1, <1>2 DEF n
      <3>2. d = SubSeq(s, j + 1, n)
        OBVIOUS
      <3> HIDE DEF j, d
      <3>3. SubSeq(s \o <<c>>, j + 1, Len(s \o <<c>>)) = Append(SubSeq(s, j + 1, n), c)
        BY <3>1, SuffixAppend DEF n
      <3>4. SubSeq(m, j + 1, n + 1) = Append(d, c)
        BY <2>1, <3>2, <3>3
      <3> QED BY <3>4 DEF j
    <2> QED BY <2>3, <2>4, <2>5
  <1>10. ChunksWith(s, c, A, d)
    BY <1>2, <1>8, <1>9 DEF M, ChunksWith
  <1> QED BY <1>6, <1>7, <1>10

-----------------------------------------------------------------------------
(* The segments of a message. *)

(* f[i] is what the first i characters of the message are split into. *)
Splits(f, message, S) ==
    /\ f \in [0..Len(message) -> Seq(Seq(S)) \ {<<>>}]
    /\ Segments(message) = f[Len(message)]
    /\ f[0] = << <<>> >>
    /\ \A i \in 1..Len(message) :
          f[i] = IF message[i] = Newline THEN Append(f[i - 1], <<>>)
                 ELSE [f[i - 1] EXCEPT ![Len(f[i - 1])] = Append(@, message[i])]

(* split("\n") goes from one character to the next: the function in the
   recursive definition of Segments is this f and no other. *)
LEMMA SegmentsRecursive ==
  ASSUME NEW S, NEW message \in Seq(S)
  PROVE  \E f : Splits(f, message, S)
  <1> DEFINE n == Len(message)
             X == Seq(Seq(S)) \ {<<>>}
             More(x, i) == IF message[i] = Newline THEN Append(x, <<>>)
                           ELSE [x EXCEPT ![Len(x)] = Append(@, message[i])]
             F == [p \in (1..n) \X X |-> More(p[2], p[1])]
             Step(h, i) == IF i = 0 THEN << <<>> >>
                           ELSE IF message[i] = Newline THEN Append(h[i - 1], <<>>)
                           ELSE [h[i - 1] EXCEPT ![Len(h[i - 1])] = Append(@, message[i])]
             split == CHOOSE h : h = [i \in 0..n |-> Step(h, i)]
  <1>1. n \in Nat /\ << <<>> >> \in X
    <2>1. n \in Nat /\ <<>> \in Seq(S)
      BY EmptySeq
    <2> DEFINE e == <<>>
    <2>2. e \in Seq(S)
      BY <2>1
    <2> HIDE DEF e
    <2>3. <<e>> \in Seq(Seq(S)) /\ <<e>> # <<>>
      BY <2>2
    <2> QED BY <2>1, <2>3 DEF e
  <1>2. ASSUME NEW i \in 1..n, NEW x \in X PROVE More(x, i) \in X
    <2>1. message[i] \in S
      BY ElementOfSeq
    <2>2. Append(x, <<>>) \in X
      <3> DEFINE e == <<>>
      <3>1. e \in Seq(S) /\ x \in Seq(Seq(S))
        BY EmptySeq
      <3> HIDE DEF e
      <3>2. Append(x, e) \in Seq(Seq(S)) /\ Append(x, e) # <<>>
        BY <3>1, AppendProperties
      <3> QED BY <3>2 DEF e
    <2>3. [x EXCEPT ![Len(x)] = Append(@, message[i])] \in X
      <3> DEFINE l == Len(x)
      <3>1. l \in 1..Len(x) /\ x \in Seq(Seq(S))
        BY EmptySeq
      <3>2. x[l] \in Seq(S)
        BY <3>1, ElementOfSeq
      <3>3. Append(x[l], message[i]) \in Seq(S)
        BY <2>1, <3>2, AppendProperties
      <3> DEFINE y == Append(x[l], message[i])
      <3> HIDE DEF l, y
      <3>4. [x EXCEPT ![l] = y] \in Seq(Seq(S)) /\ Len([x EXCEPT ![l] = y]) = Len(x)
        BY <3>1, <3>3, ExceptSeq DEF y
      <3>5. [x EXCEPT ![l] = y] # <<>>
        <4>1. Len(x) # 0
          BY <3>1
        <4> QED BY <3>4, <4>1
      <3> QED BY <3>4, <3>5 DEF l, y
    <2> QED BY <2>2, <2>3
  <1>3. F \in [(1..n) \X X -> X]
    <2>1. ASSUME NEW p \in (1..n) \X X PROVE More(p[2], p[1]) \in X
      <3>1. p[1] \in 1..n /\ p[2] \in X
        OBVIOUS
      <3> HIDE DEF More, X
      <3> QED BY <1>2, <3>1
    <2> HIDE DEF More
    <2> QED BY <2>1
  <1>4. \A i \in 1..n : \A x \in X : F[<<i, x>>] = More(x, i)
    <2> HIDE DEF More
    <2> QED OBVIOUS
  <1> HIDE DEF F, X, n
  <1>5. PICK f : Recursive(f, X, << <<>> >>, n, F)
    <2>1. IsRecursion(X, << <<>> >>, n, F)
      BY <1>1, <1>3 DEF IsRecursion
    <2> QED BY <2>1, RecursiveExists
  <1>6. /\ f \in [0..n -> X]
        /\ f[0] = << <<>> >> /\ \A i \in 1..n : f[i] = F[<<i, f[i - 1]>>]
    BY <1>5 DEF Recursive
  <1>7. \A i \in 1..n : f[i] = More(f[i - 1], i)
    <2> HIDE DEF More
    <2> TAKE i \in 1..n
    <2>1. i - 1 \in 0..n
      BY <1>1
    <2>2. f[i - 1] \in X
      BY <1>6, <2>1
    <2> QED BY <1>4, <1>6, <2>2
  <1>8. \A h, i : Step(h, i) = IF i = 0 THEN << <<>> >> ELSE More(h[i - 1], i)
    OBVIOUS
  <1>9. Segments(message) = split[n]
    BY DEF Segments, n
  <1>10. \A i \in 1..n :
            f[i] = IF message[i] = Newline THEN Append(f[i - 1], <<>>)
                   ELSE [f[i - 1] EXCEPT ![Len(f[i - 1])] = Append(@, message[i])]
    BY <1>7
  <1> HIDE DEF Step, More
  <1>11. f = [i \in 0..n |-> Step(f, i)]
    <2>1. \A i \in 0..n : f[i] = Step(f, i)
      <3> TAKE i \in 0..n
      <3>1. CASE i = 0
        BY <1>6, <1>8, <3>1
      <3>2. CASE i # 0
        <4>1. i \in 1..n
          BY <1>1, <3>2
        <4> QED BY <1>7, <1>8, <3>2, <4>1
      <3> QED BY <3>1, <3>2
    <2> QED BY <1>6, <2>1
  <1>12. split = [i \in 0..n |-> Step(split, i)]
    BY <1>11
  <1> HIDE DEF split
  <1>13. \A i \in 0..n : split[i] = f[i]
    <2>1. \A i \in 0..n : split[i] = Step(split, i)
      BY <1>12
    <2>2. split[0] = f[0]
      <3>1. 0 \in 0..n
        BY <1>1
      <3> QED BY <1>6, <1>8, <2>1, <3>1
    <2>3. ASSUME NEW i \in 1..n, split[i - 1] = f[i - 1] PROVE split[i] = f[i]
      <3>1. i \in 0..n /\ i # 0
        BY <1>1
      <3> QED BY <1>7, <1>8, <2>1, <2>3, <3>1
    <2>4. AlikeStepwise(split, f, n)
      BY <1>1, <2>2, <2>3 DEF AlikeStepwise
    <2>5. AlikeUpTo(split, f, n)
      BY <2>4, AlikeByInduction
    <2> QED BY <2>5 DEF AlikeUpTo
  <1>14. n \in 0..n
    BY <1>1
  <1> QED BY <1>6, <1>9, <1>10, <1>13, <1>14 DEF n, X, Splits

(* The segments end with s; a newline opens the next one and any other
   character goes to the end of s. *)
SegmentsWith(message, c, A, s) ==
    /\ Segments(message) = Append(A, s)
    /\ Segments(Append(message, c)) =
          IF c = Newline THEN Append(Append(A, s), <<>>) ELSE Append(A, Append(s, c))

(* Every message has a last segment, and it is there that a character is
   added. *)
LEMMA SegmentsMore ==
  ASSUME NEW S, NEW message \in Seq(S), NEW c \in S
  PROVE  \E A \in Seq(Seq(S)), s \in Seq(S) : SegmentsWith(message, c, A, s)
  <1> DEFINE n == Len(message)
             more == Append(message, c)
  <1>1. /\ n \in Nat /\ more \in Seq(S) /\ Len(more) = n + 1
        /\ more[n + 1] = c /\ \A i \in 1..n : more[i] = message[i]
    BY AppendProperties, LenProperties
  <1>2. PICK f : Splits(f, message, S)
    BY SegmentsRecursive
  <1> HIDE DEF more
  <1>3. PICK g : Splits(g, more, S)
    BY <1>1, SegmentsRecursive
  <1>4. /\ f \in [0..n -> Seq(Seq(S)) \ {<<>>}] /\ Segments(message) = f[n]
        /\ f[0] = << <<>> >>
        /\ \A i \in 1..n :
              f[i] = IF message[i] = Newline THEN Append(f[i - 1], <<>>)
                     ELSE [f[i - 1] EXCEPT ![Len(f[i - 1])] = Append(@, message[i])]
    BY <1>2 DEF Splits
  <1>5. /\ Segments(more) = g[n + 1] /\ g[0] = << <<>> >>
        /\ \A i \in 1..(n + 1) :
              g[i] = IF more[i] = Newline THEN Append(g[i - 1], <<>>)
                     ELSE [g[i - 1] EXCEPT ![Len(g[i - 1])] = Append(@, more[i])]
    BY <1>1, <1>3 DEF Splits
  <1> HIDE DEF n
  <1>6. ASSUME NEW i \in 1..n, f[i - 1] = g[i - 1] PROVE f[i] = g[i]
    <2>1. i \in 1..(n + 1) /\ more[i] = message[i]
      BY <1>1
    <2> DEFINE r(h, m) == IF m[i] = Newline THEN Append(h[i - 1], <<>>)
                          ELSE [h[i - 1] EXCEPT ![Len(h[i - 1])] = Append(@, m[i])]
    <2>2. f[i] = r(f, message)
      BY <1>4
    <2>3. g[i] = r(g, more)
      BY <1>5, <2>1
    <2>4. r(f, message) = r(g, more)
      BY <1>6, <2>1
    <2> HIDE DEF r
    <2> QED BY <2>2, <2>3, <2>4
  <1>7. \A i \in 0..n : f[i] = g[i]
    <2>1. AlikeStepwise(f, g, n)
      BY <1>1, <1>4, <1>5, <1>6 DEF AlikeStepwise
    <2>2. AlikeUpTo(f, g, n)
      BY <2>1, AlikeByInduction
    <2> QED BY <2>2 DEF AlikeUpTo
  <1>8. n \in 0..n /\ n + 1 \in 1..(n + 1) /\ (n + 1) - 1 = n
    BY <1>1
  <1>9. g[n] = f[n] /\ f[n] \in Seq(Seq(S)) /\ f[n] # <<>>
    BY <1>4, <1>7, <1>8
  <1>10. PICK A \in Seq(Seq(S)), s \in Seq(S) : f[n] = Append(A, s)
    BY <1>9, SequenceEmptyOrAppend
  <1> DEFINE b == Append(A, s)
  <1>11. Segments(more) = IF c = Newline THEN Append(b, <<>>)
                          ELSE [b EXCEPT ![Len(b)] = Append(@, c)]
    <2> HIDE DEF b
    <2>1. g[n] = b
      BY <1>9, <1>10 DEF b
    <2>2. g[n + 1] = IF more[n + 1] = Newline THEN Append(g[n], <<>>)
                     ELSE [g[n] EXCEPT ![Len(g[n])] = Append(@, more[n + 1])]
      BY <1>5, <1>8
    <2> QED BY <1>1, <1>5, <2>1, <2>2
  <1>12. [b EXCEPT ![Len(b)] = Append(@, c)] = Append(A, Append(s, c))
    <2> DEFINE x == Append(s, c)
    <2>1. x \in Seq(S)
      BY AppendProperties
    <2>2. b[Len(b)] = s
      BY AppendProperties
    <2> HIDE DEF x
    <2>3. [b EXCEPT ![Len(b)] = x] = Append(A, x)
      BY <2>1, LastReplaced
    <2> HIDE DEF b
    <2>4. [b EXCEPT ![Len(b)] = Append(@, c)] = [b EXCEPT ![Len(b)] = Append(b[Len(b)], c)]
      OBVIOUS
    <2> QED BY <2>2, <2>3, <2>4 DEF x
  <1>13. SegmentsWith(message, c, A, s)
    BY <1>4, <1>10, <1>11, <1>12 DEF more, SegmentsWith
  <1> QED BY <1>13

-----------------------------------------------------------------------------
(* The chunks of a message. *)

(* The chunks of a segment are sequences of its characters. *)
LEMMA ChunksType ==
  ASSUME NEW S, NEW s \in Seq(S)
  PROVE  Chunks(s) \in Seq(Seq(S))
  <1>1. CASE s = <<>>
    BY <1>1, ChunksEmpty, EmptySeq
  <1>2. CASE s # <<>>
    <2> DEFINE k == Count(Len(s)) - 1
               j == k * MaxStringLen
    <2>1. /\ k \in Nat /\ j \in Nat /\ j < Len(s)
          /\ Chunks(s) = Append(Full(s, k), SubSeq(s, j + 1, Len(s)))
      BY <1>2, ChunksForm
    <2>2. Len(s) \in Nat
      BY LenProperties
    <2>3. k * MaxStringLen <= Len(s)
      BY <2>1, <2>2
    <2> HIDE DEF k
    <2>4. Full(s, k) \in Seq(Seq(S))
      BY <2>1, <2>3, FullType
    <2> HIDE DEF j
    <2>5. SubSeq(s, j + 1, Len(s)) \in Seq(S)
      BY <2>1, <2>2, CutType
    <2> QED BY <2>1, <2>4, <2>5, AppendProperties
  <1> QED BY <1>1, <1>2

(* The chunks of each of a message's segments. *)
ChunksOfAll(segments) == [i \in 1..Len(segments) |-> Chunks(segments[i])]

(* The segment that the next character of a message belongs to. *)
LastSegment(message) == Segments(message)[Len(Segments(message))]

(* The chunks of one segment more. *)
LEMMA ChunksOfAllAppend ==
  ASSUME NEW S, NEW A \in Seq(Seq(S)), NEW s \in Seq(S)
  PROVE  /\ ChunksOfAll(A) \in Seq(Seq(Seq(S)))
         /\ ChunksOfAll(Append(A, s)) = Append(ChunksOfAll(A), Chunks(s))
  <1> DEFINE n == Len(A)
             b == Append(A, s)
             l == ChunksOfAll(b)
             a == ChunksOfAll(A)
             x == Chunks(s)
             r == Append(a, x)
  <1>1. /\ n \in Nat /\ b \in Seq(Seq(S)) /\ Len(b) = n + 1 /\ b[n + 1] = s
        /\ \A i \in 1..n : b[i] = A[i]
    BY AppendProperties, LenProperties
  <1> HIDE DEF b
  <1>2. \A i \in 1..(n + 1) : Chunks(b[i]) \in Seq(Seq(S))
    BY <1>1, ElementOfSeq, ChunksType
  <1>3. l = [i \in 1..(n + 1) |-> Chunks(b[i])]
    BY <1>1 DEF ChunksOfAll
  <1>4. l \in Seq(Seq(Seq(S))) /\ Len(l) = n + 1
    <2>1. n + 1 \in Nat
      BY <1>1
    <2> QED BY <1>2, <1>3, <2>1
  <1>5. a = [i \in 1..n |-> Chunks(A[i])]
    BY DEF ChunksOfAll
  <1>6. a \in Seq(Seq(Seq(S))) /\ Len(a) = n
    <2>1. \A i \in 1..n : Chunks(A[i]) \in Seq(Seq(S))
      BY ElementOfSeq, ChunksType
    <2> QED BY <1>1, <1>5, <2>1
  <1>7. x \in Seq(Seq(S))
    BY ChunksType
  <1> HIDE DEF l, a, n, x
  <1>8. /\ r \in Seq(Seq(Seq(S))) /\ Len(r) = n + 1 /\ r[n + 1] = x
        /\ \A i \in 1..n : r[i] = a[i]
    BY <1>6, <1>7, AppendProperties
  <1> HIDE DEF r
  <1>9. ASSUME NEW i \in 1..(n + 1) PROVE l[i] = r[i]
    <2>1. CASE i = n + 1
      BY <1>1, <1>3, <1>8, <2>1 DEF x
    <2>2. CASE i # n + 1
      <3>1. i \in 1..n
        BY <1>1, <2>2
      <3> QED BY <1>1, <1>3, <1>5, <1>8, <3>1
    <2> QED BY <2>1, <2>2
  <1>10. l = r
    BY <1>4, <1>8, <1>9, SeqEqual
  <1> QED BY <1>6, <1>10 DEF l, r, a, x, b

(* The segments of the message are those of A and then s. *)
EndsWith(message, A, s) == Segments(message) = Append(A, s)

(* The chunks of a message are those of the segments before the last one,
   and then those of the last. *)
LEMMA LastSegmentChunks ==
  ASSUME NEW S, NEW A \in Seq(Seq(S)), NEW s \in Seq(S),
         NEW message, EndsWith(message, A, s)
  PROVE  /\ FlattenSeq(ChunksOfAll(A)) \in Seq(Seq(S))
         /\ MessageChunks(message) = FlattenSeq(ChunksOfAll(A)) \o Chunks(s)
         /\ LastSegment(message) = s
  <1> DEFINE b == Append(A, s)
             x == ChunksOfAll(A)
             y == Chunks(s)
  <1>1. b[Len(b)] = s
    BY AppendProperties
  <1>2. MessageChunks(message) = FlattenSeq(ChunksOfAll(Segments(message)))
    BY DEF MessageChunks, ChunksOfAll
  <1>3. ChunksOfAll(b) = Append(x, y) /\ x \in Seq(Seq(Seq(S))) /\ y \in Seq(Seq(S))
    BY ChunksOfAllAppend, ChunksType
  <1> HIDE DEF b, x, y
  <1>4. Segments(message) = b
    BY DEF b, EndsWith
  <1>5. FlattenSeq(x) \in Seq(Seq(S)) /\ FlattenSeq(Append(x, y)) = FlattenSeq(x) \o y
    BY <1>3, FlattenAppend
  <1> QED BY <1>1, <1>2, <1>3, <1>4, <1>5 DEF LastSegment, x, y

(* An empty message has one segment, an empty one, and therefore no chunk:
   it leaves no line in the log. *)
LEMMA MessageEmpty ==
  LastSegment(<<>>) = <<>> /\ MessageChunks(<<>>) = <<>>
  <1> DEFINE e == <<>>
  <1>1. e \in Seq({}) /\ e \in Seq(Seq({})) /\ Len(e) = 0 /\ Append(e, e) = << <<>> >>
    BY EmptySeq
  <1>2. PICK f : Splits(f, <<>>, {})
    BY <1>1, SegmentsRecursive
  <1>3. Segments(<<>>) = Append(e, e)
    BY <1>1, <1>2 DEF Splits
  <1>4. /\ MessageChunks(<<>>) = FlattenSeq(ChunksOfAll(e)) \o Chunks(e)
        /\ LastSegment(<<>>) = e
    <2>1. e \in Seq({}) /\ e \in Seq(Seq({})) /\ EndsWith(<<>>, e, e)
      BY <1>1, <1>3 DEF EndsWith
    <2> HIDE DEF e
    <2> QED BY <2>1, LastSegmentChunks
  <1>5. ChunksOfAll(<<>>) = <<>>
    BY DEF ChunksOfAll
  <1>6. FlattenSeq(<<>>) = <<>>
    BY DEF FlattenSeq
  <1>7. <<>> \o <<>> = <<>>
    <2> HIDE DEF e
    <2>1. e \o <<>> = e
      BY <1>1, ConcatEmptySeq
    <2> QED BY <2>1 DEF e
  <1> QED BY <1>4, <1>5, <1>6, <1>7, ChunksEmpty

(* The chunks of a message and of the message with one character more: a
   newline changes none of them, any other character goes to the end of the
   last segment's last chunk or starts a chunk. *)
MessageWith(message, c, S) ==
    LET more == Append(message, c)
    IN  /\ MessageChunks(message) \in Seq(Seq(S))
        /\ c = Newline => /\ MessageChunks(more) = MessageChunks(message)
                          /\ LastSegment(more) = <<>>
        /\ c # Newline => LastSegment(more) # <<>>
        /\ c # Newline /\ LastSegment(message) = <<>> =>
              MessageChunks(more) = Append(MessageChunks(message), <<c>>)
        /\ c # Newline /\ LastSegment(message) # <<>> =>
              \E B \in Seq(Seq(S)), d \in Seq(S) :
                 /\ MessageChunks(message) = Append(B, d)
                 /\ MessageChunks(more) =
                       IF Len(d) < MaxStringLen THEN Append(B, Append(d, c))
                       ELSE Append(Append(B, d), <<c>>)

(* Every message grows so. *)
LEMMA MessageMore ==
  ASSUME NEW S, NEW message \in Seq(S), NEW c \in S
  PROVE  MessageWith(message, c, S)
  <1> DEFINE more == Append(message, c)
             one == <<c>>
  <1>0. one \in Seq(S)
    OBVIOUS
  <1>a. PICK A \in Seq(Seq(S)), s \in Seq(S) : SegmentsWith(message, c, A, s)
    BY SegmentsMore
  <1>1. /\ Segments(message) = Append(A, s)
        /\ Segments(more) = IF c = Newline THEN Append(Append(A, s), <<>>)
                            ELSE Append(A, Append(s, c))
    BY <1>a DEF SegmentsWith
  <1> HIDE DEF more
  <1> DEFINE p == FlattenSeq(ChunksOfAll(A))
             x == Chunks(s)
  <1>2. p \in Seq(Seq(S)) /\ MessageChunks(message) = p \o x /\ LastSegment(message) = s
    <2>1. EndsWith(message, A, s)
      BY <1>1 DEF EndsWith
    <2> QED BY <2>1, LastSegmentChunks
  <1>3. x \in Seq(Seq(S)) /\ p \o x \in Seq(Seq(S))
    BY <1>2, ChunksType, ConcatProperties
  <1>4. ASSUME c = Newline
        PROVE  MessageChunks(more) = MessageChunks(message) /\ LastSegment(more) = <<>>
    <2> DEFINE b == Append(A, s)
               e == <<>>
    <2>1. b \in Seq(Seq(S)) /\ e \in Seq(S) /\ EndsWith(more, b, e)
      BY <1>1, <1>4, AppendProperties, EmptySeq DEF EndsWith
    <2>2. FlattenSeq(ChunksOfAll(b)) = p \o x
      <3>1. ChunksOfAll(b) = Append(ChunksOfAll(A), x) /\ ChunksOfAll(A) \in Seq(Seq(Seq(S)))
        BY ChunksOfAllAppend
      <3> HIDE DEF b, x
      <3> QED BY <1>3, <3>1, FlattenAppend
    <2> HIDE DEF b, e
    <2>3. /\ MessageChunks(more) = FlattenSeq(ChunksOfAll(b)) \o Chunks(e)
          /\ LastSegment(more) = e
      BY <2>1, LastSegmentChunks
    <2> DEFINE px == p \o x
    <2> HIDE DEF p, x
    <2>4. px \o <<>> = px
      <3>1. px \in Seq(Seq(S))
        BY <1>3
      <3> HIDE DEF px
      <3> QED BY <3>1, ConcatEmptySeq
    <2>5. Chunks(e) = <<>> /\ e = <<>>
      BY ChunksEmpty DEF e
    <2> QED BY <1>2, <2>2, <2>3, <2>4, <2>5
  <1>5. ASSUME c # Newline
        PROVE  /\ MessageChunks(more) = p \o Chunks(Append(s, c))
               /\ LastSegment(more) # <<>>
    <2> DEFINE t == Append(s, c)
    <2>1. t \in Seq(S) /\ t # <<>> /\ EndsWith(more, A, t)
      BY <1>1, <1>5, AppendProperties DEF EndsWith
    <2> HIDE DEF t
    <2>2. MessageChunks(more) = p \o Chunks(t) /\ LastSegment(more) = t
      BY <2>1, LastSegmentChunks
    <2> QED BY <2>1, <2>2 DEF t
  <1>6. ASSUME c # Newline, LastChunkFull(s)
        PROVE  MessageChunks(more) = Append(MessageChunks(message), one)
    <2>1. Chunks(Append(s, c)) = Append(x, one)
      BY <1>6, ChunksStart
    <2> HIDE DEF p, x, one
    <2>2. AppendsLast(p, x, one)
      BY <1>0, <1>2, <1>3, ConcatAppend
    <2>3. p \o Append(x, one) = Append(p \o x, one)
      BY <2>2, Zenon DEF AppendsLast
    <2> QED BY <1>2, <1>5, <1>6, <2>1, <2>3
  <1>7. ASSUME c # Newline, s = <<>>
        PROVE  LastChunkFull(s)
    <2>1. Len(<<>>) = 0
      OBVIOUS
    <2>2. Count(0) = 0
      <3>1. (0 - 1) * MaxStringLen < 0 /\ 0 <= 0 * MaxStringLen
        BY SplitAssumption
      <3> QED BY <3>1, CountUnique
    <2>3. 0 * MaxStringLen = 0
      BY SplitAssumption
    <2> QED BY <1>7, <2>1, <2>2, <2>3 DEF LastChunkFull
  <1>8. ASSUME c # Newline, s # <<>>
        PROVE  \E B \in Seq(Seq(S)), d \in Seq(S) :
                  /\ MessageChunks(message) = Append(B, d)
                  /\ MessageChunks(more) =
                        IF Len(d) < MaxStringLen THEN Append(B, Append(d, c))
                        ELSE Append(Append(B, d), one)
    <2>a. PICK B \in Seq(Seq(S)), d \in Seq(S) : ChunksWith(s, c, B, d)
      BY <1>8, ChunksLast
    <2>1. /\ x = Append(B, d)
          /\ Len(d) < MaxStringLen <=> ~LastChunkFull(s)
          /\ ~LastChunkFull(s) => Chunks(Append(s, c)) = Append(B, Append(d, c))
      BY <2>a DEF ChunksWith
    <2> DEFINE pB == p \o B
               dc == Append(d, c)
    <2>2. pB \in Seq(Seq(S)) /\ dc \in Seq(S)
      BY <1>2, ConcatProperties, AppendProperties
    <2> HIDE DEF p, x, dc
    <2>3. p \o Append(B, d) = Append(pB, d) /\ p \o Append(B, dc) = Append(pB, dc)
      <3>1. AppendsLast(p, B, d) /\ AppendsLast(p, B, dc)
        BY <1>2, <2>2, ConcatAppend
      <3> QED BY <3>1 DEF AppendsLast
    <2>4. MessageChunks(message) = Append(pB, d)
      BY <1>2, <2>1, <2>3
    <2>5. CASE Len(d) < MaxStringLen
      <3>1. MessageChunks(more) = Append(pB, dc)
        BY <1>5, <1>8, <2>1, <2>3, <2>5 DEF dc
      <3> QED BY <2>2, <2>4, <2>5, <3>1 DEF dc
    <2>6. CASE ~ (Len(d) < MaxStringLen)
      <3>1. MessageChunks(more) = Append(Append(pB, d), one)
        BY <1>6, <1>8, <2>1, <2>4, <2>6
      <3> QED BY <2>2, <2>4, <2>6, <3>1
    <2> QED BY <2>5, <2>6
  <1> QED BY <1>2, <1>3, <1>4, <1>5, <1>6, <1>7, <1>8 DEF more, one, MessageWith

-----------------------------------------------------------------------------
(* The lines of a batch. *)

(* The LogData that the chunks of entry n become. *)
Labelled(n, chunks) == [i \in 1..Len(chunks) |-> [log |-> n, message |-> chunks[i]]]

(* Those of each entry of a batch. *)
LabelledChunks(batch) ==
    [n \in 1..Len(batch) |-> Labelled(n, MessageChunks(batch[n]))]

(* The lines of a log over the characters S. *)
Lines(S) == [log : Nat, message : Seq(S)]

(* Labelling one chunk more. *)
LEMMA LabelledAppend ==
  ASSUME NEW S, NEW n \in Nat, NEW chunks \in Seq(Seq(S)), NEW d \in Seq(S)
  PROVE  /\ Labelled(n, chunks) \in Seq(Lines(S))
         /\ Labelled(n, Append(chunks, d)) =
               Append(Labelled(n, chunks), [log |-> n, message |-> d])
  <1> DEFINE k == Len(chunks)
             b == Append(chunks, d)
             l == Labelled(n, b)
             a == Labelled(n, chunks)
             x == [log |-> n, message |-> d]
             r == Append(a, x)
  <1>1. /\ k \in Nat /\ b \in Seq(Seq(S)) /\ Len(b) = k + 1 /\ b[k + 1] = d
        /\ \A i \in 1..k : b[i] = chunks[i]
    BY AppendProperties, LenProperties
  <1> HIDE DEF b
  <1>2. \A i \in 1..(k + 1) : [log |-> n, message |-> b[i]] \in Lines(S)
    BY <1>1, ElementOfSeq DEF Lines
  <1>3. l = [i \in 1..(k + 1) |-> [log |-> n, message |-> b[i]]]
    BY <1>1 DEF Labelled
  <1>4. l \in Seq(Lines(S)) /\ Len(l) = k + 1
    <2>1. k + 1 \in Nat
      BY <1>1
    <2> QED BY <1>2, <1>3, <2>1
  <1>5. a = [i \in 1..k |-> [log |-> n, message |-> chunks[i]]]
    BY DEF Labelled
  <1>6. a \in Seq(Lines(S)) /\ Len(a) = k
    <2>1. \A i \in 1..k : [log |-> n, message |-> chunks[i]] \in Lines(S)
      BY ElementOfSeq DEF Lines
    <2> QED BY <1>1, <1>5, <2>1
  <1>7. x \in Lines(S)
    BY DEF Lines
  <1> HIDE DEF l, a, k
  <1>8. l[k + 1] = x
    BY <1>1, <1>3
  <1> HIDE DEF x
  <1>9. /\ r \in Seq(Lines(S)) /\ Len(r) = k + 1 /\ r[k + 1] = x
        /\ \A i \in 1..k : r[i] = a[i]
    BY <1>6, <1>7, AppendProperties
  <1> HIDE DEF r
  <1>10. ASSUME NEW i \in 1..(k + 1) PROVE l[i] = r[i]
    <2>1. CASE i = k + 1
      BY <1>8, <1>9, <2>1
    <2>2. CASE i # k + 1
      <3>1. i \in 1..k
        BY <1>1, <2>2
      <3> QED BY <1>1, <1>3, <1>5, <1>9, <3>1
    <2> QED BY <2>1, <2>2
  <1>11. l = r
    BY <1>4, <1>9, <1>10, SeqEqual
  <1> QED BY <1>6, <1>11 DEF l, r, a, x, b

(* flat_map goes through the batch in order: the lines of one entry more
   come after those of the others. *)
LEMMA SplitAppend ==
  ASSUME NEW S, NEW b \in Seq(Seq(S)), NEW m \in Seq(S)
  PROVE  /\ SplitStrIntoChunks(b) \in Seq(Lines(S))
         /\ SplitStrIntoChunks(Append(b, m)) =
               SplitStrIntoChunks(b) \o Labelled(Len(b) + 1, MessageChunks(m))
  <1> DEFINE k == Len(b)
             more == Append(b, m)
             l == LabelledChunks(more)
             a == LabelledChunks(b)
             x == Labelled(k + 1, MessageChunks(m))
             r == Append(a, x)
  <1>1. /\ k \in Nat /\ more \in Seq(Seq(S)) /\ Len(more) = k + 1 /\ more[k + 1] = m
        /\ \A i \in 1..k : more[i] = b[i]
    BY AppendProperties, LenProperties
  <1> HIDE DEF more
  <1>2. ASSUME NEW n \in Nat, NEW message \in Seq(S)
        PROVE  Labelled(n, MessageChunks(message)) \in Seq(Lines(S))
    <2>1. PICK A \in Seq(Seq(S)), s \in Seq(S) : EndsWith(message, A, s)
      <3>1. PICK f : Splits(f, message, S)
        BY SegmentsRecursive
      <3>2. Segments(message) \in Seq(Seq(S)) /\ Segments(message) # <<>>
        <4>1. Len(message) \in 0..Len(message)
          <5>1. Len(message) \in Nat
            BY LenProperties
          <5> QED BY <5>1
        <4> QED BY <3>1, <4>1 DEF Splits
      <3>3. PICK A \in Seq(Seq(S)), s \in Seq(S) : Segments(message) = Append(A, s)
        BY <3>2, SequenceEmptyOrAppend
      <3> QED BY <3>3 DEF EndsWith
    <2>2. MessageChunks(message) \in Seq(Seq(S))
      <3>1. /\ FlattenSeq(ChunksOfAll(A)) \in Seq(Seq(S))
            /\ MessageChunks(message) = FlattenSeq(ChunksOfAll(A)) \o Chunks(s)
        BY <2>1, LastSegmentChunks
      <3>2. Chunks(s) \in Seq(Seq(S))
        BY ChunksType
      <3> QED BY <3>1, <3>2, ConcatProperties
    <2>3. <<>> \in Seq(S)
      BY EmptySeq
    <2> QED BY <2>2, <2>3, LabelledAppend
  <1>3. l = [n \in 1..(k + 1) |-> Labelled(n, MessageChunks(more[n]))]
    BY <1>1 DEF LabelledChunks
  <1>4. l \in Seq(Seq(Lines(S))) /\ Len(l) = k + 1
    <2>1. \A n \in 1..(k + 1) : Labelled(n, MessageChunks(more[n])) \in Seq(Lines(S))
      BY <1>1, <1>2, ElementOfSeq
    <2>2. k + 1 \in Nat
      BY <1>1
    <2> QED BY <1>3, <2>1, <2>2
  <1>5. a = [n \in 1..k |-> Labelled(n, MessageChunks(b[n]))]
    BY DEF LabelledChunks
  <1>6. a \in Seq(Seq(Lines(S))) /\ Len(a) = k
    <2>1. \A n \in 1..k : Labelled(n, MessageChunks(b[n])) \in Seq(Lines(S))
      BY <1>1, <1>2, ElementOfSeq
    <2> QED BY <1>1, <1>5, <2>1
  <1>7. x \in Seq(Lines(S))
    BY <1>1, <1>2
  <1> HIDE DEF l, a, k
  <1>8. l[k + 1] = x
    BY <1>1, <1>3
  <1>9. SplitStrIntoChunks(more) = FlattenSeq(l) /\ SplitStrIntoChunks(b) = FlattenSeq(a)
    BY DEF SplitStrIntoChunks, Labelled, LabelledChunks, l, a
  <1> HIDE DEF x
  <1>10. /\ r \in Seq(Seq(Lines(S))) /\ Len(r) = k + 1 /\ r[k + 1] = x
         /\ \A i \in 1..k : r[i] = a[i]
    BY <1>6, <1>7, AppendProperties
  <1>11. FlattenSeq(a) \in Seq(Lines(S)) /\ FlattenSeq(r) = FlattenSeq(a) \o x
    BY <1>6, <1>7, FlattenAppend
  <1> HIDE DEF r
  <1>12. ASSUME NEW i \in 1..(k + 1) PROVE l[i] = r[i]
    <2>1. CASE i = k + 1
      BY <1>8, <1>10, <2>1
    <2>2. CASE i # k + 1
      <3>1. i \in 1..k
        BY <1>1, <2>2
      <3> QED BY <1>1, <1>3, <1>5, <1>10, <3>1
    <2> QED BY <2>1, <2>2
  <1>13. l = r
    BY <1>4, <1>10, <1>12, SeqEqual
  <1> QED BY <1>9, <1>11, <1>13 DEF more, x, k

-----------------------------------------------------------------------------
(* The rows that are not blank. *)

(* f[i] is what is left of the first i rows of seq. *)
Kept(f, seq, S) ==
    /\ f \in [0..Len(seq) -> Seq(S)]
    /\ NonBlank(seq) = f[Len(seq)]
    /\ f[0] = <<>>
    /\ \A i \in 1..Len(seq) :
          f[i] = IF seq[i].message # <<>> THEN Append(f[i - 1], seq[i]) ELSE f[i - 1]

(* NonBlank is the last value of a function f defined on every prefix: the
   choice in its recursive definition is of this function and no other. *)
LEMMA KeptRecursive ==
  ASSUME NEW S, NEW seq \in Seq(S)
  PROVE  \E f : Kept(f, seq, S)
  <1> DEFINE n == Len(seq)
             X == Seq(S)
             F == [p \in (1..n) \X X |->
                      IF seq[p[1]].message # <<>> THEN Append(p[2], seq[p[1]]) ELSE p[2]]
             Step(f, i) == IF i = 0 THEN <<>>
                           ELSE IF seq[i].message # <<>> THEN Append(f[i - 1], seq[i])
                           ELSE f[i - 1]
             kept == CHOOSE f : f = [i \in 0..n |-> Step(f, i)]
  <1>1. n \in Nat /\ <<>> \in X
    BY EmptySeq
  <1>2. F \in [(1..n) \X X -> X]
    <2>1. ASSUME NEW p \in (1..n) \X X
          PROVE  (IF seq[p[1]].message # <<>> THEN Append(p[2], seq[p[1]]) ELSE p[2]) \in X
      <3>1. p[1] \in 1..n /\ p[2] \in X
        OBVIOUS
      <3>2. seq[p[1]] \in S
        BY <3>1, ElementOfSeq
      <3> QED BY <3>1, <3>2, AppendProperties
    <2> QED BY <2>1
  <1>3. \A i \in 1..n : \A x \in X :
           F[<<i, x>>] = IF seq[i].message # <<>> THEN Append(x, seq[i]) ELSE x
    OBVIOUS
  <1> HIDE DEF F, X, n
  <1>3a. PICK f : Recursive(f, X, <<>>, n, F)
    <2>1. IsRecursion(X, <<>>, n, F)
      BY <1>1, <1>2 DEF IsRecursion
    <2> QED BY <2>1, RecursiveExists
  <1>4. /\ f \in [0..n -> X]
        /\ f[0] = <<>> /\ \A i \in 1..n : f[i] = F[<<i, f[i - 1]>>]
    BY <1>3a DEF Recursive
  <1>5. \A i \in 1..n : f[i] = IF seq[i].message # <<>> THEN Append(f[i - 1], seq[i]) ELSE f[i - 1]
    <2> TAKE i \in 1..n
    <2>1. i - 1 \in 0..n
      BY <1>1
    <2>2. f[i - 1] \in X
      BY <1>4, <2>1
    <2> QED BY <1>3, <1>4, <2>2
  <1>6. f = [i \in 0..n |-> Step(f, i)]
    <2>1. \A i \in 0..n : f[i] = Step(f, i)
      <3> TAKE i \in 0..n
      <3>1. CASE i = 0
        BY <1>4, <3>1
      <3>2. CASE i # 0
        <4>1. i \in 1..n
          BY <1>1, <3>2
        <4> QED BY <1>5, <3>2, <4>1
      <3> QED BY <3>1, <3>2
    <2> QED BY <1>4, <2>1
  <1>7. kept = [i \in 0..n |-> Step(kept, i)]
    BY <1>6
  <1>8. NonBlank(seq) = kept[n]
    BY DEF NonBlank, n
  <1> HIDE DEF kept
  <1>9. \A i \in 0..n : kept[i] = f[i]
    <2>1. \A i \in 0..n : kept[i] = Step(kept, i)
      BY <1>7
    <2>2. kept[0] = f[0]
      <3>1. 0 \in 0..n
        BY <1>1
      <3> QED BY <1>4, <2>1, <3>1
    <2>3. ASSUME NEW i \in 1..n, kept[i - 1] = f[i - 1] PROVE kept[i] = f[i]
      <3>1. i \in 0..n /\ i # 0
        BY <1>1
      <3> QED BY <1>5, <2>1, <2>3, <3>1
    <2>4. AlikeStepwise(kept, f, n)
      BY <1>1, <2>2, <2>3 DEF AlikeStepwise
    <2>5. AlikeUpTo(kept, f, n)
      BY <2>4, AlikeByInduction
    <2> QED BY <2>5 DEF AlikeUpTo
  <1>10. n \in 0..n
    BY <1>1
  <1> QED BY <1>4, <1>5, <1>8, <1>9, <1>10 DEF n, X, Kept

(* One row more is kept at the end, unless it is blank. *)
LEMMA NonBlankAppend ==
  ASSUME NEW S, NEW seq \in Seq(S), NEW e \in S
  PROVE  /\ NonBlank(seq) \in Seq(S)
         /\ NonBlank(Append(seq, e)) =
               IF e.message # <<>> THEN Append(NonBlank(seq), e) ELSE NonBlank(seq)
  <1> DEFINE n == Len(seq)
             more == Append(seq, e)
  <1>1. /\ n \in Nat /\ more \in Seq(S) /\ Len(more) = n + 1
        /\ more[n + 1] = e /\ \A i \in 1..n : more[i] = seq[i]
    BY AppendProperties, LenProperties
  <1>2. PICK f : Kept(f, seq, S)
    BY KeptRecursive
  <1> HIDE DEF more
  <1>3. PICK g : Kept(g, more, S)
    BY <1>1, KeptRecursive
  <1>a. /\ f \in [0..n -> Seq(S)] /\ NonBlank(seq) = f[n] /\ f[0] = <<>>
        /\ \A i \in 1..n :
              f[i] = IF seq[i].message # <<>> THEN Append(f[i - 1], seq[i]) ELSE f[i - 1]
    BY <1>2 DEF Kept
  <1>b. /\ g \in [0..(n + 1) -> Seq(S)] /\ NonBlank(more) = g[n + 1] /\ g[0] = <<>>
        /\ \A i \in 1..(n + 1) :
              g[i] = IF more[i].message # <<>> THEN Append(g[i - 1], more[i]) ELSE g[i - 1]
    BY <1>1, <1>3 DEF Kept
  <1> HIDE DEF n
  <1>4. ASSUME NEW i \in 1..n, f[i - 1] = g[i - 1] PROVE f[i] = g[i]
    <2>1. i \in 1..(n + 1) /\ more[i] = seq[i]
      BY <1>1
    <2> QED BY <1>a, <1>b, <1>4, <2>1
  <1>5. \A i \in 0..n : f[i] = g[i]
    <2>1. AlikeStepwise(f, g, n)
      BY <1>1, <1>a, <1>b, <1>4 DEF AlikeStepwise
    <2>2. AlikeUpTo(f, g, n)
      BY <2>1, AlikeByInduction
    <2> QED BY <2>2 DEF AlikeUpTo
  <1>6. n \in 0..n /\ n + 1 \in 1..(n + 1) /\ (n + 1) - 1 = n
    BY <1>1
  <1>7. g[n] = f[n] /\ f[n] \in Seq(S)
    BY <1>5, <1>6, <1>a
  <1>8. g[n + 1] = IF more[n + 1].message # <<>> THEN Append(g[(n + 1) - 1], more[n + 1])
                   ELSE g[(n + 1) - 1]
    BY <1>b, <1>6
  <1>9. g[n + 1] = IF e.message # <<>> THEN Append(f[n], e) ELSE f[n]
    BY <1>1, <1>6, <1>7, <1>8
  <1> QED BY <1>a, <1>b, <1>7, <1>9 DEF more

-----------------------------------------------------------------------------
(* The invariant. *)

(* The rows on the screen that have something on them. *)
Shown == NonBlank(screen)

(* Something is on the last row. *)
Open == screen # <<>> /\ screen[Len(screen)].message # <<>>

(* The last row is the last entry's, and has something on it when the last
   segment of that entry has. *)
LastRow ==
    /\ queue # <<>> => screen # <<>> /\ screen[Len(screen)].log = Len(queue)
    /\ Open <=> queue # <<>> /\ LastSegment(queue[Len(queue)]) # <<>>

(* The inductive invariant. SplitsLikeWrapping alone does not say which
   row the next character belongs to. *)
SplitInv ==
    /\ queue \in Seq(Seq(Characters))
    /\ screen \in Seq(Lines(Characters))
    /\ SplitsLikeWrapping
    /\ LastRow

(* What typing a character does to the rows with something on them. *)
Extends(shown, open, c, n, after) ==
    after = IF open /\ Len(shown[Len(shown)].message) < MaxStringLen
            THEN [shown EXCEPT ![Len(shown)].message = Append(@, c)]
            ELSE Append(shown, [log |-> n, message |-> <<c>>])

(* A blank row appended to the screen changes no other. *)
LEMMA BlankAppended ==
  ASSUME screen \in Seq(Lines(Characters)), NEW n \in Nat,
         screen' = Append(screen, BlankRow(n))
  PROVE  /\ screen' \in Seq(Lines(Characters)) /\ screen' # <<>>
         /\ screen'[Len(screen')].log = n /\ ~Open'
         /\ Shown' = Shown
  <1> DEFINE r == BlankRow(n)
  <1>1. r \in Lines(Characters) /\ r.log = n /\ r.message = <<>>
    BY EmptySeq DEF BlankRow, Lines
  <1>2. screen' = Append(screen, r)
    OBVIOUS
  <1> HIDE DEF r
  <1>3. /\ screen' \in Seq(Lines(Characters)) /\ screen' # <<>>
        /\ screen'[Len(screen')] = r
    BY <1>1, <1>2, AppendProperties
  <1>4. NonBlank(Append(screen, r)) = NonBlank(screen)
    BY <1>1, NonBlankAppend
  <1> QED BY <1>1, <1>2, <1>3, <1>4 DEF Open, Shown

(* A character goes to the end of a row that has room, a blank row
   included, or to a new row. *)
LEMMA CharShown ==
  ASSUME SplitInv, NEW c \in Chars, TypeChar(c)
  PROVE  /\ screen' \in Seq(Lines(Characters)) /\ screen' # <<>>
         /\ screen'[Len(screen')].log = Len(queue) /\ Open'
         /\ Extends(Shown, Open, c, Len(queue), Shown')
  <1> DEFINE LC == Lines(Characters)
             n == Len(queue)
             new == [log |-> n, message |-> <<c>>]
  <1>1. screen \in Seq(LC) /\ screen # <<>> /\ screen[Len(screen)].log = n /\ n \in Nat
    BY LenProperties DEF SplitInv, LastRow, TypeChar, Type
  <1>2. PICK p \in Seq(LC), l \in LC : screen = Append(p, l)
    <2> HIDE DEF LC
    <2> QED BY <1>1, SequenceEmptyOrAppend
  <1>3. screen[Len(screen)] = l /\ l.log = n
    <2> HIDE DEF LC
    <2>1. screen[Len(screen)] = l
      BY <1>2, AppendProperties
    <2> QED BY <1>1, <2>1
  <1>4. l.message \in Seq(Characters) /\ c \in Characters /\ l = [log |-> n, message |-> l.message]
    BY <1>3 DEF Lines, Characters
  <1> DEFINE m == Append(l.message, c)
             lc == [log |-> n, message |-> m]
  <1>5. m \in Seq(Characters) /\ m # <<>> /\ <<c>> \in Seq(Characters) /\ <<c>> # <<>>
    BY <1>4, AppendProperties
  <1>6. /\ lc \in LC /\ lc.log = n /\ lc.message # <<>>
        /\ new \in LC /\ new.log = n /\ new.message # <<>>
    BY <1>1, <1>5 DEF Lines
  <1>7. [l EXCEPT !.message = m] = lc
    <2> HIDE DEF m
    <2> QED BY <1>4
  <1>8. screen' = Append(p, lc) \/ screen' = Append(screen, new)
    <2>1. CASE screen' = [screen EXCEPT ![Len(screen)].message = Append(@, c)]
      <3>1. screen' = [screen EXCEPT ![Len(screen)] =
                          [screen[Len(screen)] EXCEPT !.message =
                              Append(screen[Len(screen)].message, c)]]
        BY <2>1
      <3>2. screen' = [screen EXCEPT ![Len(screen)] = lc]
        BY <1>3, <1>7, <3>1
      <3> HIDE DEF lc, LC
      <3>3. [Append(p, l) EXCEPT ![Len(Append(p, l))] = lc] = Append(p, lc)
        BY <1>2, <1>6, LastReplaced
      <3> QED BY <1>2, <3>2, <3>3
    <2>2. CASE screen' = Append(screen, new)
      BY <2>2
    <2> QED BY <2>1, <2>2 DEF TypeChar
  <1>9. /\ Len(l.message) < MaxStringLen => screen' = Append(p, lc)
        /\ ~(Len(l.message) < MaxStringLen) => screen' = Append(screen, new)
    <2>1. Len(l.message) \in Nat /\ MaxStringLen \in Nat
      BY <1>4, SplitAssumption
    <2>2. CASE Len(l.message) < MaxStringLen
      <3>1. screen' = [screen EXCEPT ![Len(screen)].message = Append(@, c)]
        BY <1>3, <2>1, <2>2 DEF TypeChar
      <3>2. screen' = [screen EXCEPT ![Len(screen)] =
                          [screen[Len(screen)] EXCEPT !.message =
                              Append(screen[Len(screen)].message, c)]]
        BY <3>1
      <3>3. screen' = [screen EXCEPT ![Len(screen)] = lc]
        BY <1>3, <1>7, <3>2
      <3> HIDE DEF lc, LC
      <3>4. [Append(p, l) EXCEPT ![Len(Append(p, l))] = lc] = Append(p, lc)
        BY <1>2, <1>6, LastReplaced
      <3> QED BY <1>2, <2>2, <3>3, <3>4
    <2>3. CASE ~(Len(l.message) < MaxStringLen)
      BY <1>3, <2>1, <2>3 DEF TypeChar
    <2> QED BY <2>2, <2>3
  <1> DEFINE P == NonBlank(p)
  <1>10. /\ P \in Seq(LC)
         /\ NonBlank(Append(p, l)) = IF l.message # <<>> THEN Append(P, l) ELSE P
         /\ NonBlank(Append(p, lc)) = Append(P, lc)
         /\ NonBlank(Append(screen, new)) = Append(NonBlank(screen), new)
    <2> HIDE DEF LC, lc, new, m, n
    <2>1. /\ P \in Seq(LC)
          /\ NonBlank(Append(p, l)) = IF l.message # <<>> THEN Append(P, l) ELSE P
      BY NonBlankAppend
    <2>2. NonBlank(Append(p, lc)) = IF lc.message # <<>> THEN Append(P, lc) ELSE P
      BY <1>6, NonBlankAppend
    <2>3. NonBlank(Append(screen, new)) =
              IF new.message # <<>> THEN Append(NonBlank(screen), new) ELSE NonBlank(screen)
      BY <1>1, <1>6, NonBlankAppend
    <2> QED BY <1>6, <2>1, <2>2, <2>3
  <1>11. /\ screen' \in Seq(LC) /\ screen' # <<>>
         /\ screen'[Len(screen')].log = n /\ screen'[Len(screen')].message # <<>>
    <2> HIDE DEF LC, lc, new, m, n
    <2>1. CASE screen' = Append(p, lc)
      <3>1. screen' \in Seq(LC) /\ screen' # <<>> /\ screen'[Len(screen')] = lc
        BY <1>6, <2>1, AppendProperties
      <3> QED BY <1>6, <3>1
    <2>2. CASE screen' = Append(screen, new)
      <3>1. screen' \in Seq(LC) /\ screen' # <<>> /\ screen'[Len(screen')] = new
        BY <1>1, <1>6, <2>2, AppendProperties
      <3> QED BY <1>6, <3>1
    <2> QED BY <1>8, <2>1, <2>2
  <1>12. Open <=> l.message # <<>>
    BY <1>1, <1>3 DEF Open
  <1>13. Shown = IF l.message # <<>> THEN Append(P, l) ELSE P
    BY <1>2, <1>10 DEF Shown
  <1>14. Extends(Shown, Open, c, n, Shown')
    <2>1. CASE l.message = <<>>
      <3>1. Len(l.message) < MaxStringLen
        BY <2>1, SplitAssumption
      <3>2. m = <<c>>
        BY <2>1
      <3>3. Shown' = Append(P, new)
        BY <1>9, <1>10, <3>1, <3>2 DEF Shown
      <3> QED BY <1>12, <1>13, <2>1, <3>3 DEF Extends
    <2>2. CASE l.message # <<>>
      <3> DEFINE w == Append(P, l)
      <3>1. Shown = w /\ Open
        BY <1>12, <1>13, <2>2
      <3>2. w[Len(w)] = l /\ [w EXCEPT ![Len(w)] = lc] = Append(P, lc)
        <4> HIDE DEF LC, lc, P
        <4> QED BY <1>2, <1>6, <1>10, AppendProperties, LastReplaced
      <3>3. CASE Len(l.message) < MaxStringLen
        <4>1. Shown' = Append(P, lc)
          BY <1>9, <1>10, <3>3 DEF Shown
        <4> HIDE DEF w, lc, P
        <4>2. [w EXCEPT ![Len(w)].message = Append(@, c)] =
                 [w EXCEPT ![Len(w)] = [w[Len(w)] EXCEPT !.message =
                                           Append(w[Len(w)].message, c)]]
          OBVIOUS
        <4>3. [w[Len(w)] EXCEPT !.message = Append(w[Len(w)].message, c)] = lc
          BY <1>7, <3>2
        <4>4. [w EXCEPT ![Len(w)].message = Append(@, c)] = Shown'
          BY <3>2, <4>1, <4>2, <4>3
        <4> QED BY <3>1, <3>2, <3>3, <4>4 DEF Extends
      <3>4. CASE ~(Len(l.message) < MaxStringLen)
        <4>1. Shown' = Append(Shown, new)
          BY <1>9, <1>10, <3>4 DEF Shown
        <4> HIDE DEF w
        <4> QED BY <3>1, <3>2, <3>4, <4>1 DEF Extends
      <3> QED BY <3>3, <3>4
    <2> QED BY <2>1, <2>2
  <1> QED BY <1>11, <1>14 DEF Open

(* The empty batch has no line. *)
LEMMA InitSplit ==
  ASSUME Init
  PROVE  SplitInv
  <1>1. queue \in Seq(Seq(Characters)) /\ screen \in Seq(Lines(Characters)) /\ LastRow
    BY EmptySeq DEF Init, LastRow, Open
  <1>2. SplitStrIntoChunks(<<>>) = <<>>
    BY DEF SplitStrIntoChunks, FlattenSeq
  <1>3. NonBlank(<<>>) = <<>>
    <2>1. PICK f : Kept(f, <<>>, Lines(Characters))
      BY EmptySeq, KeptRecursive
    <2> QED BY <2>1, EmptySeq DEF Kept
  <1> QED BY <1>1, <1>2, <1>3 DEF Init, SplitInv, SplitsLikeWrapping

(* An entry without a character has no line yet. *)
LEMMA NewEntrySplit ==
  ASSUME SplitInv, NewEntry
  PROVE  SplitInv'
  <1> DEFINE e == <<>>
             k == Len(queue)
  <1>1. e \in Seq(Characters) /\ queue' = Append(queue, e) /\ queue \in Seq(Seq(Characters))
    BY EmptySeq DEF NewEntry, SplitInv
  <1>2. MessageChunks(e) = <<>> /\ LastSegment(e) = <<>>
    BY MessageEmpty
  <1> HIDE DEF e
  <1>3. queue' \in Seq(Seq(Characters)) /\ queue'[Len(queue')] = e
    BY <1>1, AppendProperties
  <1>4. /\ SplitStrIntoChunks(queue) \in Seq(Lines(Characters))
        /\ SplitStrIntoChunks(queue') =
              SplitStrIntoChunks(queue) \o Labelled(k + 1, MessageChunks(e))
    BY <1>1, SplitAppend
  <1>5. Labelled(k + 1, MessageChunks(e)) = <<>>
    BY <1>2 DEF Labelled
  <1> DEFINE z == SplitStrIntoChunks(queue)
  <1> HIDE DEF z
  <1>6. z \o <<>> = z
    <2>1. z \in Seq(Lines(Characters))
      BY <1>4 DEF z
    <2> QED BY <2>1, ConcatEmptySeq
  <1>7. SplitStrIntoChunks(queue') = SplitStrIntoChunks(queue)
    BY <1>4, <1>5, <1>6 DEF z
  <1>8. /\ screen' \in Seq(Lines(Characters)) /\ screen' # <<>>
        /\ screen'[Len(screen')].log = k + 1 /\ ~Open'
        /\ Shown' = Shown
    <2>1. k + 1 \in Nat /\ screen' = Append(screen, BlankRow(k + 1))
      BY <1>1, LenProperties DEF NewEntry
    <2> QED BY <2>1, BlankAppended DEF SplitInv
  <1>9. SplitsLikeWrapping'
    BY <1>7, <1>8 DEF SplitInv, SplitsLikeWrapping, Shown
  <1>10. Len(queue') = k + 1
    BY <1>1, AppendProperties
  <1>11. LastRow'
    BY <1>2, <1>3, <1>8, <1>10 DEF LastRow
  <1> QED BY <1>3, <1>8, <1>9, <1>11 DEF SplitInv

(* A character typed is one more of the last message. *)
LEMMA TypedLast ==
  ASSUME SplitInv, NEW c \in Characters, Type(c)
  PROVE  \E b \in Seq(Seq(Characters)), m \in Seq(Characters) :
            /\ queue = Append(b, m) /\ queue' = Append(b, Append(m, c))
            /\ queue # <<>> /\ queue[Len(queue)] = m
            /\ queue' \in Seq(Seq(Characters)) /\ queue' # <<>>
            /\ queue'[Len(queue')] = Append(m, c)
            /\ Len(queue) = Len(b) + 1 /\ Len(queue') = Len(queue)
  <1>1. queue \in Seq(Seq(Characters)) /\ queue # <<>>
    BY DEF SplitInv, Type
  <1>2. PICK b \in Seq(Seq(Characters)), m \in Seq(Characters) : queue = Append(b, m)
    BY <1>1, SequenceEmptyOrAppend
  <1>3. Append(m, c) \in Seq(Characters)
    BY AppendProperties
  <1> DEFINE x == Append(m, c)
  <1>4. queue[Len(queue)] = m /\ Len(queue) = Len(b) + 1
    BY <1>2, AppendProperties
  <1>5. queue' = [queue EXCEPT ![Len(queue)] = Append(queue[Len(queue)], c)]
    BY DEF Type
  <1>6. queue' = [queue EXCEPT ![Len(queue)] = x]
    BY <1>4, <1>5
  <1> HIDE DEF x
  <1>7. queue' = Append(b, x)
    <2> DEFINE q == Append(b, m)
    <2>1. x \in Seq(Characters)
      BY <1>3 DEF x
    <2>2. [q EXCEPT ![Len(q)] = x] = Append(b, x)
      BY <2>1, LastReplaced
    <2> HIDE DEF q
    <2>3. queue = q
      BY <1>2 DEF q
    <2> QED BY <1>6, <2>2, <2>3
  <1>8. Append(b, x) \in Seq(Seq(Characters)) /\ Append(b, x) # <<>>
          /\ Append(b, x)[Len(Append(b, x))] = x
          /\ Len(Append(b, x)) = Len(b) + 1
    BY <1>3, AppendProperties, SMTT(30) DEF x
  <1> QED BY <1>1, <1>2, <1>4, <1>7, <1>8 DEF x

(* A newline ends the row, and the next is blank. *)
LEMMA NewlineSplit ==
  ASSUME SplitInv, TypeNewline
  PROVE  SplitInv'
  <1>1. Newline \in Characters /\ Type(Newline)
    BY DEF TypeNewline, Characters
  <1>2. PICK b \in Seq(Seq(Characters)), m \in Seq(Characters) :
            /\ queue = Append(b, m) /\ queue' = Append(b, Append(m, Newline))
            /\ queue # <<>> /\ queue[Len(queue)] = m
            /\ queue' \in Seq(Seq(Characters)) /\ queue' # <<>>
            /\ queue'[Len(queue')] = Append(m, Newline)
            /\ Len(queue) = Len(b) + 1 /\ Len(queue') = Len(queue)
    BY <1>1, TypedLast
  <1> DEFINE x == Append(m, Newline)
  <1>3. x \in Seq(Characters) /\ MessageChunks(x) = MessageChunks(m) /\ LastSegment(x) = <<>>
    <2>1. MessageWith(m, Newline, Characters)
      BY <1>1, MessageMore
    <2> QED BY <1>1, <2>1, AppendProperties DEF MessageWith
  <1> HIDE DEF x
  <1>4. /\ SplitStrIntoChunks(Append(b, m)) =
              SplitStrIntoChunks(b) \o Labelled(Len(b) + 1, MessageChunks(m))
        /\ SplitStrIntoChunks(Append(b, x)) =
              SplitStrIntoChunks(b) \o Labelled(Len(b) + 1, MessageChunks(x))
    BY <1>3, SplitAppend
  <1>5. /\ screen' \in Seq(Lines(Characters)) /\ screen' # <<>>
        /\ screen'[Len(screen')].log = Len(queue) /\ ~Open'
        /\ Shown' = Shown
    <2>1. Len(queue) \in Nat /\ screen' = Append(screen, BlankRow(Len(queue)))
      BY LenProperties DEF TypeNewline, SplitInv
    <2> QED BY <2>1, BlankAppended DEF SplitInv
  <1>6. SplitsLikeWrapping'
    BY <1>2, <1>3, <1>4, <1>5 DEF x, SplitInv, SplitsLikeWrapping, Shown
  <1>7. LastRow'
    BY <1>2, <1>3, <1>5 DEF x, LastRow
  <1> QED BY <1>2, <1>5, <1>6, <1>7 DEF SplitInv

(* Any other character goes to the end of the last line when that is its
   segment's and has room, and to a new line otherwise. *)
LEMMA CharSplit ==
  ASSUME SplitInv, NEW c \in Chars, TypeChar(c)
  PROVE  SplitInv'
  <1>1. c \in Characters /\ Type(c) /\ c # Newline
    BY SplitAssumption DEF TypeChar, Characters
  <1>2. PICK b \in Seq(Seq(Characters)), m \in Seq(Characters) :
            /\ queue = Append(b, m) /\ queue' = Append(b, Append(m, c))
            /\ queue # <<>> /\ queue[Len(queue)] = m
            /\ queue' \in Seq(Seq(Characters)) /\ queue' # <<>>
            /\ queue'[Len(queue')] = Append(m, c)
            /\ Len(queue) = Len(b) + 1 /\ Len(queue') = Len(queue)
    BY <1>1, TypedLast
  <1> DEFINE x == Append(m, c)
             k == Len(b) + 1
             z == SplitStrIntoChunks(b)
             one == <<c>>
             line(d) == [log |-> k, message |-> d]
  <1>3. x \in Seq(Characters) /\ k \in Nat /\ one \in Seq(Characters)
    BY <1>1, AppendProperties, LenProperties
  <1>4. /\ MessageChunks(m) \in Seq(Seq(Characters))
        /\ LastSegment(x) # <<>>
        /\ LastSegment(m) = <<>> => MessageChunks(x) = Append(MessageChunks(m), one)
        /\ LastSegment(m) # <<>> =>
              \E B \in Seq(Seq(Characters)), d \in Seq(Characters) :
                 /\ MessageChunks(m) = Append(B, d)
                 /\ MessageChunks(x) =
                       IF Len(d) < MaxStringLen THEN Append(B, Append(d, c))
                       ELSE Append(Append(B, d), one)
    <2>1. MessageWith(m, c, Characters)
      BY <1>1, MessageMore
    <2> QED BY <1>1, <2>1 DEF MessageWith
  <1> HIDE DEF x
  <1>5. /\ z \in Seq(Lines(Characters))
        /\ SplitStrIntoChunks(Append(b, m)) = z \o Labelled(k, MessageChunks(m))
        /\ SplitStrIntoChunks(Append(b, x)) = z \o Labelled(k, MessageChunks(x))
    BY <1>3, SplitAppend
  <1> DEFINE shown == Shown
             shown1 == Shown'
             open == Open
  <1>6. /\ shown = z \o Labelled(k, MessageChunks(m))
        /\ SplitStrIntoChunks(queue') = z \o Labelled(k, MessageChunks(x))
    BY <1>2, <1>5 DEF x, SplitInv, SplitsLikeWrapping, Shown
  <1>7. open <=> LastSegment(m) # <<>>
    BY <1>2 DEF SplitInv, LastRow
  <1>8. /\ shown1 = IF open /\ Len(shown[Len(shown)].message) < MaxStringLen
                    THEN [shown EXCEPT ![Len(shown)].message = Append(@, c)]
                    ELSE Append(shown, line(one))
        /\ Open' /\ screen' \in Seq(Lines(Characters)) /\ screen' # <<>>
        /\ screen'[Len(screen')].log = Len(queue)
    BY <1>2, CharShown DEF Extends
  <1> HIDE DEF shown, shown1, open
  <1>9. ASSUME NEW B \in Seq(Seq(Characters)), NEW d \in Seq(Characters)
        PROVE  /\ z \o Labelled(k, B) \in Seq(Lines(Characters))
               /\ line(d) \in Lines(Characters)
               /\ z \o Labelled(k, Append(B, d)) = Append(z \o Labelled(k, B), line(d))
    <2> DEFINE lb == Labelled(k, B)
               l == line(d)
    <2>1. lb \in Seq(Lines(Characters)) /\ Labelled(k, Append(B, d)) = Append(lb, l)
      BY <1>3, LabelledAppend
    <2>2. l \in Lines(Characters)
      BY <1>3 DEF Lines
    <2> HIDE DEF z, lb, l
    <2>3. AppendsLast(z, lb, l)
      BY <1>5, <2>1, <2>2, ConcatAppend
    <2>4. z \o lb \in Seq(Lines(Characters))
      BY <1>5, <2>1, ConcatProperties
    <2> QED BY <2>1, <2>2, <2>3, <2>4 DEF AppendsLast, lb, l
  <1>10. SplitStrIntoChunks(queue') = shown1
    <2>1. CASE ~open
      <3>1. MessageChunks(x) = Append(MessageChunks(m), one)
        BY <1>4, <1>7, <2>1
      <3>2. z \o Labelled(k, Append(MessageChunks(m), one)) =
               Append(z \o Labelled(k, MessageChunks(m)), line(one))
        BY <1>3, <1>4, <1>9
      <3> HIDE DEF z, line, one
      <3> QED BY <1>6, <1>8, <2>1, <3>1, <3>2
    <2>2. CASE open
      <3>1. PICK B \in Seq(Seq(Characters)), d \in Seq(Characters) :
               /\ MessageChunks(m) = Append(B, d)
               /\ MessageChunks(x) =
                     IF Len(d) < MaxStringLen THEN Append(B, Append(d, c))
                     ELSE Append(Append(B, d), one)
        BY <1>4, <1>7, <2>2
      <3> DEFINE zB == z \o Labelled(k, B)
                 l == line(d)
                 dc == Append(d, c)
      <3>2. dc \in Seq(Characters)
        BY <1>1, AppendProperties
      <3> HIDE DEF dc
      <3>3. /\ zB \in Seq(Lines(Characters))
            /\ l \in Lines(Characters) /\ line(dc) \in Lines(Characters)
            /\ z \o Labelled(k, Append(B, d)) = Append(zB, l)
            /\ z \o Labelled(k, Append(B, dc)) = Append(zB, line(dc))
        BY <1>9, <3>2
      <3>4. l.message = d
        OBVIOUS
      <3>5. [l EXCEPT !.message = dc] = line(dc)
        OBVIOUS
      <3> DEFINE w == Append(zB, l)
      <3> HIDE DEF zB, l, line, z
      <3>6. w[Len(w)] = l /\ [w EXCEPT ![Len(w)] = line(dc)] = Append(zB, line(dc))
        BY <3>3, AppendProperties, LastReplaced
      <3> HIDE DEF w
      <3>7. shown = w
        BY <1>6, <3>1, <3>3 DEF w
      <3>8. CASE Len(d) < MaxStringLen
        <4>1. shown1 = [w EXCEPT ![Len(w)].message = Append(@, c)]
          BY <1>8, <2>2, <3>4, <3>6, <3>7, <3>8
        <4>2. shown1 = [w EXCEPT ![Len(w)] = [w[Len(w)] EXCEPT !.message =
                                                 Append(w[Len(w)].message, c)]]
          BY <4>1
        <4>3. shown1 = Append(zB, line(dc))
          BY <3>4, <3>5, <3>6, <4>2 DEF dc
        <4>4. SplitStrIntoChunks(queue') = z \o Labelled(k, Append(B, dc))
          BY <1>6, <3>1, <3>8 DEF dc
        <4> QED BY <3>3, <4>3, <4>4
      <3>9. CASE ~ (Len(d) < MaxStringLen)
        <4>1. shown1 = Append(w, line(one))
          BY <1>8, <2>2, <3>4, <3>6, <3>7, <3>9
        <4>2. z \o Labelled(k, Append(Append(B, d), one)) =
                 Append(z \o Labelled(k, Append(B, d)), line(one))
          <5>1. Append(B, d) \in Seq(Seq(Characters))
            BY AppendProperties
          <5> QED BY <1>3, <1>9, <5>1
        <4>3. SplitStrIntoChunks(queue') = z \o Labelled(k, Append(Append(B, d), one))
          BY <1>6, <3>1, <3>9
        <4> QED BY <3>3, <4>1, <4>2, <4>3 DEF w
      <3> QED BY <3>8, <3>9
    <2> QED BY <2>1, <2>2
  <1>11. LastRow'
    BY <1>2, <1>4, <1>8 DEF x, LastRow
  <1>12. SplitsLikeWrapping'
    BY <1>10 DEF SplitsLikeWrapping, Shown, shown1
  <1> QED BY <1>2, <1>8, <1>11, <1>12 DEF SplitInv

(* split_str_into_chunks makes of any batch the rows that wrapping its
   messages at max_string_len would show, without the blank ones: it drops
   no character but the newlines, adds nothing, and breaks a line only where
   it has to. MaxEntries and MaxChars are any bounds, so this is what the
   function computes for every batch. *)
THEOREM SplitsLikeWrappingAlways == Spec => []SplitsLikeWrapping
  <1>1. Init => SplitInv
    BY InitSplit
  <1>2. SplitInv /\ [Next]_vars => SplitInv'
    <2> SUFFICES ASSUME SplitInv, [Next]_vars PROVE SplitInv'
      OBVIOUS
    <2>1. CASE Next
      BY <2>1, NewEntrySplit, NewlineSplit, CharSplit DEF Next
    <2>2. CASE UNCHANGED vars
      BY <2>2 DEF vars, SplitInv, SplitsLikeWrapping, LastRow, Open
    <2> QED BY <2>1, <2>2
  <1>3. SplitInv => SplitsLikeWrapping
    BY DEF SplitInv
  <1> QED BY <1>1, <1>2, <1>3, PTL DEF Spec
=============================================================================
