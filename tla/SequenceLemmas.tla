--------------------------- MODULE SequenceLemmas ----------------------------
(***************************************************************************)
(* What the proofs about sequences rest on: induction over the natural     *)
(* numbers, stated with a set in the place of a predicate, and the         *)
(* existence of the functions that the models define by recursion over the *)
(* positions of a sequence; then cuts, concatenations and prefixes,        *)
(* flattened sequences, and how many elements a sequence has.              *)
(***************************************************************************)
EXTENDS Naturals, SequencesExt, SequenceTheorems, FiniteSetTheorems,
        WellFoundedInduction, TLAPS

(* Every nonempty set of naturals has a least element. *)
LEMMA LeastNat ==
  ASSUME NEW T, T \subseteq Nat, T # {}
  PROVE  \E m \in T : \A n \in T : m <= n
  <1>1. IsWellFoundedOn(OpToRel(<, Nat), Nat)
    BY NatLessThanWellFounded
  <1>2. \E m \in T : \A n \in T : ~ (<<n, m>> \in OpToRel(<, Nat))
    BY <1>1, WFMin
  <1>3. PICK m \in T : \A n \in T : ~ (<<n, m>> \in OpToRel(<, Nat))
    BY <1>2
  <1>4. ASSUME NEW n \in T PROVE m <= n
    <2>1. m \in Nat /\ n \in Nat
      OBVIOUS
    <2>2. ~ (n < m)
      BY <1>3, <2>1 DEF OpToRel
    <2> QED BY <2>1, <2>2
  <1> QED BY <1>4

(* Induction: a set that holds 0 and, with a number, the next one. *)
LEMMA SetInduction ==
  ASSUME NEW S, 0 \in S, \A n \in Nat : n \in S => n + 1 \in S
  PROVE  Nat \subseteq S
  <1> SUFFICES ASSUME Nat \ S # {} PROVE FALSE
    OBVIOUS
  <1>1. PICK m \in Nat \ S : \A n \in Nat \ S : m <= n
    BY LeastNat
  <1>2. m # 0
    OBVIOUS
  <1>3. m - 1 \in Nat /\ m - 1 \in S
    BY <1>1, <1>2
  <1> QED BY <1>3

(* Two functions that start alike and, from one position to the next, stay *)
(* alike.                                                                  *)
AlikeStepwise(f, g, n) ==
    /\ n \in Nat
    /\ f[0] = g[0]
    /\ \A i \in 1..n : f[i - 1] = g[i - 1] => f[i] = g[i]

AlikeUpTo(f, g, n) == \A i \in 0..n : f[i] = g[i]

(* Such functions are alike at every position. *)
LEMMA AlikeByInduction ==
  ASSUME NEW f, NEW g, NEW n, AlikeStepwise(f, g, n)
  PROVE  AlikeUpTo(f, g, n)
  <1> USE DEF AlikeStepwise
  <1> DEFINE S == {i \in Nat : i <= n => f[i] = g[i]}
  <1>1. 0 \in S
    OBVIOUS
  <1>2. ASSUME NEW i \in Nat, i \in S PROVE i + 1 \in S
    <2>1. CASE i + 1 <= n
      <3>1. i + 1 \in 1..n /\ (i + 1) - 1 = i /\ i <= n
        BY <2>1
      <3>2. f[(i + 1) - 1] = g[(i + 1) - 1]
        BY <1>2, <3>1
      <3>3. f[i + 1] = g[i + 1]
        BY <3>1, <3>2
      <3> QED BY <3>3
    <2> QED BY <2>1
  <1> HIDE DEF S
  <1>3. Nat \subseteq S
    BY <1>1, <1>2, SetInduction
  <1> QED BY <1>3 DEF S, AlikeUpTo

(* A value for 0, and a step F from each position of 1..n to the next.     *)
IsRecursion(X, base, n, F) ==
    base \in X /\ n \in Nat /\ F \in [(1..n) \X X -> X]

(* The function that they define. *)
Recursive(f, X, base, n, F) ==
    /\ f \in [0..n -> X]
    /\ f[0] = base
    /\ \A i \in 1..n : f[i] = F[<<i, f[i - 1]>>]

(* There is one. *)
LEMMA RecursiveExists ==
  ASSUME NEW X, NEW base, NEW n, NEW F, IsRecursion(X, base, n, F)
  PROVE  \E f : Recursive(f, X, base, n, F)
  <1> USE DEF IsRecursion
  <1> DEFINE Upto(m) == {f \in [0..m -> X] :
                            f[0] = base /\ \A i \in 1..m : f[i] = F[<<i, f[i - 1]>>]}
             S == {m \in Nat : m <= n => Upto(m) # {}}
  <1>1. 0 \in S
    <2> DEFINE f == [i \in 0..0 |-> base]
    <2>1. f \in [0..0 -> X] /\ f[0] = base /\ 1..0 = {}
      OBVIOUS
    <2>2. f \in Upto(0)
      BY <2>1
    <2> QED BY <2>2
  <1>2. ASSUME NEW m \in Nat, m \in S PROVE m + 1 \in S
    <2>1. CASE m + 1 <= n
      <3>1. m <= n /\ m + 1 \in 1..n
        BY <2>1
      <3>2. PICK f \in [0..m -> X] :
               f[0] = base /\ \A i \in 1..m : f[i] = F[<<i, f[i - 1]>>]
        BY <1>2, <3>1
      <3> DEFINE x == F[<<m + 1, f[m]>>]
                 g == [i \in 0..(m + 1) |-> IF i <= m THEN f[i] ELSE x]
      <3>3. x \in X
        <4>1. m \in 0..m
          OBVIOUS
        <4>2. f[m] \in X
          BY <4>1
        <4> QED BY <3>1, <4>2
      <3> HIDE DEF x
      <3>4. g \in [0..(m + 1) -> X]
        <4>1. ASSUME NEW i \in 0..(m + 1) PROVE (IF i <= m THEN f[i] ELSE x) \in X
          <5>1. CASE i <= m
            <6>1. i \in 0..m
              BY <5>1
            <6> QED BY <5>1, <6>1
          <5> QED BY <3>3, <5>1
        <4> QED BY <4>1
      <3>5. g[0] = base /\ \A i \in 0..m : g[i] = f[i]
        BY <3>2
      <3>6. g[m + 1] = x
        OBVIOUS
      <3> HIDE DEF g
      <3>7. ASSUME NEW i \in 1..(m + 1) PROVE g[i] = F[<<i, g[i - 1]>>]
        <4>1. CASE i = m + 1
          <5>1. i - 1 = m /\ m \in 0..m
            BY <4>1
          <5>2. g[i - 1] = f[m]
            BY <3>5, <5>1
          <5>3. g[i] = F[<<m + 1, f[m]>>]
            BY <3>6, <4>1 DEF x
          <5> QED BY <4>1, <5>2, <5>3
        <4>2. CASE i # m + 1
          <5>1. i \in 1..m /\ i \in 0..m /\ i - 1 \in 0..m
            BY <4>2
          <5>2. g[i] = f[i] /\ g[i - 1] = f[i - 1]
            BY <3>5, <5>1
          <5>3. f[i] = F[<<i, f[i - 1]>>]
            BY <3>2, <5>1
          <5> QED BY <5>2, <5>3
        <4> QED BY <4>1, <4>2
      <3>8. g \in Upto(m + 1)
        BY <3>4, <3>5, <3>7
      <3> QED BY <3>8
    <2> QED BY <2>1
  <1> HIDE DEF S
  <1>3. Nat \subseteq S
    BY <1>1, <1>2, SetInduction
  <1>4. Upto(n) # {}
    BY <1>3 DEF S
  <1> QED BY <1>4 DEF Recursive

-----------------------------------------------------------------------------
(* Cuts, concatenations and prefixes. *)

(* A sequence, say of buffered entries, cut after its first k elements.    *)
LEMMA BufferSplit ==
  ASSUME NEW S, NEW buf \in Seq(S), NEW k \in 0..Len(buf)
  PROVE  /\ SubSeq(buf, 1, k) \in Seq(S)
         /\ SubSeq(buf, k + 1, Len(buf)) \in Seq(S)
         /\ Len(SubSeq(buf, 1, k)) = k
         /\ Len(SubSeq(buf, k + 1, Len(buf))) = Len(buf) - k
         /\ SubSeq(buf, 1, k) \o SubSeq(buf, k + 1, Len(buf)) = buf
  <1>1. /\ SubSeq(buf, 1, k) \in Seq(S)
        /\ Len(SubSeq(buf, 1, k)) = k
    BY SubSeqProperties, ElementOfSeq
  <1>2. /\ SubSeq(buf, k + 1, Len(buf)) \in Seq(S)
        /\ Len(SubSeq(buf, k + 1, Len(buf))) = Len(buf) - k
    BY SubSeqProperties, ElementOfSeq
  <1>3. SubSeq(buf, 1, k) \o SubSeq(buf, k + 1, Len(buf)) = SubSeq(buf, 1, Len(buf))
    <2>1. /\ 1 \in 1..(Len(buf) + 1) /\ k \in (1 - 1)..Len(buf)
          /\ Len(buf) \in k..Len(buf)
      OBVIOUS
    <2> QED BY <2>1, ConcatAdjacentSubSeq, Zenon
  <1> QED
    BY <1>1, <1>2, <1>3, SubSeqFull

(* A sequence and the one behind it, a file and its buffer, before and     *)
(* after the first k elements of the second move to the first.             *)
LEMMA BufferMoves ==
  ASSUME NEW S, NEW cells \in Seq(S), NEW buf \in Seq(S), NEW k \in 0..Len(buf)
  PROVE  (cells \o SubSeq(buf, 1, k)) \o SubSeq(buf, k + 1, Len(buf)) = cells \o buf
  <1> DEFINE gone == SubSeq(buf, 1, k)
             kept == SubSeq(buf, k + 1, Len(buf))
  <1>0. gone \o kept = buf
    BY BufferSplit
  <1>1. gone \in Seq(S) /\ kept \in Seq(S)
    BY BufferSplit
  <1> HIDE DEF gone, kept
  <1>2. (cells \o gone) \o kept = cells \o (gone \o kept)
    BY <1>1, ConcatAssociative, SMTT(30)
  <1>3. (cells \o gone) \o kept = cells \o buf
    BY <1>0, <1>2
  <1> QED BY <1>3 DEF gone, kept

(* Concatenation associates; stated apart from the sequences it is used on *)
(* because the solver rewrites  s \o <<x>>  otherwise.                     *)
LEMMA ConcatOne ==
  ASSUME NEW S, NEW a \in Seq(S), NEW b \in Seq(S), NEW x \in S
  PROVE  a \o (b \o <<x>>) = (a \o b) \o <<x>>
  <1> DEFINE u == <<x>>
  <1>1. u \in Seq(S)
    OBVIOUS
  <1> HIDE DEF u
  <1>2. a \o (b \o u) = (a \o b) \o u
    BY <1>1, ConcatAssociative, SMTT(30)
  <1> QED BY <1>2 DEF u

(* A prefix is no longer, and agrees element by element. *)
LEMMA PrefixElements ==
  ASSUME NEW S, NEW s \in Seq(S), NEW t \in Seq(S)
  PROVE  IsPrefix(s, t) <=> Len(s) <= Len(t) /\ \A i \in 1..Len(s) : s[i] = t[i]
  <1> DEFINE l == SubSeq(s, 1, Len(s))
             r == SubSeq(t, 1, Len(s))
  <1>1. Len(s) \in Nat /\ Len(t) \in Nat
    OBVIOUS
  <1>2. l \in Seq(S) /\ Len(l) = Len(s) /\ \A i \in 1..Len(s) : l[i] = s[i]
    BY SubSeqProperties, ElementOfSeq
  <1>3. CASE Len(s) <= Len(t)
    <2>1. r \in Seq(S) /\ Len(r) = Len(s) /\ \A i \in 1..Len(s) : r[i] = t[i]
      BY <1>1, <1>3, SubSeqProperties, ElementOfSeq
    <2> HIDE DEF l, r
    <2>2. l = r <=> \A i \in 1..Len(s) : s[i] = t[i]
      BY <1>1, <1>2, <2>1, SeqEqual
    <2> QED BY <1>3, <2>2 DEF IsPrefix, l, r
  <1>4. CASE ~(Len(s) <= Len(t))
    BY <1>4 DEF IsPrefix
  <1> QED BY <1>3, <1>4

(* A sequence is a prefix of what extends it. *)
LEMMA PrefixConcat ==
  ASSUME NEW S, NEW s \in Seq(S), NEW t \in Seq(S)
  PROVE  IsPrefix(s, s \o t)
  <1>1. s \o t \in Seq(S)
    BY ConcatProperties
  <1>2. Len(s) <= Len(s \o t) /\ \A i \in 1..Len(s) : s[i] = (s \o t)[i]
    BY ConcatProperties
  <1> QED BY <1>1, <1>2, PrefixElements

(* Being a prefix is transitive. *)
LEMMA PrefixTrans ==
  ASSUME NEW S, NEW s \in Seq(S), NEW t \in Seq(S), NEW u \in Seq(S),
         IsPrefix(s, t), IsPrefix(t, u)
  PROVE  IsPrefix(s, u)
  <1>1. Len(s) <= Len(t) /\ \A i \in 1..Len(s) : s[i] = t[i]
    BY PrefixElements
  <1>2. Len(t) <= Len(u) /\ \A i \in 1..Len(t) : t[i] = u[i]
    BY PrefixElements
  <1>3. Len(s) <= Len(u) /\ \A i \in 1..Len(s) : s[i] = u[i]
    BY <1>1, <1>2
  <1> QED BY <1>3, PrefixElements

(* A sequence is a prefix of itself. *)
LEMMA PrefixSelf ==
  ASSUME NEW S, NEW s \in Seq(S)
  PROVE  IsPrefix(s, s)
  BY DEF IsPrefix

(* Moving u, the first of what is to come, to the end of what is done. *)
LEMMA WriteAccount ==
  ASSUME NEW S, NEW a \in Seq(S), NEW u \in Seq(S), NEW r \in Seq(S), NEW q \in Seq(S)
  PROVE  /\ a \o (u \o r) \o q = (a \o u) \o r \o q
         /\ IsPrefix(a \o u, a \o (u \o r) \o q)
  <1>2. (a \o u) \o r = a \o (u \o r)
    BY ConcatAssociative, SMTT(30)
  <1> DEFINE au == a \o u
             rq == r \o q
  <1>3. au \in Seq(S) /\ rq \in Seq(S)
    BY ConcatProperties
  <1>4. a \o (u \o r) = au \o r
    BY <1>2
  <1> HIDE DEF au
  <1>5. (au \o r) \o q = au \o (r \o q)
    BY <1>3, ConcatAssociative, SMTT(30)
  <1>6. a \o (u \o r) \o q = au \o r \o q
    BY <1>4
  <1>7. a \o (u \o r) \o q = au \o rq
    BY <1>5, <1>6
  <1> HIDE DEF rq
  <1>8. IsPrefix(au, au \o rq)
    BY <1>3, PrefixConcat
  <1> QED BY <1>6, <1>7, <1>8 DEF au

(* What a concatenation adds is its suffix. *)
LEMMA AddedSuffix ==
  ASSUME NEW S, NEW s \in Seq(S), NEW d \in Seq(S)
  PROVE  SubSeq(s \o d, Len(s) + 1, Len(s \o d)) = d
  <1>1. Len(s) \in Nat /\ Len(d) \in Nat /\ Len(s \o d) = Len(s) + Len(d)
    BY ConcatProperties, LenProperties
  <1>2. CASE d = <<>>
    <2>1. Len(d) = 0
      BY <1>2, EmptySeq
    <2>2. Len(s \o d) < Len(s) + 1
      BY <1>1, <2>1
    <2> HIDE <1>2
    <2>3. SubSeq(s \o d, Len(s) + 1, Len(s \o d)) = <<>>
      <3> DEFINE sd == s \o d
      <3>1. Len(s) + 1 \in Int /\ Len(sd) \in Int /\ Len(sd) < Len(s) + 1
        BY <1>1, <2>2
      <3> HIDE DEF sd
      <3>2. SubSeq(sd, Len(s) + 1, Len(sd)) = <<>>
        BY <3>1, SubSeqEmpty
      <3> QED BY <3>2 DEF sd
    <2> QED BY <1>2, <2>3
  <1>3. CASE d # <<>>
    <2> DEFINE m == Len(s) + 1
               n == Len(s) + Len(d)
    <2>1. Len(d) \in Nat \ {0}
      BY <1>3, EmptySeq
    <2>2. m \in Len(s)+1 .. Len(s)+Len(d) /\ n \in Len(s)+1 .. Len(s)+Len(d)
      BY <1>1, <2>1
    <2>3. m - Len(s) = 1 /\ n - Len(s) = Len(d)
      BY <1>1
    <2> HIDE DEF m, n
    <2>4. SubSeq(s \o d, m, n) = SubSeq(d, m - Len(s), n - Len(s))
      BY <2>2, SubSeqOfConcat2
    <2>5. SubSeq(s \o d, m, n) = d
      BY <2>3, <2>4, SubSeqFull
    <2> QED BY <1>1, <2>5 DEF m, n
  <1> QED BY <1>2, <1>3

(* A suffix grows with its sequence. *)
LEMMA SuffixAppend ==
  ASSUME NEW S, NEW g \in Seq(S), NEW e \in S, NEW s \in Nat, s <= Len(g)
  PROVE  /\ SubSeq(g, s + 1, Len(g)) \in Seq(S)
         /\ SubSeq(g \o <<e>>, s + 1, Len(g \o <<e>>)) =
               Append(SubSeq(g, s + 1, Len(g)), e)
  <1> DEFINE n == Len(g)
             one == <<e>>
             more == g \o one
             old == SubSeq(g, s + 1, n)
  <1>1. /\ n \in Nat /\ one \in Seq(S) /\ Len(one) = 1
        /\ more \in Seq(S) /\ Len(more) = n + 1
    BY ConcatProperties, LenProperties
  <1>2. old \in Seq(S)
    <2>1. \A i \in s + 1..n : g[i] \in S
      BY <1>1, ElementOfSeq
    <2> QED BY <1>1, <2>1, SubSeqProperties
  <1>3. more[n + 1] = e
    <2>1. n + 1 \in 1..(n + 1) /\ ~(n + 1 <= n) /\ (n + 1) - n = 1
      BY <1>1
    <2>2. more[n + 1] = one[(n + 1) - n]
      BY <1>1, <2>1, ConcatProperties
    <2> QED BY <2>1, <2>2
  <1> HIDE DEF more
  <1>4. SubSeq(more, s + 1, n + 1) = SubSeq(more, s + 1, n) \o <<e>>
    <2>1. s + 1 \in 1..Len(more) /\ n + 1 \in s + 1..Len(more) /\ (n + 1) - 1 = n
      BY <1>1
    <2>2. SubSeq(more, s + 1, n + 1) = SubSeq(more, s + 1, (n + 1) - 1) \o <<more[n + 1]>>
      BY <1>1, <2>1, SubSeqRecursiveSecond
    <2> QED BY <1>3, <2>1, <2>2
  <1>5. SubSeq(more, s + 1, n) = old
    <2>1. CASE s + 1 <= n
      <3>1. s + 1 \in 1..n /\ n \in 1..n
        BY <1>1, <2>1
      <3>2. SubSeq(g \o one, s + 1, n) = SubSeq(g, s + 1, n)
        BY <1>1, <3>1, SubSeqOfConcat1
      <3> QED BY <3>2 DEF more
    <2>2. CASE n < s + 1
      <3>1. s + 1 \in Int /\ n \in Int
        BY <1>1
      <3> QED BY <2>2, <3>1, SubSeqEmpty
    <2> QED BY <1>1, <2>1, <2>2
  <1> HIDE DEF old
  <1>6. Append(old, e) = old \o <<e>>
    BY <1>2, AppendIsConcat
  <1> QED BY <1>1, <1>2, <1>4, <1>5, <1>6 DEF more, old

(* Appending y to x when p comes before it. *)
AppendsLast(p, x, y) == p \o Append(x, y) = Append(p \o x, y)

(* What is appended to the second of two sequences is appended to both. *)
LEMMA ConcatAppend ==
  ASSUME NEW S, NEW p \in Seq(S), NEW x \in Seq(S), NEW y \in S
  PROVE  AppendsLast(p, x, y)
  <1> DEFINE u == <<y>>
             px == p \o x
  <1>1. u \in Seq(S) /\ px \in Seq(S)
    BY ConcatProperties
  <1>2. Append(x, y) = x \o u /\ Append(px, y) = px \o u
    <2> HIDE DEF px
    <2> QED BY <1>1, AppendIsConcat
  <1> HIDE DEF u
  <1>3. p \o (x \o u) = (p \o x) \o u
    BY <1>1, ConcatAssociative, SMTT(30)
  <1> QED BY <1>2, <1>3 DEF AppendsLast

(* The last element of a sequence replaced. *)
LEMMA LastReplaced ==
  ASSUME NEW S, NEW f \in Seq(S), NEW s \in S, NEW x \in S
  PROVE  [Append(f, s) EXCEPT ![Len(Append(f, s))] = x] = Append(f, x)
  <1> DEFINE a == Append(f, s)
             l == [a EXCEPT ![Len(a)] = x]
             r == Append(f, x)
             n == Len(f)
  <1>1. n \in Nat /\ a \in Seq(S) /\ Len(a) = n + 1 /\ \A i \in 1..n : a[i] = f[i]
    BY AppendProperties, LenProperties
  <1> HIDE DEF a
  <1>2. n + 1 \in 1..(n + 1)
    BY <1>1
  <1>3. /\ l \in Seq(S) /\ Len(l) = n + 1
        /\ \A i \in 1..(n + 1) : l[i] = IF i = n + 1 THEN x ELSE a[i]
    <2> DEFINE m == n + 1
    <2>1. m \in 1..Len(a) /\ Len(a) = m
      BY <1>1, <1>2
    <2> HIDE DEF m
    <2>2. /\ [a EXCEPT ![m] = x] \in Seq(S) /\ Len([a EXCEPT ![m] = x]) = m
          /\ \A i \in 1..m : [a EXCEPT ![m] = x][i] = IF i = m THEN x ELSE a[i]
      BY <1>1, <2>1, ExceptSeq
    <2> QED BY <2>1, <2>2 DEF m
  <1>4. /\ r \in Seq(S) /\ Len(r) = n + 1 /\ r[n + 1] = x
        /\ \A i \in 1..n : r[i] = f[i]
    BY AppendProperties
  <1> HIDE DEF l, r, n
  <1>5. ASSUME NEW i \in 1..(n + 1) PROVE l[i] = r[i]
    <2>1. CASE i = n + 1
      BY <1>3, <1>4, <2>1
    <2>2. CASE i # n + 1
      <3>1. i \in 1..n
        BY <1>1, <2>2
      <3> QED BY <1>1, <1>3, <1>4, <2>2, <3>1
    <2> QED BY <2>1, <2>2
  <1>6. l = r
    BY <1>3, <1>4, <1>5, SeqEqual
  <1> QED BY <1>6 DEF l, r, a

-----------------------------------------------------------------------------
(* Sequences flattened. *)

(* f[i] is the concatenation of the first i sequences.                     *)
Flattens(f, seqs, S) ==
    /\ f \in [0..Len(seqs) -> Seq(S)]
    /\ FlattenSeq(seqs) = f[Len(seqs)]
    /\ f[0] = <<>>
    /\ \A i \in 1..Len(seqs) : f[i] = f[i - 1] \o seqs[i]

(* FlattenSeq concatenates from the first sequence to the last. *)
LEMMA FlattenRecursive ==
  ASSUME NEW S, NEW seqs \in Seq(Seq(S))
  PROVE  \E f : Flattens(f, seqs, S)
  <1> DEFINE n == Len(seqs)
             X == Seq(S)
             F == [p \in (1..n) \X X |-> p[2] \o seqs[p[1]]]
             Step(h, i) == IF i = 1 THEN seqs[i] ELSE h[i - 1] \o seqs[i]
             flatten == CHOOSE h : h = [i \in 1..n |-> Step(h, i)]
  <1>1. n \in Nat /\ <<>> \in X
    BY EmptySeq
  <1>2. \A i \in 1..n : seqs[i] \in X
    BY ElementOfSeq
  <1>3. F \in [(1..n) \X X -> X]
    <2>1. ASSUME NEW p \in (1..n) \X X PROVE p[2] \o seqs[p[1]] \in X
      <3>1. p[1] \in 1..n /\ p[2] \in Seq(S)
        OBVIOUS
      <3>2. seqs[p[1]] \in Seq(S)
        BY <1>2, <3>1
      <3> QED BY <3>1, <3>2, ConcatProperties
    <2> QED BY <2>1
  <1>4. \A i \in 1..n : \A x \in X : F[<<i, x>>] = x \o seqs[i]
    OBVIOUS
  <1>4a. n = 0 => FlattenSeq(seqs) = <<>>
    <2>1. Len(seqs) = 0 => seqs = <<>>
      BY EmptySeq
    <2> QED BY <2>1 DEF FlattenSeq
  <1>4b. n # 0 => FlattenSeq(seqs) = flatten[n]
    BY DEF FlattenSeq
  <1> HIDE DEF F, X, n
  <1>5. PICK f : Recursive(f, X, <<>>, n, F)
    <2>1. IsRecursion(X, <<>>, n, F)
      BY <1>1, <1>3 DEF IsRecursion
    <2> QED BY <2>1, RecursiveExists
  <1>6. /\ f \in [0..n -> X]
        /\ f[0] = <<>> /\ \A i \in 1..n : f[i] = F[<<i, f[i - 1]>>]
    BY <1>5 DEF Recursive
  <1>7. \A i \in 1..n : f[i] = f[i - 1] \o seqs[i]
    <2> TAKE i \in 1..n
    <2>1. i - 1 \in 0..n
      BY <1>1
    <2>2. f[i - 1] \in X
      BY <1>6, <2>1
    <2> QED BY <1>4, <1>6, <2>2
  <1>14. n # 0 => f[1] = f[0] \o seqs[1]
    <2>1. 1 - 1 = 0 /\ (n # 0 => 1 \in 1..n)
      BY <1>1
    <2>2. n # 0 => f[1] = f[1 - 1] \o seqs[1]
      BY <1>7, <2>1
    <2> QED BY <2>1, <2>2
  <1> DEFINE h == [i \in 1..n |-> f[i]]
  <1>8. h = [i \in 1..n |-> Step(h, i)]
    <2>1. \A i \in 1..n : f[i] = Step(h, i)
      <3> TAKE i \in 1..n
      <3>0. n # 0
        BY <1>1
      <3>1. CASE i = 1
        <4>1. f[1] = f[0] \o seqs[1]
          BY <1>14, <3>0
        <4>2. <<>> \o seqs[1] = seqs[1]
          BY <1>2, <3>1, ConcatEmptySeq DEF X
        <4> QED BY <1>6, <3>1, <4>1, <4>2
      <3>2. CASE i # 1
        <4>1. i - 1 \in 1..n
          BY <1>1, <3>2
        <4>2. h[i - 1] = f[i - 1]
          BY <4>1
        <4> QED BY <1>7, <3>2, <4>2
      <3> QED BY <3>1, <3>2
    <2> QED BY <2>1
  <1>9. flatten = [i \in 1..n |-> Step(flatten, i)]
    BY <1>8
  <1> HIDE DEF flatten, h
  <1> DEFINE k == [i \in 0..n |-> IF i = 0 THEN <<>> ELSE flatten[i]]
  <1>10. \A i \in 1..n : k[i] = flatten[i]
    BY <1>1
  <1>11. k[0] = <<>>
    BY <1>1
  <1> HIDE DEF k
  <1>12. \A i \in 0..n : k[i] = f[i]
    <2>1. \A i \in 1..n : flatten[i] = Step(flatten, i)
      BY <1>9
    <2>2. ASSUME NEW i \in 1..n, k[i - 1] = f[i - 1] PROVE k[i] = f[i]
      <3>0. n # 0
        BY <1>1
      <3>1. CASE i = 1
        <4>1. k[i] = seqs[1]
          BY <1>10, <2>1, <3>1
        <4>2. <<>> \o seqs[1] = seqs[1]
          BY <1>2, <3>1, ConcatEmptySeq DEF X
        <4>3. f[1] = f[0] \o seqs[1]
          BY <1>14, <3>0
        <4> QED BY <1>6, <3>1, <4>1, <4>2, <4>3
      <3>2. CASE i # 1
        <4>1. i - 1 \in 1..n
          BY <1>1, <3>2
        <4>2. k[i] = flatten[i - 1] \o seqs[i]
          BY <1>10, <2>1, <3>2
        <4>3. k[i - 1] = flatten[i - 1]
          BY <1>10, <4>1
        <4>4. k[i] = f[i - 1] \o seqs[i]
          BY <2>2, <4>2, <4>3
        <4> QED BY <1>7, <4>4
      <3> QED BY <3>1, <3>2
    <2>3. AlikeStepwise(k, f, n)
      BY <1>1, <1>6, <1>11, <2>2 DEF AlikeStepwise
    <2>4. AlikeUpTo(k, f, n)
      BY <2>3, AlikeByInduction
    <2> QED BY <2>4 DEF AlikeUpTo
  <1>13. FlattenSeq(seqs) = f[n]
    <2>1. CASE n = 0
      BY <1>4a, <1>6, <2>1
    <2>2. CASE n # 0
      <3>1. n \in 1..n /\ n \in 0..n
        BY <1>1, <2>2
      <3> QED BY <1>4b, <1>10, <1>12, <2>2, <3>1
    <2> QED BY <2>1, <2>2
  <1> QED BY <1>6, <1>7, <1>13 DEF n, X, Flattens

(* Flattening one sequence more. *)
LEMMA FlattenAppend ==
  ASSUME NEW S, NEW seqs \in Seq(Seq(S)), NEW s \in Seq(S)
  PROVE  /\ FlattenSeq(seqs) \in Seq(S)
         /\ FlattenSeq(Append(seqs, s)) = FlattenSeq(seqs) \o s
  <1> DEFINE n == Len(seqs)
             more == Append(seqs, s)
  <1>1. /\ n \in Nat /\ more \in Seq(Seq(S)) /\ Len(more) = n + 1
        /\ more[n + 1] = s /\ \A i \in 1..n : more[i] = seqs[i]
    BY AppendProperties, LenProperties
  <1>2. PICK f : Flattens(f, seqs, S)
    BY FlattenRecursive
  <1> HIDE DEF more
  <1>3. PICK g : Flattens(g, more, S)
    BY <1>1, FlattenRecursive
  <1>4. /\ f \in [0..n -> Seq(S)] /\ FlattenSeq(seqs) = f[n] /\ f[0] = <<>>
        /\ \A i \in 1..n : f[i] = f[i - 1] \o seqs[i]
    BY <1>2 DEF Flattens
  <1>5. /\ FlattenSeq(more) = g[n + 1] /\ g[0] = <<>>
        /\ \A i \in 1..(n + 1) : g[i] = g[i - 1] \o more[i]
    BY <1>1, <1>3 DEF Flattens
  <1> HIDE DEF n
  <1>6. ASSUME NEW i \in 1..n, f[i - 1] = g[i - 1] PROVE f[i] = g[i]
    <2>1. i \in 1..(n + 1) /\ more[i] = seqs[i]
      BY <1>1
    <2> QED BY <1>4, <1>5, <1>6, <2>1
  <1>7. \A i \in 0..n : f[i] = g[i]
    <2>1. AlikeStepwise(f, g, n)
      BY <1>1, <1>4, <1>5, <1>6 DEF AlikeStepwise
    <2>2. AlikeUpTo(f, g, n)
      BY <2>1, AlikeByInduction
    <2> QED BY <2>2 DEF AlikeUpTo
  <1>8. n \in 0..n /\ n + 1 \in 1..(n + 1) /\ (n + 1) - 1 = n
    BY <1>1
  <1>9. g[n] = f[n] /\ f[n] \in Seq(S)
    BY <1>4, <1>7, <1>8
  <1>10. g[n + 1] = g[(n + 1) - 1] \o more[n + 1]
    BY <1>5, <1>8
  <1>11. g[n + 1] = f[n] \o s
    BY <1>1, <1>8, <1>9, <1>10
  <1> QED BY <1>4, <1>5, <1>9, <1>11 DEF more

(* Flattening two sequences of sequences, one after the other. *)
LEMMA FlattenConcat ==
  ASSUME NEW S, NEW a \in Seq(Seq(S)), NEW b \in Seq(Seq(S))
  PROVE  FlattenSeq(a \o b) = FlattenSeq(a) \o FlattenSeq(b)
  <1> DEFINE n == Len(a)
             m == Len(b)
             ab == a \o b
  <1>1. /\ n \in Nat /\ m \in Nat /\ ab \in Seq(Seq(S)) /\ Len(ab) = n + m
        /\ \A i \in 1..n : ab[i] = a[i]
        /\ \A i \in 1..m : ab[n + i] = b[i]
    <2>1. ab \in Seq(Seq(S)) /\ Len(ab) = n + m /\ n \in Nat /\ m \in Nat
      BY ConcatProperties, LenProperties
    <2>2. \A i \in 1..(n + m) : ab[i] = IF i <= n THEN a[i] ELSE b[i - n]
      BY ConcatProperties
    <2> HIDE DEF n, m, ab
    <2>3. \A i \in 1..n : i \in 1..(n + m) /\ i <= n
      BY <2>1
    <2>4. \A i \in 1..m : n + i \in 1..(n + m) /\ ~(n + i <= n) /\ (n + i) - n = i
      BY <2>1
    <2> QED BY <2>1, <2>2, <2>3, <2>4
  <1>2. PICK f : Flattens(f, ab, S)
    BY <1>1, FlattenRecursive
  <1>3. PICK h : Flattens(h, a, S)
    BY FlattenRecursive
  <1>4. PICK g : Flattens(g, b, S)
    BY FlattenRecursive
  <1> HIDE DEF ab
  <1>5. /\ f \in [0..(n + m) -> Seq(S)] /\ FlattenSeq(ab) = f[n + m] /\ f[0] = <<>>
        /\ \A i \in 1..(n + m) : f[i] = f[i - 1] \o ab[i]
    BY <1>1, <1>2 DEF Flattens
  <1>6. /\ FlattenSeq(a) = h[n] /\ h[0] = <<>>
        /\ \A i \in 1..n : h[i] = h[i - 1] \o a[i]
    BY <1>3 DEF Flattens
  <1>7. /\ g \in [0..m -> Seq(S)] /\ FlattenSeq(b) = g[m] /\ g[0] = <<>>
        /\ \A i \in 1..m : g[i] = g[i - 1] \o b[i]
    BY <1>4 DEF Flattens
  <1>7a. \A i \in 1..m : b[i] \in Seq(S)
    BY ElementOfSeq
  <1> HIDE DEF n, m
  <1>8. f[n] = FlattenSeq(a)
    <2>1. ASSUME NEW i \in 1..n, f[i - 1] = h[i - 1] PROVE f[i] = h[i]
      <3>1. ab[i] = a[i]
        BY <1>1
      <3>2. n \in Nat /\ m \in Nat
        BY <1>1
      <3>3. i \in 1..(n + m)
        BY <3>2
      <3> QED BY <1>5, <1>6, <2>1, <3>1, <3>3
    <2>2. AlikeStepwise(f, h, n)
      BY <1>1, <1>5, <1>6, <2>1 DEF AlikeStepwise
    <2>3. AlikeUpTo(f, h, n)
      BY <2>2, AlikeByInduction
    <2>4. n \in 0..n
      BY <1>1
    <2> QED BY <1>6, <2>3, <2>4 DEF AlikeUpTo
  <1>9. f[n] \in Seq(S)
    BY <1>1, <1>5
  <1> DEFINE k == [j \in 0..m |-> f[n + j]]
             l == [j \in 0..m |-> f[n] \o g[j]]
  <1>10. \A j \in 0..m : k[j] = f[n + j] /\ l[j] = f[n] \o g[j]
    OBVIOUS
  <1> HIDE DEF k, l
  <1>11. 0 \in 0..m /\ m \in 0..m /\ n + 0 = n
    BY <1>1
  <1>12. k[0] = l[0]
    <2>1. f[n] \o <<>> = f[n]
      BY <1>9, ConcatEmptySeq
    <2> QED BY <1>7, <1>10, <1>11, <2>1
  <1>13. ASSUME NEW i \in 1..m, k[i - 1] = l[i - 1] PROVE k[i] = l[i]
    <2>1. i \in 0..m /\ i - 1 \in 0..m /\ n + i \in 1..(n + m) /\ (n + i) - 1 = n + (i - 1)
      BY <1>1
    <2>2. f[n + i] = f[(n + i) - 1] \o ab[n + i]
      BY <1>5, <2>1
    <2>3. f[n + (i - 1)] = f[n] \o g[i - 1]
      BY <1>10, <1>13, <2>1
    <2>4. ab[n + i] = b[i]
      BY <1>1
    <2>5. f[n + i] = (f[n] \o g[i - 1]) \o b[i]
      BY <2>1, <2>2, <2>3, <2>4
    <2>6. g[i - 1] \in Seq(S) /\ b[i] \in Seq(S)
      BY <1>7, <1>7a, <2>1
    <2> DEFINE p == f[n]
               q == g[i - 1]
               r == b[i]
    <2>7. p \in Seq(S) /\ q \in Seq(S) /\ r \in Seq(S)
      BY <1>9, <2>6
    <2>8. f[n + i] = (p \o q) \o r /\ g[i] = q \o r
      BY <1>7, <2>5
    <2>9. k[i] = f[n + i] /\ l[i] = p \o g[i]
      BY <1>10, <2>1
    <2> HIDE DEF p, q, r
    <2>10. (p \o q) \o r = p \o (q \o r)
      BY <2>7, ConcatAssociative, SMTT(30)
    <2> QED BY <2>8, <2>9, <2>10
  <1>14. k[m] = l[m]
    <2>1. AlikeStepwise(k, l, m)
      BY <1>1, <1>12, <1>13 DEF AlikeStepwise
    <2>2. AlikeUpTo(k, l, m)
      BY <2>1, AlikeByInduction
    <2> QED BY <1>11, <2>2 DEF AlikeUpTo
  <1> QED BY <1>5, <1>7, <1>8, <1>10, <1>11, <1>14 DEF ab

(* Flattening nothing. *)
LEMMA FlattenEmpty ==
  ASSUME NEW seqs, seqs = <<>>
  PROVE  FlattenSeq(seqs) = <<>>
  BY DEF FlattenSeq

(* A sequence has no more different elements than positions. *)
LEMMA RangeBound ==
  ASSUME NEW T, NEW n \in Nat, NEW f \in [1..n -> T]
  PROVE  IsFiniteSet(Range(f)) /\ Cardinality(Range(f)) <= n
  <1>1. f \in Surjection(1..n, Range(f))
    BY DEF Surjection, Range
  <1>2. IsFiniteSet(1..n)
    BY FS_Interval
  <1>3. ExistsSurjection(1..n, Range(f))
    BY <1>1 DEF ExistsSurjection
  <1> QED BY <1>1, <1>2, <1>3, FS_Surjection, FS_SurjCardinalityBound
=============================================================================
