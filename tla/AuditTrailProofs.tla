------------------------- MODULE AuditTrailProofs -------------------------
(***************************************************************************)
(* The access log, proved for any identities, connections, writers and     *)
(* failures and any sizes of queues, files, buffers and the directory: a   *)
(* record is in the log at most once, is lost only with a trace, and a     *)
(* writer that has ended left nothing that did not come late.              *)
(*                                                                         *)
(* The argument.  The log of an identity is weighed by a function of its   *)
(* lines.  Each operation of the writer on its files changes every weight  *)
(* by that of the line it writes, or by less and then notes a drop; the    *)
(* lemmas say so of one file, of all files in any order, and of the steps  *)
(* of the writer.  The properties then follow for three weights: the       *)
(* copies of a record, the records a line stands for, and the open gaps.   *)
(***************************************************************************)
EXTENDS AuditTrail, SequenceTheorems, FiniteSetTheorems, TLAPS

-----------------------------------------------------------------------------
(* Amounts of sequences.  Sets of numbers are closed under induction, so a *)
(* recursive function over 0..Len(s) exists and has the values it should.  *)

LEMMA LessIsWellFounded == IsWellFoundedOn({p \in Nat \X Nat : p[1] < p[2]}, Nat)
BY NatLessThanWellFounded DEF OpToRel

\* Induction, for a set of numbers instead of a predicate.
LEMMA SetInduction ==
  ASSUME NEW S, 0 \in S, \A n \in Nat : n \in S => n + 1 \in S
  PROVE  \A n \in Nat : n \in S
<1> DEFINE R == {p \in Nat \X Nat : p[1] < p[2]}
           T == Nat \ S
<1>1. SUFFICES ASSUME T # {} PROVE FALSE
  OBVIOUS
<1>2. IsWellFoundedOn(R, Nat) /\ T \subseteq Nat
  BY LessIsWellFounded
<1>3. PICK x \in T : \A y \in T : ~(<<y, x>> \in R)
  <2> HIDE DEF R, T
  <2> QED BY <1>1, <1>2, WFMin
<1>4. x \in Nat /\ x # 0 /\ x - 1 \in Nat
  OBVIOUS
<1>5. <<x - 1, x>> \in R
  BY <1>4
<1>6. x - 1 \in S
  BY <1>3, <1>4, <1>5
<1> QED BY <1>4, <1>6

\* The values of a recursion over 0..L.
Recursion(S, L, base, step) ==
    \E g \in [0..L -> S] : g[0] = base /\ \A n \in 1..L : g[n] = step[n][g[n - 1]]

\* A function that is defined step by step over 0..L exists.
LEMMA RecursionExists ==
  ASSUME NEW S, NEW L \in Nat, NEW base \in S, NEW step \in [1..L -> [S -> S]]
  PROVE  Recursion(S, L, base, step)
<1> DEFINE Solution(m, g) == g = [n \in 0..m |-> IF n = 0 THEN base ELSE step[n][g[n - 1]]]
           Good == {m \in Nat : m <= L => \E g \in [0..m -> S] : Solution(m, g)}
<1>1. 0 \in Good
  <2>1. [n \in 0..0 |-> base] \in [0..0 -> S] /\ Solution(0, [n \in 0..0 |-> base])
    OBVIOUS
  <2> QED
    BY <2>1
<1>2. ASSUME NEW m \in Nat, m \in Good PROVE m + 1 \in Good
  <2>1. SUFFICES ASSUME m + 1 <= L
                 PROVE  \E g \in [0..(m + 1) -> S] : Solution(m + 1, g)
    OBVIOUS
  <2>2. PICK g \in [0..m -> S] : Solution(m, g)
    BY <1>2, <2>1
  <2> DEFINE h == [n \in 0..(m + 1) |-> IF n = m + 1 THEN step[m + 1][g[m]] ELSE g[n]]
  <2>3. h \in [0..(m + 1) -> S]
    BY <2>1
  <2>4. ASSUME NEW n \in 0..(m + 1)
        PROVE  h[n] = IF n = 0 THEN base ELSE step[n][h[n - 1]]
    <3>1. CASE n = m + 1
      <4>1. h[n - 1] = g[m] /\ n # 0
        BY <3>1
      <4> QED
        BY <3>1, <4>1
    <3>2. CASE n \in 0..m
      <4>1. h[n] = g[n] /\ (n # 0 => h[n - 1] = g[n - 1])
        BY <3>2
      <4>2. g[n] = IF n = 0 THEN base ELSE step[n][g[n - 1]]
        BY <2>2, <3>2
      <4> HIDE DEF h
      <4> QED
        BY <4>1, <4>2
    <3> QED
      BY <3>1, <3>2
  <2>5. Solution(m + 1, h)
    BY <2>4
  <2> HIDE DEF h
  <2> QED
    BY <2>3, <2>5
<1>3. L \in Good
  <2> HIDE DEF Good
  <2> QED
    BY <1>1, <1>2, SetInduction
<1>4. PICK g \in [0..L -> S] : Solution(L, g)
  BY <1>3
<1>5. \A n \in 0..L : g[n] = IF n = 0 THEN base ELSE step[n][g[n - 1]]
  BY <1>4
<1>6. 0 \in 0..L /\ \A n \in 1..L : n \in 0..L /\ n # 0
  OBVIOUS
<1> HIDE DEF Solution
<1> QED
  BY <1>5, <1>6 DEF Recursion

\* The running totals of a sequence.
Totals(s, W, g) ==
    /\ g \in [0..Len(s) -> Nat]
    /\ g[0] = 0
    /\ \A n \in 1..Len(s) : g[n] = g[n - 1] + W[s[n]]

\* Amount is the last of the running totals.
LEMMA AmountUnfolds ==
  ASSUME NEW D, NEW s \in Seq(D), NEW W \in [D -> Nat]
  PROVE  \E g : Totals(s, W, g) /\ Amount(s, W) = g[Len(s)]
<1> DEFINE step == [n \in 1..Len(s) |-> [x \in Nat |-> x + W[s[n]]]]
           upto == CHOOSE g : g = [n \in 0..Len(s) |-> IF n = 0 THEN 0 ELSE g[n - 1] + W[s[n]]]
<1>1. Len(s) \in Nat /\ \A n \in 1..Len(s) : W[s[n]] \in Nat
  BY LenProperties, ElementOfSeq
<1>2. step \in [1..Len(s) -> [Nat -> Nat]]
  BY <1>1
<1>3. PICK g \in [0..Len(s) -> Nat] :
         g[0] = 0 /\ \A n \in 1..Len(s) : g[n] = step[n][g[n - 1]]
  <2>1. Len(s) \in Nat /\ 0 \in Nat
    BY <1>1
  <2>2. Recursion(Nat, Len(s), 0, step)
    <3> HIDE DEF step
    <3> QED
      BY <1>2, <2>1, RecursionExists
  <2> HIDE DEF step
  <2> QED
    BY <2>2 DEF Recursion
<1>4. g = [n \in 0..Len(s) |-> IF n = 0 THEN 0 ELSE g[n - 1] + W[s[n]]]
  <2>1. ASSUME NEW n \in 0..Len(s), n # 0 PROVE g[n] = g[n - 1] + W[s[n]]
    <3>1. n \in 1..Len(s) /\ n - 1 \in 0..Len(s)
      BY <1>1, <2>1
    <3>2. g[n - 1] \in Nat
      BY <3>1
    <3> QED
      BY <1>3, <3>1, <3>2
  <2> QED
    BY <1>3, <2>1
<1>5. upto = [n \in 0..Len(s) |-> IF n = 0 THEN 0 ELSE upto[n - 1] + W[s[n]]]
  BY <1>4
<1>6. Amount(s, W) = upto[Len(s)]
  BY DEF Amount
<1>7. \A n \in 0..Len(s) : upto[n] = IF n = 0 THEN 0 ELSE upto[n - 1] + W[s[n]]
  BY <1>5
<1>8. upto \in [0..Len(s) -> Nat]
  <2> DEFINE Typed == {n \in Nat : n <= Len(s) => upto[n] \in Nat}
  <2> HIDE DEF upto
  <2>1. 0 \in Typed
    BY <1>1, <1>7
  <2>2. ASSUME NEW n \in Nat, n \in Typed PROVE n + 1 \in Typed
    <3>1. SUFFICES ASSUME n + 1 <= Len(s) PROVE upto[n + 1] \in Nat
      OBVIOUS
    <3>2. n + 1 \in 1..Len(s) /\ n + 1 \in 0..Len(s) /\ n + 1 # 0 /\ (n + 1) - 1 = n /\ n <= Len(s)
      BY <1>1, <3>1
    <3>3. upto[n] \in Nat /\ W[s[n + 1]] \in Nat
      BY <1>1, <2>2, <3>2
    <3>4. upto[n + 1] = upto[n] + W[s[n + 1]]
      BY <1>7, <3>2
    <3> QED
      BY <3>3, <3>4
  <2>3. \A n \in Nat : n \in Typed
    <3> HIDE DEF Typed
    <3> QED
      BY <2>1, <2>2, SetInduction
  <2>4. DOMAIN upto = 0..Len(s) /\ \A n \in 0..Len(s) : upto[n] \in Nat
    BY <1>1, <1>5, <2>3
  <2> QED
    BY <1>5, <2>4
<1> HIDE DEF upto
<1>9. upto[0] = 0 /\ \A n \in 1..Len(s) : upto[n] = upto[n - 1] + W[s[n]]
  BY <1>1, <1>7
<1>10. Totals(s, W, upto)
  BY <1>8, <1>9 DEF Totals
<1> QED
  BY <1>6, <1>10

LEMMA AmountIsNat ==
  ASSUME NEW D, NEW s \in Seq(D), NEW W \in [D -> Nat]
  PROVE  Amount(s, W) \in Nat
<1>1. Len(s) \in Nat
  BY LenProperties
<1> QED
  BY <1>1, AmountUnfolds DEF Totals

Agree(s, t, m) == m <= Len(s) /\ m <= Len(t) /\ \A n \in 1..m : s[n] = t[n]

\* Two sequences that agree for a while amount to the same so far.
LEMMA PrefixAmount ==
  ASSUME NEW D, NEW s \in Seq(D), NEW t \in Seq(D), NEW W \in [D -> Nat],
         NEW g, NEW h, Totals(s, W, g), Totals(t, W, h),
         NEW m \in Nat, Agree(s, t, m)
  PROVE  g[m] = h[m]
<1> DEFINE Same == {n \in Nat : n <= m => g[n] = h[n]}
<1>0. Len(s) \in Nat /\ Len(t) \in Nat
  BY LenProperties
<1>1. 0 \in Same
  BY DEF Totals
<1>2. ASSUME NEW n \in Nat, n \in Same PROVE n + 1 \in Same
  <2>1. SUFFICES ASSUME n + 1 <= m PROVE g[n + 1] = h[n + 1]
    OBVIOUS
  <2>2. n + 1 \in 1..m /\ n + 1 \in 1..Len(s) /\ n + 1 \in 1..Len(t) /\ (n + 1) - 1 = n
    BY <1>0, <2>1 DEF Agree
  <2>3. g[n + 1] = g[n] + W[s[n + 1]] /\ h[n + 1] = h[n] + W[t[n + 1]]
    BY <2>2 DEF Totals
  <2> QED
    BY <1>2, <2>1, <2>2, <2>3 DEF Agree
<1>3. m \in Same
  <2> HIDE DEF Same
  <2> QED
    BY <1>1, <1>2, SetInduction
<1> QED
  BY <1>3

LEMMA AmountOfNone ==
  ASSUME NEW D, NEW W \in [D -> Nat]
  PROVE  Amount(<<>>, W) = 0
<1>1. <<>> \in Seq(D) /\ Len(<<>>) = 0
  BY EmptySeq
<1> QED
  BY <1>1, AmountUnfolds DEF Totals

\* A member that is appended adds its weight.
LEMMA AmountWithOneMore ==
  ASSUME NEW D, NEW s \in Seq(D), NEW x \in D, NEW W \in [D -> Nat]
  PROVE  Amount(Append(s, x), W) = Amount(s, W) + W[x]
<1> DEFINE t == Append(s, x)
<1>1. /\ t \in Seq(D) /\ Len(t) = Len(s) + 1 /\ Len(s) \in Nat
      /\ t[Len(s) + 1] = x /\ \A n \in 1..Len(s) : s[n] = t[n]
  BY AppendProperties, LenProperties
<1> HIDE DEF t
<1>2. PICK g : Totals(s, W, g) /\ Amount(s, W) = g[Len(s)]
  BY AmountUnfolds
<1>3. PICK h : Totals(t, W, h) /\ Amount(t, W) = h[Len(t)]
  BY <1>1, AmountUnfolds
<1>4. g[Len(s)] = h[Len(s)]
  <2> DEFINE k == Len(s)
  <2>1. k \in Nat /\ Agree(s, t, k) /\ t \in Seq(D)
    BY <1>1 DEF Agree
  <2>2. Totals(s, W, g) /\ Totals(t, W, h)
    BY <1>2, <1>3
  <2> HIDE DEF k
  <2>3. g[k] = h[k]
    BY <2>1, <2>2, PrefixAmount
  <2> QED
    BY <2>3 DEF k
<1>5. h[Len(t)] = h[Len(s)] + W[x]
  <2>1. Len(t) \in 1..Len(t) /\ Len(t) - 1 = Len(s)
    BY <1>1
  <2> QED
    BY <1>1, <1>3, <2>1 DEF Totals
<1>6. Amount(t, W) = Amount(s, W) + W[x]
  BY <1>2, <1>3, <1>4, <1>5
<1> QED
  BY <1>6 DEF t

LEMMA AppendToBoth ==
  ASSUME NEW D, NEW s \in Seq(D), NEW q \in Seq(D), NEW x \in D
  PROVE  s \o Append(q, x) = Append(s \o q, x)
<1>1. <<x>> \in Seq(D) /\ s \o q \in Seq(D)
  BY ConcatProperties
<1> DEFINE u == <<x>>
<1>2. u \in Seq(D)
  BY <1>1
<1>3. (s \o q) \o u = s \o (q \o u)
  <2> HIDE DEF u
  <2> QED
    BY <1>2, ConcatAssociative
<1>4. Append(q, x) = q \o u /\ Append(s \o q, x) = (s \o q) \o u
  BY <1>1, AppendIsConcat
<1> QED
  BY <1>3, <1>4

\* A concatenation amounts to both together.
LEMMA AmountOfBoth ==
  ASSUME NEW D, NEW s \in Seq(D), NEW t \in Seq(D), NEW W \in [D -> Nat]
  PROVE  Amount(s \o t, W) = Amount(s, W) + Amount(t, W)
<1> DEFINE Adds == {n \in Nat : \A r \in Seq(D) :
                      Len(r) = n => Amount(s \o r, W) = Amount(s, W) + Amount(r, W)}
<1>1. 0 \in Adds
  <2>1. SUFFICES ASSUME NEW r \in Seq(D), Len(r) = 0
                 PROVE  Amount(s \o r, W) = Amount(s, W) + Amount(r, W)
    OBVIOUS
  <2>2. r = <<>> /\ s \o r = s
    BY <2>1, EmptySeq, ConcatEmptySeq
  <2>3. Amount(r, W) = 0 /\ Amount(s, W) \in Nat
    BY <2>2, AmountOfNone, AmountIsNat
  <2> QED
    BY <2>2, <2>3
<1>2. ASSUME NEW n \in Nat, n \in Adds PROVE n + 1 \in Adds
  <2>1. SUFFICES ASSUME NEW r \in Seq(D), Len(r) = n + 1
                 PROVE  Amount(s \o r, W) = Amount(s, W) + Amount(r, W)
    OBVIOUS
  <2>2. PICK q \in Seq(D), x \in D : r = Append(q, x)
    <3>1. r # <<>>
      BY <2>1, EmptySeq
    <3> QED
      BY <3>1, SequenceEmptyOrAppend
  <2>3. Len(q) = n /\ Len(q) \in Nat
    BY <2>1, <2>2, AppendProperties, LenProperties
  <2>4. s \o r = Append(s \o q, x) /\ s \o q \in Seq(D)
    BY <2>2, AppendToBoth, ConcatProperties
  <2>5. Amount(s \o q, W) = Amount(s, W) + Amount(q, W)
    BY <1>2, <2>3
  <2>6. Amount(s \o r, W) = Amount(s \o q, W) + W[x] /\ Amount(r, W) = Amount(q, W) + W[x]
    BY <2>2, <2>4, AmountWithOneMore
  <2>7. W[x] \in Nat /\ Amount(s, W) \in Nat /\ Amount(q, W) \in Nat
    BY AmountIsNat
  <2> QED
    BY <2>5, <2>6, <2>7
<1>3. Len(t) \in Adds
  <2>1. Len(t) \in Nat
    BY LenProperties
  <2> HIDE DEF Adds
  <2> QED
    BY <1>1, <1>2, <2>1, SetInduction
<1> QED
  BY <1>3

\* The first member counts for itself.
LEMMA AmountWithoutFirst ==
  ASSUME NEW D, NEW s \in Seq(D), s # <<>>, NEW W \in [D -> Nat]
  PROVE  Amount(s, W) = W[Head(s)] + Amount(Tail(s), W)
<1>1. Head(s) \in D /\ Tail(s) \in Seq(D) /\ <<Head(s)>> \in Seq(D) /\ <<>> \in Seq(D)
  BY HeadTailProperties
<1>2. s = <<Head(s)>> \o Tail(s)
  OBVIOUS
<1>3. <<Head(s)>> = Append(<<>>, Head(s))
  OBVIOUS
<1>4. Amount(<<Head(s)>>, W) = W[Head(s)]
  <2>1. Amount(<<>>, W) = 0 /\ W[Head(s)] \in Nat
    BY <1>1, AmountOfNone
  <2>2. Amount(Append(<<>>, Head(s)), W) = Amount(<<>>, W) + W[Head(s)]
    BY <1>1, AmountWithOneMore
  <2> QED
    BY <1>3, <2>1, <2>2
<1>5. Amount(<<Head(s)>> \o Tail(s), W) = Amount(<<Head(s)>>, W) + Amount(Tail(s), W)
  BY <1>1, AmountOfBoth
<1> QED
  BY <1>2, <1>4, <1>5

\* A part from the beginning amounts to no more than the whole.
LEMMA AmountOfPart ==
  ASSUME NEW D, NEW s \in Seq(D), NEW k \in 0..Len(s), NEW W \in [D -> Nat]
  PROVE  SubSeq(s, 1, k) \in Seq(D) /\ Amount(SubSeq(s, 1, k), W) <= Amount(s, W)
<1>1. Len(s) \in Nat /\ \A n \in 1..Len(s) : s[n] \in D
  BY LenProperties, ElementOfSeq
<1>2. SubSeq(s, 1, k) \in Seq(D) /\ SubSeq(s, k + 1, Len(s)) \in Seq(D)
  BY <1>1, SubSeqProperties
<1>3. SubSeq(s, 1, k) \o SubSeq(s, k + 1, Len(s)) = s
  <2>1. 1 \in 1..(Len(s) + 1) /\ k \in (1 - 1)..Len(s) /\ Len(s) \in k..Len(s)
    BY <1>1
  <2>2. SubSeq(s, 1, k) \o SubSeq(s, k + 1, Len(s)) = SubSeq(s, 1, Len(s))
    BY <2>1, ConcatAdjacentSubSeq
  <2> QED
    BY <2>2, SubSeqFull
<1>4. Amount(s, W) = Amount(SubSeq(s, 1, k), W) + Amount(SubSeq(s, k + 1, Len(s)), W)
  <2> DEFINE a == SubSeq(s, 1, k)
             b == SubSeq(s, k + 1, Len(s))
  <2>1. a \in Seq(D) /\ b \in Seq(D) /\ a \o b = s
    BY <1>2, <1>3
  <2> HIDE DEF a, b
  <2>2. Amount(a \o b, W) = Amount(a, W) + Amount(b, W)
    BY <2>1, AmountOfBoth
  <2>3. Amount(s, W) = Amount(a, W) + Amount(b, W)
    BY <2>1, <2>2
  <2> QED
    BY <2>3 DEF a, b
<1>5. Amount(SubSeq(s, 1, k), W) \in Nat /\ Amount(SubSeq(s, k + 1, Len(s)), W) \in Nat
  BY <1>2, AmountIsNat
<1> QED
  BY <1>2, <1>4, <1>5

\* A sequence is what comes before a member, the member, and what comes after.
LEMMA SplitAt ==
  ASSUME NEW D, NEW s \in Seq(D), NEW i \in 1..Len(s)
  PROVE  /\ SubSeq(s, 1, i - 1) \in Seq(D) /\ Len(SubSeq(s, 1, i - 1)) = i - 1
         /\ SubSeq(s, i + 1, Len(s)) \in Seq(D) /\ Len(SubSeq(s, i + 1, Len(s))) = Len(s) - i
         /\ s[i] \in D
         /\ s = Append(SubSeq(s, 1, i - 1), s[i]) \o SubSeq(s, i + 1, Len(s))
<1> DEFINE a == SubSeq(s, 1, i - 1)
           b == SubSeq(s, i + 1, Len(s))
<1>1. Len(s) \in Nat /\ (\A n \in 1..Len(s) : s[n] \in D) /\ s[i] \in D
  BY LenProperties, ElementOfSeq
<1>2. a \in Seq(D) /\ b \in Seq(D)
  BY <1>1, SubSeqProperties
<1>3. SubSeq(s, 1, i) = Append(a, s[i])
  BY <1>1, SubSeqRecursiveSecond, <1>2, AppendIsConcat
<1>4. SubSeq(s, 1, i) \o b = s
  BY <1>1, ConcatAdjacentSubSeq, SubSeqFull
<1>5. Len(a) = i - 1 /\ Len(b) = Len(s) - i
  BY <1>1, SubSeqProperties
<1> QED
  BY <1>1, <1>2, <1>3, <1>4, <1>5

\* One member changes.
Exchanged(s, t, W, old, new) == Amount(t, W) + W[old] = Amount(s, W) + W[new]

\* A member that is replaced takes its weight away and brings the new one.
LEMMA AmountWithOneChanged ==
  ASSUME NEW D, NEW s \in Seq(D), NEW i \in 1..Len(s), NEW x \in D, NEW W \in [D -> Nat]
  PROVE  Exchanged(s, [s EXCEPT ![i] = x], W, s[i], x)
<1> DEFINE t == [s EXCEPT ![i] = x]
           a == SubSeq(s, 1, i - 1)
           b == SubSeq(s, i + 1, Len(s))
<1>1. Len(s) \in Nat /\ (\A n \in 1..Len(s) : s[n] \in D) /\ s[i] \in D
  BY LenProperties, ElementOfSeq
<1>2. a \in Seq(D) /\ b \in Seq(D) /\ t \in Seq(D) /\ Len(t) = Len(s)
  BY <1>1, SubSeqProperties, ExceptSeq
<1>3. s = Append(a, s[i]) \o b
  BY SplitAt
<1>4. t = Append(a, x) \o b
  <2>1. Len(a) = i - 1 /\ Len(b) = Len(s) - i
    BY <1>1, SubSeqProperties
  <2>2. /\ Append(a, x) \in Seq(D) /\ Len(Append(a, x)) = i
        /\ \A j \in 1..(i - 1) : Append(a, x)[j] = a[j]
        /\ Append(a, x)[i] = x
    <3> HIDE DEF a, b, t
    <3>1. i = Len(a) + 1 /\ Len(a) = i - 1
      BY <2>1
    <3>2. /\ Append(a, x) \in Seq(D) /\ Len(Append(a, x)) = Len(a) + 1
          /\ \A j \in 1..Len(a) : Append(a, x)[j] = a[j]
          /\ Append(a, x)[Len(a) + 1] = x
      BY <1>2, AppendProperties
    <3> QED
      BY <3>1, <3>2
  <2> DEFINE r == Append(a, x) \o b
  <2>3. /\ r \in Seq(D) /\ Len(r) = Len(s)
        /\ \A j \in 1..Len(s) : r[j] = IF j <= i THEN Append(a, x)[j] ELSE b[j - i]
    <3> HIDE DEF a, b, t
    <3> DEFINE c == Append(a, x)
    <3>1. c \in Seq(D) /\ Len(c) = i
      BY <2>2
    <3> HIDE DEF c
    <3>2. /\ c \o b \in Seq(D) /\ Len(c \o b) = Len(c) + Len(b)
          /\ \A j \in 1..(Len(c) + Len(b)) : (c \o b)[j] = IF j <= Len(c) THEN c[j] ELSE b[j - Len(c)]
      BY <1>2, <3>1, ConcatProperties
    <3>3. Len(c) + Len(b) = Len(s)
      BY <1>1, <2>1, <3>1
    <3>4. /\ c \o b \in Seq(D) /\ Len(c \o b) = Len(s)
          /\ \A j \in 1..Len(s) : (c \o b)[j] = IF j <= i THEN c[j] ELSE b[j - i]
      BY <3>1, <3>2, <3>3
    <3> QED
      BY <3>4 DEF c
  <2>4. \A j \in 1..Len(s) : t[j] = IF j = i THEN x ELSE s[j]
    BY <1>1, ExceptSeq
  <2>5. (\A j \in 1..(i - 1) : a[j] = s[j]) /\ (\A j \in (i + 1)..Len(s) : b[j - i] = s[j])
    <3>1. \A j \in 1..(i - 1) : a[j] = s[1 + j - 1]
      BY <1>1, SubSeqProperties
    <3>2. \A j \in 1..(Len(s) - (i + 1) + 1) : b[j] = s[i + 1 + j - 1]
      BY <1>1, SubSeqProperties
    <3>3. ASSUME NEW j \in (i + 1)..Len(s) PROVE b[j - i] = s[j]
      <4>1. j - i \in 1..(Len(s) - (i + 1) + 1) /\ i + 1 + (j - i) - 1 = j
        BY <1>1
      <4> QED
        BY <3>2, <4>1
    <3> QED
      BY <1>1, <3>1, <3>3
  <2> HIDE DEF r, t, a, b
  <2>6. \A j \in 1..Len(s) : t[j] = r[j]
    BY <1>1, <2>2, <2>3, <2>4, <2>5
  <2>7. t = r
    BY <1>2, <2>3, <2>6, SeqEqual
  <2> QED
    BY <2>7 DEF r
<1> HIDE DEF a, b
<1>5. Append(a, s[i]) \in Seq(D) /\ Append(a, x) \in Seq(D)
  BY <1>1, <1>2, AppendProperties
<1>6. Amount(s, W) = Amount(a, W) + W[s[i]] + Amount(b, W)
  <2> DEFINE c == Append(a, s[i])
  <2>1. Amount(c, W) = Amount(a, W) + W[s[i]]
    BY <1>1, <1>2, AmountWithOneMore
  <2>2. c \in Seq(D) /\ s = c \o b
    BY <1>3, <1>5
  <2> HIDE DEF c
  <2>3. Amount(c \o b, W) = Amount(c, W) + Amount(b, W)
    BY <1>2, <2>2, AmountOfBoth
  <2>4. Amount(s, W) = Amount(c, W) + Amount(b, W)
    BY <2>2, <2>3
  <2> QED
    BY <2>1, <2>4
<1>7. Amount(t, W) = Amount(a, W) + W[x] + Amount(b, W)
  <2>1. Amount(Append(a, x) \o b, W) = Amount(Append(a, x), W) + Amount(b, W)
    BY <1>2, <1>5, AmountOfBoth
  <2>2. Amount(Append(a, x), W) = Amount(a, W) + W[x]
    BY <1>2, AmountWithOneMore
  <2> QED
    BY <1>4, <2>1, <2>2
<1>8. W[x] \in Nat /\ W[s[i]] \in Nat /\ Amount(a, W) \in Nat /\ Amount(b, W) \in Nat
  BY <1>1, <1>2, AmountIsNat
<1> HIDE DEF t
<1>9. Amount(t, W) + W[s[i]] = Amount(s, W) + W[x]
  BY <1>6, <1>7, <1>8
<1> QED
  BY <1>9 DEF t, Exchanged

-----------------------------------------------------------------------------
(* The files.  Every operation is described by what it does to the log of an *)
(* identity under any weights of lines: nothing is lost without a note, and *)
(* nothing is written twice, whatever fails.                               *)

FileStates == [open : Seq(Identities), broken : SUBSET Identities,
               size : [Identities -> Nat], buffer : [Identities -> Seq(Lines)],
               disk : [Identities -> Seq(Lines)], rotated : Seq(Rotated),
               noted : BOOLEAN, faults : Nat]

\* The files as the operations leave them.
Sound(f) ==
    /\ f \in FileStates
    /\ Len(f.open) <= MaxOpenFiles
    /\ f.broken \subseteq ToSet(f.open)
    /\ f.faults <= MaxFaults
    /\ \A u \in Identities : /\ u \notin ToSet(f.open) => f.buffer[u] = <<>>
                             /\ Len(f.buffer[u]) <= BufferLines

\* Weights of lines.
Weights == {W \in [Lines -> Nat] : W[StopLine] = 0}

\* From f to g the log of v gained n, or less with a note.
Traced(f, g, v, W, n) ==
    /\ f.noted => g.noted
    /\ InLog(g, v, W) <= InLog(f, v, W) + n
    /\ g.noted \/ InLog(g, v, W) = InLog(f, v, W) + n

Kept(f, g) == \A v \in Identities, W \in Weights : Traced(f, g, v, W, 0)

Written(f, g, u, line) ==
    \A v \in Identities, W \in Weights : Traced(f, g, v, W, IF v = u THEN W[line] ELSE 0)

Past(f, v, W) == Amount(f.rotated, [o \in Rotated |-> IF o.user = v THEN Amount(o.lines, W) ELSE 0])
Here(f, v, W) == Amount(f.disk[v], W) + Amount(f.buffer[v], W)

LEMMA StopLineType == StopLine \in Lines /\ Gap(Nil) \in Lines
  /\ (\A r \in Records : Record(r) \in Lines) /\ (\A n \in Nat : Gap(n) \in Lines)
BY DEF StopLine, Gap, Record, Lines

LEMMA RotatedFields ==
  ASSUME NEW o \in Rotated
  PROVE  o.user \in Identities /\ o.lines \in Seq(Lines)
BY DEF Rotated

LEMMA PastWeight ==
  ASSUME NEW v, NEW W \in [Lines -> Nat]
  PROVE  [o \in Rotated |-> IF o.user = v THEN Amount(o.lines, W) ELSE 0] \in [Rotated -> Nat]
<1>1. ASSUME NEW o \in Rotated PROVE (IF o.user = v THEN Amount(o.lines, W) ELSE 0) \in Nat
  <2>1. Amount(o.lines, W) \in Nat
    BY RotatedFields, AmountIsNat
  <2> QED
    BY <2>1
<1> QED
  BY <1>1

LEMMA Fields ==
  ASSUME NEW f \in FileStates
  PROVE  /\ f.open \in Seq(Identities) /\ f.broken \subseteq Identities
         /\ f.size \in [Identities -> Nat] /\ f.buffer \in [Identities -> Seq(Lines)]
         /\ f.disk \in [Identities -> Seq(Lines)] /\ f.rotated \in Seq(Rotated)
         /\ f.noted \in BOOLEAN /\ f.faults \in Nat
         /\ \A v \in Identities : f.size[v] \in Nat /\ f.buffer[v] \in Seq(Lines) /\ f.disk[v] \in Seq(Lines)
BY DEF FileStates

\* What an identity has is in rotated files or in the file and its buffer.
LEMMA PartsAreNat ==
  ASSUME NEW f \in FileStates, NEW v \in Identities, NEW W \in [Lines -> Nat]
  PROVE  /\ Past(f, v, W) \in Nat /\ Here(f, v, W) \in Nat
         /\ InLog(f, v, W) \in Nat /\ InLog(f, v, W) = Past(f, v, W) + Here(f, v, W)
<1>1. f.rotated \in Seq(Rotated) /\ f.disk[v] \in Seq(Lines) /\ f.buffer[v] \in Seq(Lines)
  BY Fields
<1>2. Past(f, v, W) \in Nat
  <2> DEFINE p == [o \in Rotated |-> IF o.user = v THEN Amount(o.lines, W) ELSE 0]
  <2>1. p \in [Rotated -> Nat]
    BY PastWeight
  <2> HIDE DEF p
  <2>2. Amount(f.rotated, p) \in Nat
    BY <1>1, <2>1, AmountIsNat
  <2> QED
    BY <2>2 DEF p, Past
<1>3. Amount(f.disk[v], W) \in Nat /\ Amount(f.buffer[v], W) \in Nat
  BY <1>1, AmountIsNat
<1>4. InLog(f, v, W) = (Past(f, v, W) + Amount(f.disk[v], W)) + Amount(f.buffer[v], W)
  BY DEF InLog, Past
<1> QED
  BY <1>2, <1>3, <1>4 DEF Here

LEMMA WeightsType ==
  ASSUME NEW W \in Weights
  PROVE  W \in [Lines -> Nat] /\ W[StopLine] = 0 /\ \A line \in Lines : W[line] \in Nat
BY StopLineType DEF Weights

\* One operation after the other.
LEMMA TracedBoth ==
  ASSUME NEW f \in FileStates, NEW g \in FileStates, NEW h \in FileStates,
         NEW v \in Identities, NEW W \in Weights, NEW n \in Nat, NEW m \in Nat,
         Traced(f, g, v, W, n), Traced(g, h, v, W, m)
  PROVE  Traced(f, h, v, W, n + m)
<1>1. InLog(f, v, W) \in Nat /\ InLog(g, v, W) \in Nat /\ InLog(h, v, W) \in Nat
  BY WeightsType, PartsAreNat
<1> QED
  BY <1>1 DEF Traced

LEMMA KeptBoth ==
  ASSUME NEW f \in FileStates, NEW g \in FileStates, NEW h \in FileStates,
         Kept(f, g), Kept(g, h)
  PROVE  Kept(f, h)
<1>1. ASSUME NEW v \in Identities, NEW W \in Weights PROVE Traced(f, h, v, W, 0)
  <2>1. Traced(f, g, v, W, 0) /\ Traced(g, h, v, W, 0)
    BY DEF Kept
  <2>2. Traced(f, h, v, W, 0 + 0)
    BY <2>1, TracedBoth
  <2> QED
    BY <2>2
<1> QED
  BY <1>1 DEF Kept

\* A line that is written after, or before, nothing is lost.
LEMMA WrittenAfter ==
  ASSUME NEW f \in FileStates, NEW g \in FileStates, NEW h \in FileStates,
         NEW u \in Identities, NEW line \in Lines, Kept(f, g), Written(g, h, u, line)
  PROVE  Written(f, h, u, line)
<1>1. ASSUME NEW v \in Identities, NEW W \in Weights
      PROVE  Traced(f, h, v, W, IF v = u THEN W[line] ELSE 0)
  <2> DEFINE n == IF v = u THEN W[line] ELSE 0
  <2>1. n \in Nat
    BY WeightsType
  <2>2. Traced(f, g, v, W, 0) /\ Traced(g, h, v, W, n)
    BY DEF Kept, Written
  <2> HIDE DEF n
  <2>3. Traced(f, h, v, W, 0 + n)
    BY <2>1, <2>2, TracedBoth
  <2>4. 0 + n = n
    BY <2>1
  <2>5. Traced(f, h, v, W, n)
    BY <2>3, <2>4
  <2> QED
    BY <2>5 DEF n
<1> QED
  BY <1>1 DEF Written

LEMMA WrittenBefore ==
  ASSUME NEW f \in FileStates, NEW g \in FileStates, NEW h \in FileStates,
         NEW u \in Identities, NEW line \in Lines, Written(f, g, u, line), Kept(g, h)
  PROVE  Written(f, h, u, line)
<1>1. ASSUME NEW v \in Identities, NEW W \in Weights
      PROVE  Traced(f, h, v, W, IF v = u THEN W[line] ELSE 0)
  <2> DEFINE n == IF v = u THEN W[line] ELSE 0
  <2>1. n \in Nat
    BY WeightsType
  <2>2. Traced(f, g, v, W, n) /\ Traced(g, h, v, W, 0)
    BY DEF Kept, Written
  <2> HIDE DEF n
  <2>3. Traced(f, h, v, W, n + 0)
    BY <2>1, <2>2, TracedBoth
  <2>4. n + 0 = n
    BY <2>1
  <2>5. Traced(f, h, v, W, n)
    BY <2>3, <2>4
  <2> QED
    BY <2>5 DEF n
<1> QED
  BY <1>1 DEF Written

\* What touches no line keeps them.
LEMMA SameLines ==
  ASSUME NEW f \in FileStates, NEW g \in FileStates, f.noted => g.noted,
         g.rotated = f.rotated, g.disk = f.disk, g.buffer = f.buffer
  PROVE  Kept(f, g)
<1>1. ASSUME NEW v \in Identities, NEW W \in Weights PROVE Traced(f, g, v, W, 0)
  <2>1. InLog(f, v, W) \in Nat
    BY WeightsType, PartsAreNat
  <2>2. InLog(g, v, W) = InLog(f, v, W)
    BY DEF InLog
  <2> QED
    BY <2>1, <2>2 DEF Traced
<1> QED
  BY <1>1 DEF Kept

\* A failed system call leaves all lines and notes a drop.
LEMMA FailedKeeps ==
  ASSUME NEW f, Sound(f), NEW g \in Failed(f)
  PROVE  /\ Sound(g) /\ g.noted /\ Kept(f, g)
         /\ g.open = f.open /\ g.broken = f.broken /\ g.size = f.size
         /\ g.buffer = f.buffer /\ g.disk = f.disk /\ g.rotated = f.rotated
<1>1. f \in FileStates /\ f.faults \in Nat /\ MaxFaults \in Nat
  BY Fields, AuditAssumption DEF Sound
<1>2. f.faults < MaxFaults /\ g = [f EXCEPT !.faults = @ + 1, !.noted = TRUE]
  BY DEF Failed
<1>3. /\ g \in FileStates /\ g.noted /\ g.faults = f.faults + 1
      /\ g.open = f.open /\ g.broken = f.broken /\ g.size = f.size
      /\ g.buffer = f.buffer /\ g.disk = f.disk /\ g.rotated = f.rotated
  <2>1. g = [open |-> f.open, broken |-> f.broken, size |-> f.size, buffer |-> f.buffer,
             disk |-> f.disk, rotated |-> f.rotated, noted |-> TRUE, faults |-> f.faults + 1]
    BY <1>1, <1>2 DEF FileStates
  <2> QED
    BY <1>1, <2>1, Fields DEF FileStates
<1>4. g.faults <= MaxFaults
  BY <1>1, <1>2, <1>3
<1>5. Kept(f, g)
  BY <1>1, <1>3, SameLines
<1> QED
  BY <1>3, <1>4, <1>5 DEF Sound

\* What Flush leaves: the buffer is empty, a part of it, or all, is on disk.
Flushed(f, g, u) ==
    /\ Sound(g) /\ Kept(f, g)
    /\ g.open = f.open /\ g.broken = f.broken /\ g.rotated = f.rotated
    /\ g.buffer = [f.buffer EXCEPT ![u] = <<>>]

\* A part of the buffer reaches the disk and the rest is lost: nothing twice.
LEMMA PutDown ==
  ASSUME NEW f, Sound(f), NEW u \in Identities, NEW s \in Seq(Lines), NEW g \in FileStates,
         g.open = f.open, g.broken = f.broken, g.rotated = f.rotated, g.faults <= MaxFaults,
         g.disk = [f.disk EXCEPT ![u] = f.disk[u] \o s], g.buffer = [f.buffer EXCEPT ![u] = <<>>],
         f.noted => g.noted, g.noted \/ s = f.buffer[u],
         \A W \in Weights : Amount(s, W) <= Amount(f.buffer[u], W)
  PROVE  Flushed(f, g, u)
<1>1. f \in FileStates /\ f.disk[u] \in Seq(Lines) /\ f.buffer[u] \in Seq(Lines)
  BY Fields DEF Sound
<1>2. ASSUME NEW v \in Identities, NEW W \in Weights PROVE Traced(f, g, v, W, 0)
  <2>0. W \in [Lines -> Nat] /\ Past(g, v, W) = Past(f, v, W)
    BY WeightsType DEF Past
  <2>1. /\ Past(f, v, W) \in Nat /\ Here(f, v, W) \in Nat /\ Here(g, v, W) \in Nat
        /\ InLog(f, v, W) = Past(f, v, W) + Here(f, v, W)
        /\ InLog(g, v, W) = Past(f, v, W) + Here(g, v, W)
    BY <1>1, <2>0, PartsAreNat
  <2>2. Here(g, v, W) <= Here(f, v, W) /\ (g.noted \/ Here(g, v, W) = Here(f, v, W))
    <3>1. CASE v = u
      <4>1. g.disk[v] = f.disk[u] \o s /\ g.buffer[v] = <<>>
        BY <1>1, <3>1, Fields
      <4>2. Amount(<<>>, W) = 0 /\ Amount(f.disk[u] \o s, W) = Amount(f.disk[u], W) + Amount(s, W)
        BY <1>1, <2>0, AmountOfNone, AmountOfBoth
      <4>3. Here(g, v, W) = Amount(f.disk[u], W) + Amount(s, W) + 0
        BY <4>1, <4>2 DEF Here
      <4>4. Here(f, v, W) = Amount(f.disk[u], W) + Amount(f.buffer[u], W)
        BY <3>1 DEF Here
      <4>5. Amount(f.disk[u], W) \in Nat /\ Amount(s, W) \in Nat /\ Amount(f.buffer[u], W) \in Nat
        BY <1>1, <2>0, AmountIsNat
      <4>6. Amount(s, W) <= Amount(f.buffer[u], W) /\ (g.noted \/ Amount(s, W) = Amount(f.buffer[u], W))
        OBVIOUS
      <4> QED
        BY <4>3, <4>4, <4>5, <4>6
    <3>2. CASE v # u
      <4>1. g.disk[v] = f.disk[v] /\ g.buffer[v] = f.buffer[v]
        BY <1>1, <3>2, Fields
      <4>2. Here(g, v, W) = Here(f, v, W)
        BY <4>1 DEF Here
      <4> QED
        BY <2>1, <4>2
    <3> QED
      BY <3>1, <3>2
  <2> QED
    BY <2>1, <2>2 DEF Traced
<1>3. ASSUME NEW v \in Identities
      PROVE  (v \notin ToSet(g.open) => g.buffer[v] = <<>>) /\ Len(g.buffer[v]) <= BufferLines
  <2>1. Len(<<>>) = 0 /\ 0 <= BufferLines
    BY AuditAssumption, EmptySeq
  <2>2. g.buffer[v] = IF v = u THEN <<>> ELSE f.buffer[v]
    BY <1>1, Fields
  <2>3. (v \notin ToSet(f.open) => f.buffer[v] = <<>>) /\ Len(f.buffer[v]) <= BufferLines
    BY DEF Sound
  <2> QED
    BY <2>1, <2>2, <2>3
<1>4. Sound(g)
  BY <1>3 DEF Sound
<1> QED
  BY <1>2, <1>4 DEF Flushed, Kept

\* flush writes the buffer, or a part of it and notes a drop; the buffer of no
\* other file changes.
LEMMA FlushKeeps ==
  ASSUME NEW f, Sound(f), NEW u \in Identities, NEW g \in Flush(f, u)
  PROVE  Flushed(f, g, u)
<1>1. /\ f \in FileStates /\ f.disk[u] \in Seq(Lines) /\ f.buffer[u] \in Seq(Lines)
      /\ f.disk \in [Identities -> Seq(Lines)] /\ f.buffer \in [Identities -> Seq(Lines)]
      /\ f.faults <= MaxFaults
  BY Fields DEF Sound
<1>2. CASE u \in f.broken /\ f.buffer[u] = <<>>
  <2>1. g = f
    BY <1>2 DEF Flush
  <2>2. g.buffer = [f.buffer EXCEPT ![u] = <<>>]
    BY <1>1, <1>2, <2>1
  <2>3. Kept(f, g)
    BY <1>1, <2>1, SameLines
  <2> QED
    BY <2>1, <2>2, <2>3 DEF Flushed
<1>3. CASE u \in f.broken /\ f.buffer[u] # <<>>
  <2>1. g = [f EXCEPT !.buffer[u] = <<>>, !.noted = TRUE]
    BY <1>3 DEF Flush
  <2>2. g = [open |-> f.open, broken |-> f.broken, size |-> f.size,
             buffer |-> [f.buffer EXCEPT ![u] = <<>>], disk |-> f.disk,
             rotated |-> f.rotated, noted |-> TRUE, faults |-> f.faults]
    BY <1>1, <2>1 DEF FileStates
  <2>3. <<>> \in Seq(Lines)
    BY EmptySeq
  <2>4. f.disk[u] \o <<>> = f.disk[u]
    BY <1>1, ConcatEmptySeq
  <2>5. f.disk = [f.disk EXCEPT ![u] = f.disk[u] \o <<>>]
    BY <1>1, <2>4
  <2>6. [f.buffer EXCEPT ![u] = <<>>] \in [Identities -> Seq(Lines)]
    BY <1>1, <2>3
  <2>7. g \in FileStates
    BY <1>1, <2>2, <2>6, Fields DEF FileStates
  <2>8. \A W \in Weights : Amount(<<>>, W) <= Amount(f.buffer[u], W)
    <3>1. ASSUME NEW W \in Weights PROVE Amount(<<>>, W) <= Amount(f.buffer[u], W)
      <4>1. Amount(<<>>, W) = 0 /\ Amount(f.buffer[u], W) \in Nat
        BY <1>1, WeightsType, AmountOfNone, AmountIsNat
      <4> QED
        BY <4>1
    <3> QED
      BY <3>1
  <2>9. /\ g.open = f.open /\ g.broken = f.broken /\ g.rotated = f.rotated /\ g.faults <= MaxFaults
        /\ g.disk = f.disk /\ g.buffer = [f.buffer EXCEPT ![u] = <<>>] /\ g.noted
    BY <1>1, <2>2
  <2> HIDE <2>1, <2>2
  <2> QED
    BY <2>3, <2>5, <2>7, <2>8, <2>9, PutDown
<1>4. ASSUME u \notin f.broken,
             g = [f EXCEPT !.disk[u] = @ \o f.buffer[u], !.buffer[u] = <<>>]
      PROVE  Flushed(f, g, u)
  <2>1. <<>> \in Seq(Lines) /\ f.disk[u] \o f.buffer[u] \in Seq(Lines)
    BY <1>1, EmptySeq, ConcatProperties
  <2>2. g = [open |-> f.open, broken |-> f.broken, size |-> f.size,
             buffer |-> [f.buffer EXCEPT ![u] = <<>>],
             disk |-> [f.disk EXCEPT ![u] = f.disk[u] \o f.buffer[u]],
             rotated |-> f.rotated, noted |-> f.noted, faults |-> f.faults]
    BY <1>1, <1>4 DEF FileStates
  <2>3. /\ [f.buffer EXCEPT ![u] = <<>>] \in [Identities -> Seq(Lines)]
        /\ [f.disk EXCEPT ![u] = f.disk[u] \o f.buffer[u]] \in [Identities -> Seq(Lines)]
    BY <1>1, <2>1
  <2>4. g \in FileStates
    BY <1>1, <2>2, <2>3, Fields DEF FileStates
  <2>5. \A W \in Weights : Amount(f.buffer[u], W) <= Amount(f.buffer[u], W)
    BY <1>1, WeightsType, AmountIsNat
  <2>6. /\ g.open = f.open /\ g.broken = f.broken /\ g.rotated = f.rotated /\ g.faults <= MaxFaults
        /\ g.disk = [f.disk EXCEPT ![u] = f.disk[u] \o f.buffer[u]]
        /\ g.buffer = [f.buffer EXCEPT ![u] = <<>>] /\ g.noted = f.noted
    BY <1>1, <2>2
  <2> QED
    BY <1>1, <2>4, <2>5, <2>6, PutDown
<1>5. ASSUME NEW k \in 0..Len(f.buffer[u]) - 1, NEW e \in Failed(f),
             g = [e EXCEPT !.disk[u] = @ \o SubSeq(f.buffer[u], 1, k), !.buffer[u] = <<>>]
      PROVE  Flushed(f, g, u)
  <2>1. /\ Sound(e) /\ e.noted /\ e \in FileStates /\ e.faults <= MaxFaults
        /\ e.open = f.open /\ e.broken = f.broken /\ e.size = f.size
        /\ e.buffer = f.buffer /\ e.disk = f.disk /\ e.rotated = f.rotated
    BY <1>5, FailedKeeps DEF Sound
  <2> DEFINE s == SubSeq(f.buffer[u], 1, k)
  <2>2. k \in 0..Len(f.buffer[u])
    BY <1>1, LenProperties
  <2>3. s \in Seq(Lines) /\ \A W \in Weights : Amount(s, W) <= Amount(f.buffer[u], W)
    BY <1>1, <2>2, WeightsType, AmountOfPart
  <2>4. g = [e EXCEPT !.disk[u] = @ \o s, !.buffer[u] = <<>>]
    BY <1>5
  <2> HIDE DEF s
  <2>5. <<>> \in Seq(Lines) /\ f.disk[u] \o s \in Seq(Lines)
    BY <1>1, <2>3, EmptySeq, ConcatProperties
  <2>6. g = [open |-> f.open, broken |-> f.broken, size |-> f.size,
             buffer |-> [f.buffer EXCEPT ![u] = <<>>],
             disk |-> [f.disk EXCEPT ![u] = f.disk[u] \o s],
             rotated |-> f.rotated, noted |-> e.noted, faults |-> e.faults]
    BY <2>1, <2>4 DEF FileStates
  <2>7. /\ [f.buffer EXCEPT ![u] = <<>>] \in [Identities -> Seq(Lines)]
        /\ [f.disk EXCEPT ![u] = f.disk[u] \o s] \in [Identities -> Seq(Lines)]
    BY <1>1, <2>5
  <2>8. g \in FileStates
    BY <1>1, <2>1, <2>6, <2>7, Fields DEF FileStates
  <2>9. /\ g.open = f.open /\ g.broken = f.broken /\ g.rotated = f.rotated /\ g.faults <= MaxFaults
        /\ g.disk = [f.disk EXCEPT ![u] = f.disk[u] \o s]
        /\ g.buffer = [f.buffer EXCEPT ![u] = <<>>] /\ g.noted
    BY <2>1, <2>6
  <2> QED
    BY <2>3, <2>8, <2>9, PutDown
<1>6. CASE u \notin f.broken
  <2>1. \/ g = [f EXCEPT !.disk[u] = @ \o f.buffer[u], !.buffer[u] = <<>>]
        \/ \E k \in 0..Len(f.buffer[u]) - 1, e \in Failed(f) :
              g = [e EXCEPT !.disk[u] = @ \o SubSeq(f.buffer[u], 1, k), !.buffer[u] = <<>>]
    <3> DEFINE all == {[f EXCEPT !.disk[u] = @ \o f.buffer[u], !.buffer[u] = <<>>]}
               part == UNION {{[e EXCEPT !.disk[u] = @ \o SubSeq(f.buffer[u], 1, k),
                                         !.buffer[u] = <<>>] : k \in 0..Len(f.buffer[u]) - 1} :
                                  e \in Failed(f)}
    <3>1. Flush(f, u) = all \cup part
      BY <1>6 DEF Flush
    <3>2. CASE g \in all
      BY <3>2
    <3>3. CASE g \in part
      <4>1. PICK e \in Failed(f) :
               g \in {[e EXCEPT !.disk[u] = @ \o SubSeq(f.buffer[u], 1, k),
                                !.buffer[u] = <<>>] : k \in 0..Len(f.buffer[u]) - 1}
        BY <3>3
      <4>2. PICK k \in 0..Len(f.buffer[u]) - 1 :
               g = [e EXCEPT !.disk[u] = @ \o SubSeq(f.buffer[u], 1, k), !.buffer[u] = <<>>]
        BY <4>1
      <4> QED
        BY <4>2
    <3> HIDE DEF all, part
    <3> QED
      BY <3>1, <3>2, <3>3
  <2> QED
    BY <1>4, <1>5, <1>6, <2>1
<1> QED
  BY <1>2, <1>3, <1>6

-----------------------------------------------------------------------------
(* Rotation, and the write of a line                                       *)

\* What touches no buffer and no list leaves: all lines, somewhere.
BuffersKept(f, g) == Sound(g) /\ Kept(f, g) /\ g.open = f.open /\ g.buffer = f.buffer

\* Only the buffer of u was touched.
Apart(f, g, u) == g.open = f.open /\ \A v \in Identities \ {u} : g.buffer[v] = f.buffer[v]

LEMMA BuffersKeptBoth ==
  ASSUME NEW f, NEW g, NEW h, Sound(f), BuffersKept(f, g), BuffersKept(g, h)
  PROVE  BuffersKept(f, h)
<1>1. f \in FileStates /\ g \in FileStates /\ h \in FileStates
  BY DEF Sound, BuffersKept
<1>2. Kept(f, h)
  BY <1>1, KeptBoth DEF BuffersKept
<1> QED
  BY <1>2 DEF BuffersKept

LEMMA FailedKeepsBuffers ==
  ASSUME NEW f, Sound(f), NEW g \in Failed(f)
  PROVE  BuffersKept(f, g)
BY FailedKeeps DEF BuffersKept

\* reopen moves no line.
LEMMA ReopenKeeps ==
  ASSUME NEW f, Sound(f), NEW u \in Identities, u \in ToSet(f.open), NEW g \in Reopen(f, u)
  PROVE  BuffersKept(f, g)
<1>1. f \in FileStates /\ f.disk[u] \in Seq(Lines) /\ f.broken \subseteq ToSet(f.open)
  BY Fields DEF Sound
<1>2. CASE g = [f EXCEPT !.broken = @ \ {u}, !.size[u] = Len(f.disk[u])]
  <2>1. g = [open |-> f.open, broken |-> f.broken \ {u},
             size |-> [f.size EXCEPT ![u] = Len(f.disk[u])], buffer |-> f.buffer,
             disk |-> f.disk, rotated |-> f.rotated, noted |-> f.noted, faults |-> f.faults]
    BY <1>1, <1>2 DEF FileStates
  <2>2. Len(f.disk[u]) \in Nat
    BY <1>1, LenProperties
  <2>3. [f.size EXCEPT ![u] = Len(f.disk[u])] \in [Identities -> Nat]
    BY <1>1, <2>2, Fields
  <2>4. g \in FileStates
    BY <1>1, <2>1, <2>3, Fields DEF FileStates
  <2>5. /\ g.open = f.open /\ g.buffer = f.buffer /\ g.disk = f.disk /\ g.rotated = f.rotated
        /\ g.noted = f.noted /\ g.faults = f.faults /\ g.broken = f.broken \ {u}
    BY <2>1
  <2>6. Kept(f, g)
    BY <1>1, <2>4, <2>5, SameLines
  <2>7. Sound(g)
    BY <1>1, <2>4, <2>5 DEF Sound
  <2> QED
    BY <2>5, <2>6, <2>7 DEF BuffersKept
<1>3. ASSUME NEW e \in Failed(f), g = [e EXCEPT !.broken = @ \cup {u}]
      PROVE  BuffersKept(f, g)
  <2>1. /\ Sound(e) /\ e \in FileStates /\ e.noted /\ Kept(f, e) /\ e.faults <= MaxFaults
        /\ e.open = f.open /\ e.broken = f.broken /\ e.size = f.size
        /\ e.buffer = f.buffer /\ e.disk = f.disk /\ e.rotated = f.rotated
    BY FailedKeeps DEF Sound
  <2>2. g = [open |-> e.open, broken |-> e.broken \cup {u}, size |-> e.size, buffer |-> e.buffer,
             disk |-> e.disk, rotated |-> e.rotated, noted |-> e.noted, faults |-> e.faults]
    BY <1>3, <2>1 DEF FileStates
  <2>3. e.broken \cup {u} \subseteq Identities /\ e.broken \cup {u} \subseteq ToSet(e.open)
    BY <1>1, <2>1, Fields
  <2>4. g \in FileStates
    BY <2>1, <2>2, <2>3, Fields DEF FileStates
  <2>5. /\ g.open = f.open /\ g.buffer = f.buffer /\ g.disk = f.disk /\ g.rotated = f.rotated
        /\ g.noted = e.noted /\ g.faults = e.faults /\ g.broken = e.broken \cup {u}
    BY <2>1, <2>2
  <2>6. Kept(f, g)
    BY <1>1, <2>1, <2>4, <2>5, SameLines
  <2>7. Sound(g)
    BY <1>1, <2>1, <2>3, <2>4, <2>5 DEF Sound
  <2> QED
    BY <2>5, <2>6, <2>7 DEF BuffersKept
<1> QED
  BY <1>2, <1>3 DEF Reopen

\* The file of u goes to the end of the rotated files.
LEMMA RenameKeeps ==
  ASSUME NEW f, Sound(f), NEW u \in Identities, NEW g,
         g = [f EXCEPT !.rotated = Append(@, [user |-> u, lines |-> f.disk[u]]), !.disk[u] = <<>>]
  PROVE  BuffersKept(f, g)
<1> DEFINE o == [user |-> u, lines |-> f.disk[u]]
<1>1. /\ f \in FileStates /\ f.disk[u] \in Seq(Lines) /\ f.rotated \in Seq(Rotated)
      /\ f.disk \in [Identities -> Seq(Lines)]
  BY Fields DEF Sound
<1>2. o \in Rotated /\ o.user = u /\ o.lines = f.disk[u]
  BY <1>1 DEF Rotated
<1>3. g = [f EXCEPT !.rotated = Append(@, o), !.disk[u] = <<>>]
  OBVIOUS
<1> HIDE DEF o
<1>4. g = [open |-> f.open, broken |-> f.broken, size |-> f.size, buffer |-> f.buffer,
           disk |-> [f.disk EXCEPT ![u] = <<>>], rotated |-> Append(f.rotated, o),
           noted |-> f.noted, faults |-> f.faults]
  BY <1>1, <1>3 DEF FileStates
<1>5. <<>> \in Seq(Lines) /\ Append(f.rotated, o) \in Seq(Rotated)
  BY <1>1, <1>2, EmptySeq, AppendProperties
<1>6. [f.disk EXCEPT ![u] = <<>>] \in [Identities -> Seq(Lines)]
  BY <1>1, <1>5
<1>7. g \in FileStates
  BY <1>1, <1>4, <1>5, <1>6, Fields DEF FileStates
<1>8. /\ g.open = f.open /\ g.buffer = f.buffer /\ g.disk = [f.disk EXCEPT ![u] = <<>>]
      /\ g.rotated = Append(f.rotated, o)
      /\ g.noted = f.noted /\ g.faults = f.faults /\ g.broken = f.broken
  <2> DEFINE d == [f.disk EXCEPT ![u] = <<>>]
             q == Append(f.rotated, o)
  <2>1. g = [open |-> f.open, broken |-> f.broken, size |-> f.size, buffer |-> f.buffer,
             disk |-> d, rotated |-> q, noted |-> f.noted, faults |-> f.faults]
    BY <1>4
  <2> HIDE DEF d, q
  <2>2. /\ g.open = f.open /\ g.buffer = f.buffer /\ g.disk = d /\ g.rotated = q
        /\ g.noted = f.noted /\ g.faults = f.faults /\ g.broken = f.broken
    BY ONLY <2>1
  <2> QED
    BY <2>2 DEF d, q
<1>9. Sound(g)
  BY <1>7, <1>8 DEF Sound
<1>10. ASSUME NEW v \in Identities, NEW W \in Weights PROVE Traced(f, g, v, W, 0)
  <2> DEFINE p == [x \in Rotated |-> IF x.user = v THEN Amount(x.lines, W) ELSE 0]
  <2>1. W \in [Lines -> Nat] /\ p \in [Rotated -> Nat]
    BY WeightsType, PastWeight
  <2>2. p[o] = IF u = v THEN Amount(f.disk[u], W) ELSE 0
    BY <1>2
  <2>3. Past(f, v, W) = Amount(f.rotated, p) /\ Past(g, v, W) = Amount(Append(f.rotated, o), p)
    BY <1>8 DEF Past
  <2> HIDE DEF p
  <2>4. Past(g, v, W) = Past(f, v, W) + p[o]
    BY <1>1, <1>2, <2>1, <2>3, AmountWithOneMore
  <2>5. g.disk[v] = (IF v = u THEN <<>> ELSE f.disk[v]) /\ g.buffer[v] = f.buffer[v]
    BY <1>1, <1>8
  <2>6. Amount(<<>>, W) = 0 /\ Amount(f.disk[v], W) \in Nat /\ Amount(f.buffer[v], W) \in Nat
    BY <1>1, <2>1, Fields, AmountOfNone, AmountIsNat
  <2>7. Here(g, v, W) = (IF v = u THEN 0 ELSE Amount(f.disk[v], W)) + Amount(f.buffer[v], W)
    BY <2>5, <2>6 DEF Here
  <2>8. Here(f, v, W) = Amount(f.disk[v], W) + Amount(f.buffer[v], W)
    BY DEF Here
  <2>9. Past(f, v, W) \in Nat /\ InLog(f, v, W) \in Nat /\ InLog(f, v, W) = Past(f, v, W) + Here(f, v, W)
    BY <1>1, <2>1, PartsAreNat
  <2>10. InLog(g, v, W) = Past(g, v, W) + Here(g, v, W)
    BY <1>7, <2>1, PartsAreNat
  <2>11. InLog(g, v, W) = InLog(f, v, W)
    <3>1. CASE v = u
      BY <2>2, <2>4, <2>6, <2>7, <2>8, <2>9, <2>10, <3>1
    <3>2. CASE v # u
      BY <2>2, <2>4, <2>6, <2>7, <2>8, <2>9, <2>10, <3>2
    <3> QED
      BY <3>1, <3>2
  <2> QED
    BY <1>8, <2>9, <2>11 DEF Traced
<1> QED
  BY <1>8, <1>9, <1>10 DEF BuffersKept, Kept

\* rotate moves the lines of the file to a rotated one, or leaves them.
LEMMA RotateKeeps ==
  ASSUME NEW f, Sound(f), NEW u \in Identities, u \in ToSet(f.open), NEW g \in Rotate(f, u)
  PROVE  BuffersKept(f, g)
<1>1. CASE u \in f.broken
  <2>1. f \in FileStates /\ g = [f EXCEPT !.noted = TRUE]
    BY <1>1 DEF Rotate, Sound
  <2>2. g = [open |-> f.open, broken |-> f.broken, size |-> f.size, buffer |-> f.buffer,
             disk |-> f.disk, rotated |-> f.rotated, noted |-> TRUE, faults |-> f.faults]
    BY <2>1 DEF FileStates
  <2>3. g \in FileStates
    BY <2>1, <2>2, Fields DEF FileStates
  <2>4. /\ g.open = f.open /\ g.buffer = f.buffer /\ g.disk = f.disk /\ g.rotated = f.rotated
        /\ g.noted /\ g.faults = f.faults /\ g.broken = f.broken
    BY <2>2
  <2>5. Kept(f, g)
    BY <2>1, <2>3, <2>4, SameLines
  <2> QED
    BY <2>3, <2>4, <2>5 DEF BuffersKept, Sound
<1>2. CASE g \in Failed(f)
  BY <1>2, FailedKeepsBuffers
<1>3. CASE u \notin f.broken /\ g \notin Failed(f)
  <2> DEFINE e == [f EXCEPT !.rotated = Append(@, [user |-> u, lines |-> f.disk[u]]), !.disk[u] = <<>>]
  <2>1. g \in Reopen(e, u)
    BY <1>3 DEF Rotate
  <2>2. BuffersKept(f, e)
    BY RenameKeeps
  <2> HIDE DEF e
  <2>3. BuffersKept(e, g)
    BY <2>1, <2>2, ReopenKeeps DEF BuffersKept
  <2> QED
    BY <2>2, <2>3, BuffersKeptBoth
<1> QED
  BY <1>1, <1>2, <1>3

LEMMA FlushedApart ==
  ASSUME NEW f, Sound(f), NEW u \in Identities, NEW g, Flushed(f, g, u)
  PROVE  Sound(g) /\ Kept(f, g) /\ Apart(f, g, u) /\ g.buffer[u] = <<>>
<1>1. f.buffer \in [Identities -> Seq(Lines)]
  BY Fields DEF Sound
<1> QED
  BY <1>1 DEF Flushed, Apart

\* A line goes to a buffer that has room for it.
LEMMA PutKeeps ==
  ASSUME NEW f, Sound(f), NEW u \in Identities, u \in ToSet(f.open), NEW line \in Lines,
         Len(f.buffer[u]) < BufferLines, NEW g,
         g = [f EXCEPT !.buffer[u] = Append(@, line), !.size[u] = @ + 1]
  PROVE  Sound(g) /\ Written(f, g, u, line) /\ Apart(f, g, u)
<1> DEFINE b == [f.buffer EXCEPT ![u] = Append(f.buffer[u], line)]
           s == [f.size EXCEPT ![u] = f.size[u] + 1]
<1>1. /\ f \in FileStates /\ f.buffer[u] \in Seq(Lines) /\ f.size[u] \in Nat
      /\ f.buffer \in [Identities -> Seq(Lines)] /\ f.size \in [Identities -> Nat]
  BY Fields DEF Sound
<1>2. g = [open |-> f.open, broken |-> f.broken, size |-> s, buffer |-> b,
           disk |-> f.disk, rotated |-> f.rotated, noted |-> f.noted, faults |-> f.faults]
  BY <1>1 DEF FileStates
<1>3. /\ Append(f.buffer[u], line) \in Seq(Lines)
      /\ Len(Append(f.buffer[u], line)) = Len(f.buffer[u]) + 1 /\ Len(f.buffer[u]) \in Nat
  BY <1>1, AppendProperties, LenProperties
<1>4. b \in [Identities -> Seq(Lines)] /\ s \in [Identities -> Nat]
  BY <1>1, <1>3
<1>5. /\ b[u] = Append(f.buffer[u], line)
      /\ \A v \in Identities \ {u} : b[v] = f.buffer[v]
  BY <1>1
<1> HIDE DEF b, s
<1>6. g \in FileStates
  BY <1>1, <1>2, <1>4, Fields DEF FileStates
<1>7. /\ g.open = f.open /\ g.buffer = b /\ g.disk = f.disk /\ g.rotated = f.rotated
      /\ g.noted = f.noted /\ g.faults = f.faults /\ g.broken = f.broken
  BY ONLY <1>2
<1>8. Sound(g)
  <2>1. ASSUME NEW v \in Identities
        PROVE  (v \notin ToSet(f.open) => b[v] = <<>>) /\ Len(b[v]) <= BufferLines
    <3>1. BufferLines \in Nat
      BY AuditAssumption
    <3>2. (v \notin ToSet(f.open) => f.buffer[v] = <<>>) /\ Len(f.buffer[v]) <= BufferLines
      BY DEF Sound
    <3>3. CASE v = u
      BY <1>3, <1>5, <3>1, <3>3
    <3>4. CASE v # u
      BY <1>5, <3>2, <3>4
    <3> QED
      BY <3>3, <3>4
  <2> QED
    BY <1>6, <1>7, <2>1 DEF Sound
<1>9. ASSUME NEW v \in Identities, NEW W \in Weights
      PROVE  Traced(f, g, v, W, IF v = u THEN W[line] ELSE 0)
  <2>1. W \in [Lines -> Nat] /\ W[line] \in Nat /\ Past(g, v, W) = Past(f, v, W)
    BY <1>7, WeightsType DEF Past
  <2>2. /\ Past(f, v, W) \in Nat /\ InLog(f, v, W) \in Nat
        /\ InLog(f, v, W) = Past(f, v, W) + Here(f, v, W)
        /\ InLog(g, v, W) = Past(f, v, W) + Here(g, v, W)
    BY <1>1, <1>6, <2>1, PartsAreNat
  <2>3. Amount(f.disk[v], W) \in Nat /\ Amount(f.buffer[v], W) \in Nat
    BY <1>1, <2>1, Fields, AmountIsNat
  <2>4. CASE v = u
    <3>1. Amount(b[u], W) = Amount(f.buffer[u], W) + W[line]
      BY <1>1, <1>5, <2>1, AmountWithOneMore
    <3>2. InLog(g, v, W) = InLog(f, v, W) + W[line]
      <4>1. Here(g, v, W) = Amount(f.disk[v], W) + (Amount(f.buffer[v], W) + W[line])
        BY <1>7, <2>4, <3>1 DEF Here
      <4>2. Here(f, v, W) = Amount(f.disk[v], W) + Amount(f.buffer[v], W)
        BY DEF Here
      <4> QED
        BY <2>1, <2>2, <2>3, <4>1, <4>2
    <3> QED
      BY <1>7, <2>1, <2>2, <2>4, <3>2 DEF Traced
  <2>5. CASE v # u
    <3>1. InLog(g, v, W) = InLog(f, v, W)
      BY <1>5, <1>7, <2>2, <2>5 DEF Here
    <3> QED
      BY <1>7, <2>2, <2>5, <3>1 DEF Traced
  <2> QED
    BY <2>4, <2>5
<1>10. Written(f, g, u, line)
  BY <1>9 DEF Written
<1> QED
  BY <1>5, <1>7, <1>8, <1>10 DEF Apart

\* write: the line is in the log, or a drop was noted.
LEMMA WriteLineWrites ==
  ASSUME NEW f, Sound(f), NEW u \in Identities, u \in ToSet(f.open), NEW line \in Lines,
         NEW k \in WriteLine(f, u, line)
  PROVE  Sound(k) /\ Written(f, k, u, line) /\ Apart(f, k, u)
<1> DEFINE fit == IF Len(f.buffer[u]) >= BufferLines THEN Flush(f, u) ELSE {f}
           put == {[g EXCEPT !.buffer[u] = Append(@, line), !.size[u] = @ + 1] : g \in fit}
<1>0. f \in FileStates /\ f.buffer[u] \in Seq(Lines) /\ BufferLines \in Nat \ {0}
  BY Fields, AuditAssumption DEF Sound
<1>1. PICK h \in put :
         k \in IF h.size[u] < FileLines THEN {h} ELSE UNION {Rotate(e, u) : e \in Flush(h, u)}
  BY DEF WriteLine
<1>2. PICK g \in fit : h = [g EXCEPT !.buffer[u] = Append(@, line), !.size[u] = @ + 1]
  OBVIOUS
<1>3. Sound(g) /\ Kept(f, g) /\ Apart(f, g, u) /\ Len(g.buffer[u]) < BufferLines
  <2>1. CASE Len(f.buffer[u]) >= BufferLines
    <3>1. g \in Flush(f, u)
      BY <2>1
    <3>2. Sound(g) /\ Kept(f, g) /\ Apart(f, g, u) /\ g.buffer[u] = <<>>
      BY <3>1, FlushKeeps, FlushedApart
    <3>3. Len(<<>>) = 0
      BY EmptySeq
    <3>4. Len(g.buffer[u]) = 0
      BY <3>2, <3>3
    <3> HIDE DEF fit, put
    <3> QED
      BY <1>0, <3>2, <3>4
  <2>2. CASE ~(Len(f.buffer[u]) >= BufferLines)
    <3>1. g = f
      BY <2>2
    <3>2. Kept(f, f)
      BY <1>0, SameLines
    <3>3. Len(f.buffer[u]) \in Nat
      BY <1>0, LenProperties
    <3>5. Apart(f, f, u)
      BY DEF Apart
    <3> HIDE DEF fit, put
    <3>4. Len(f.buffer[u]) < BufferLines
      BY <1>0, <2>2, <3>3
    <3> QED
      BY <3>1, <3>2, <3>4, <3>5
  <2> QED
    BY <2>1, <2>2
<1> HIDE DEF fit, put
<1>4. Sound(h) /\ Written(g, h, u, line) /\ Apart(g, h, u)
  <2>1. u \in ToSet(g.open)
    BY <1>3 DEF Apart
  <2> QED
    BY <1>2, <1>3, <2>1, PutKeeps
<1>5. g \in FileStates /\ h \in FileStates
  BY <1>3, <1>4 DEF Sound
<1>6. Written(f, h, u, line) /\ Apart(f, h, u)
  BY <1>0, <1>3, <1>4, <1>5, WrittenAfter DEF Apart
<1>7. CASE k = h
  BY <1>4, <1>6, <1>7
<1>8. CASE k # h
  <2>1. PICK e \in Flush(h, u) : k \in Rotate(e, u)
    BY <1>1, <1>8
  <2>2. Sound(e) /\ Kept(h, e) /\ Apart(h, e, u)
    BY <1>4, <2>1, FlushKeeps, FlushedApart
  <2>3. u \in ToSet(e.open)
    BY <1>6, <2>2 DEF Apart
  <2>4. BuffersKept(e, k)
    BY <2>1, <2>2, <2>3, RotateKeeps
  <2>5. e \in FileStates /\ k \in FileStates /\ Kept(e, k) /\ Sound(k)
    BY <2>2, <2>4 DEF Sound, BuffersKept
  <2>6. Kept(h, k)
    BY <1>5, <2>2, <2>5, KeptBoth
  <2>7. Written(f, k, u, line)
    BY <1>0, <1>5, <1>6, <2>5, <2>6, WrittenBefore
  <2> QED
    BY <1>6, <2>2, <2>4, <2>5, <2>7 DEF Apart, BuffersKept
<1> QED
  BY <1>7, <1>8

-----------------------------------------------------------------------------
(* Opening a file: the least recently used one makes room                  *)

LEMMA ToSetType ==
  ASSUME NEW D, NEW s \in Seq(D)
  PROVE  ToSet(s) = {s[i] : i \in 1..Len(s)} /\ ToSet(s) \subseteq D
<1>1. DOMAIN s = 1..Len(s) /\ \A i \in 1..Len(s) : s[i] \in D
  BY LenProperties, ElementOfSeq
<1> QED
  BY <1>1 DEF ToSet

LEMMA ToSetAppend ==
  ASSUME NEW D, NEW s \in Seq(D), NEW x \in D
  PROVE  ToSet(Append(s, x)) = ToSet(s) \cup {x}
<1> DEFINE t == Append(s, x)
<1>1. /\ t \in Seq(D) /\ Len(t) = Len(s) + 1 /\ Len(s) \in Nat
      /\ t[Len(s) + 1] = x /\ \A n \in 1..Len(s) : t[n] = s[n]
  BY AppendProperties, LenProperties
<1> HIDE DEF t
<1>2. ToSet(t) = {t[i] : i \in 1..Len(t)} /\ ToSet(s) = {s[i] : i \in 1..Len(s)}
  BY <1>1, ToSetType
<1>3. ToSet(t) = ToSet(s) \cup {x}
  <2>1. ASSUME NEW y \in ToSet(t) PROVE y \in ToSet(s) \cup {x}
    <3>1. PICK i \in 1..Len(t) : y = t[i]
      BY <1>2
    <3>2. i = Len(s) + 1 \/ i \in 1..Len(s)
      BY <1>1
    <3> QED
      BY <1>1, <1>2, <3>1, <3>2
  <2>2. ASSUME NEW y \in ToSet(s) PROVE y \in ToSet(t)
    <3>1. PICK i \in 1..Len(s) : y = s[i]
      BY <1>2
    <3>2. i \in 1..Len(t) /\ y = t[i]
      BY <1>1, <3>1
    <3> QED
      BY <1>2, <3>2
  <2>3. x \in ToSet(t)
    <3>1. Len(t) \in 1..Len(t) /\ t[Len(t)] = x
      BY <1>1
    <3> QED
      BY <1>2, <3>1
  <2> QED
    BY <2>1, <2>2, <2>3
<1> QED
  BY <1>3 DEF t

\* What a sequence has is its head and what its tail has.
LEMMA ToSetTail ==
  ASSUME NEW D, NEW s \in Seq(D), s # <<>>
  PROVE  /\ Head(s) \in D /\ Head(s) \in ToSet(s) /\ Tail(s) \in Seq(D)
         /\ Len(Tail(s)) = Len(s) - 1 /\ Len(s) \in Nat /\ Len(s) >= 1
         /\ ToSet(s) = ToSet(Tail(s)) \cup {Head(s)}
<1> DEFINE t == Tail(s)
<1>1. /\ Head(s) \in D /\ t \in Seq(D) /\ Len(t) = Len(s) - 1 /\ Len(s) \in Nat
      /\ \A i \in 1..Len(t) : t[i] = s[i + 1]
  BY HeadTailProperties, LenProperties
<1>2. Len(s) >= 1 /\ Head(s) = s[1]
  BY <1>1, EmptySeq
<1> HIDE DEF t
<1>3. ToSet(t) = {t[i] : i \in 1..Len(t)} /\ ToSet(s) = {s[i] : i \in 1..Len(s)}
  BY <1>1, ToSetType
<1>4. Head(s) \in ToSet(s)
  BY <1>1, <1>2, <1>3
<1>5. ASSUME NEW y \in ToSet(s) PROVE y \in ToSet(t) \cup {Head(s)}
  <2>1. PICK i \in 1..Len(s) : y = s[i]
    BY <1>3
  <2>2. CASE i = 1
    BY <1>2, <2>1, <2>2
  <2>3. CASE i # 1
    <3>1. i - 1 \in 1..Len(t) /\ (i - 1) + 1 = i
      BY <1>1, <2>1, <2>3
    <3>2. t[i - 1] = y
      BY <1>1, <2>1, <3>1
    <3> QED
      BY <1>3, <3>1, <3>2
  <2> QED
    BY <2>2, <2>3
<1>6. ASSUME NEW y \in ToSet(t) PROVE y \in ToSet(s)
  <2>1. PICK i \in 1..Len(t) : y = t[i]
    BY <1>3
  <2>2. i + 1 \in 1..Len(s) /\ y = s[i + 1]
    BY <1>1, <2>1
  <2> QED
    BY <1>3, <2>2
<1>7. ToSet(s) = ToSet(t) \cup {Head(s)}
  BY <1>4, <1>5, <1>6
<1> QED
  BY <1>1, <1>2, <1>4, <1>7 DEF t

LEMMA ToSetBoth ==
  ASSUME NEW D, NEW s \in Seq(D), NEW t \in Seq(D)
  PROVE  ToSet(s \o t) = ToSet(s) \cup ToSet(t)
<1> DEFINE c == s \o t
<1>1. /\ c \in Seq(D) /\ Len(c) = Len(s) + Len(t) /\ Len(s) \in Nat /\ Len(t) \in Nat
      /\ \A i \in 1..(Len(s) + Len(t)) : c[i] = IF i <= Len(s) THEN s[i] ELSE t[i - Len(s)]
  BY ConcatProperties, LenProperties
<1> HIDE DEF c
<1>2. /\ ToSet(c) = {c[i] : i \in 1..Len(c)} /\ ToSet(s) = {s[i] : i \in 1..Len(s)}
      /\ ToSet(t) = {t[i] : i \in 1..Len(t)}
  BY <1>1, ToSetType
<1>3. ASSUME NEW y \in ToSet(c) PROVE y \in ToSet(s) \cup ToSet(t)
  <2>1. PICK i \in 1..Len(c) : y = c[i]
    BY <1>2
  <2>2. CASE i <= Len(s)
    <3>1. i \in 1..Len(s) /\ y = s[i]
      BY <1>1, <2>1, <2>2
    <3> QED
      BY <1>2, <3>1
  <2>3. CASE ~(i <= Len(s))
    <3>1. i - Len(s) \in 1..Len(t) /\ y = t[i - Len(s)]
      BY <1>1, <2>1, <2>3
    <3> QED
      BY <1>2, <3>1
  <2> QED
    BY <2>2, <2>3
<1>4. ASSUME NEW y \in ToSet(s) PROVE y \in ToSet(c)
  <2>1. PICK i \in 1..Len(s) : y = s[i]
    BY <1>2
  <2>2. i \in 1..Len(c) /\ y = c[i]
    BY <1>1, <2>1
  <2> QED
    BY <1>2, <2>2
<1>5. ASSUME NEW y \in ToSet(t) PROVE y \in ToSet(c)
  <2>1. PICK i \in 1..Len(t) : y = t[i]
    BY <1>2
  <2>2. i + Len(s) \in 1..Len(c) /\ ~(i + Len(s) <= Len(s)) /\ (i + Len(s)) - Len(s) = i
    BY <1>1, <2>1
  <2>3. y = c[i + Len(s)]
    BY <1>1, <2>1, <2>2
  <2> QED
    BY <1>2, <2>2, <2>3
<1>6. ToSet(c) = ToSet(s) \cup ToSet(t)
  BY <1>3, <1>4, <1>5
<1> QED
  BY <1>6 DEF c

LEMMA MovedToEnd ==
  ASSUME NEW D, NEW s \in Seq(D), NEW i \in 1..Len(s), NEW t, t = Append(RemoveAt(s, i), s[i])
  PROVE  t \in Seq(D) /\ Len(t) = Len(s) /\ ToSet(t) = ToSet(s)
<1> DEFINE a == SubSeq(s, 1, i - 1)
           b == SubSeq(s, i + 1, Len(s))
           u == s[i]
<1>1. /\ a \in Seq(D) /\ Len(a) = i - 1 /\ b \in Seq(D) /\ Len(b) = Len(s) - i
      /\ u \in D /\ s = Append(a, u) \o b
  BY SplitAt
<1>2. t = Append(a \o b, u)
  BY DEF RemoveAt
<1>3. Len(s) \in Nat
  BY LenProperties
<1> HIDE DEF a, b, u
<1>4. Append(a, u) \in Seq(D) /\ a \o b \in Seq(D) /\ Len(a \o b) = Len(a) + Len(b)
  BY <1>1, AppendProperties, ConcatProperties
<1>5. ToSet(s) = (ToSet(a) \cup {u}) \cup ToSet(b)
  <2>1. ToSet(Append(a, u)) = ToSet(a) \cup {u}
    BY <1>1, ToSetAppend
  <2>2. ToSet(Append(a, u) \o b) = ToSet(Append(a, u)) \cup ToSet(b)
    BY <1>1, <1>4, ToSetBoth
  <2> QED
    BY <1>1, <2>1, <2>2
<1>6. ToSet(t) = (ToSet(a) \cup ToSet(b)) \cup {u}
  <2> DEFINE c == a \o b
  <2>1. ToSet(c) = ToSet(a) \cup ToSet(b)
    BY <1>1, ToSetBoth
  <2>2. c \in Seq(D) /\ t = Append(c, u)
    BY <1>2, <1>4
  <2> HIDE DEF c
  <2>3. ToSet(Append(c, u)) = ToSet(c) \cup {u}
    BY <1>1, <2>2, ToSetAppend
  <2> QED
    BY <2>1, <2>2, <2>3
<1>7. t \in Seq(D) /\ Len(t) = Len(a \o b) + 1
  <2> DEFINE c == a \o b
  <2>1. c \in Seq(D) /\ t = Append(c, u) /\ u \in D
    BY <1>1, <1>2, <1>4
  <2> HIDE DEF c
  <2>2. t \in Seq(D) /\ Len(t) = Len(c) + 1
    BY <2>1, AppendProperties
  <2> QED
    BY <2>2 DEF c
<1>8. Len(t) = Len(s)
  BY <1>1, <1>3, <1>4, <1>7
<1>9. ToSet(t) = ToSet(s)
  BY <1>5, <1>6
<1> QED
  BY <1>7, <1>8, <1>9

\* touch moves an identity to the end and drops none.
LEMMA TouchSet ==
  ASSUME NEW D, NEW s \in Seq(D), NEW u \in ToSet(s)
  PROVE  Touch(s, u) \in Seq(D) /\ Len(Touch(s, u)) = Len(s) /\ ToSet(Touch(s, u)) = ToSet(s)
<1> DEFINE i == CHOOSE i \in DOMAIN s : s[i] = u
<1>1. i \in 1..Len(s) /\ s[i] = u
  BY LenProperties DEF ToSet
<1>2. Touch(s, u) = Append(RemoveAt(s, i), s[i])
  BY <1>1 DEF Touch
<1> HIDE DEF i
<1> DEFINE t == Touch(s, u)
<1>3. t = Append(RemoveAt(s, i), s[i])
  BY <1>2
<1> HIDE DEF t
<1>4. t \in Seq(D) /\ Len(t) = Len(s) /\ ToSet(t) = ToSet(s)
  BY <1>1, <1>3, MovedToEnd
<1> QED
  BY <1>4 DEF t

\* Room for another file: the least recently used one is flushed and closed.
Evicted(f) == {[g EXCEPT !.open = Tail(@), !.broken = @ \ {Head(f.open)}] : g \in Flush(f, Head(f.open))}

\* The least recently used file is flushed before it is closed, so that what it
\* held is on disk or noted.
LEMMA EvictKeeps ==
  ASSUME NEW f, Sound(f), f.open # <<>>, NEW h \in Evicted(f)
  PROVE  Sound(h) /\ Kept(f, h) /\ Len(h.open) < MaxOpenFiles /\ ToSet(h.open) \subseteq ToSet(f.open)
<1> DEFINE u == Head(f.open)
<1>1. /\ f \in FileStates /\ f.open \in Seq(Identities) /\ Len(f.open) <= MaxOpenFiles
      /\ MaxOpenFiles \in Nat
  BY Fields, AuditAssumption DEF Sound
<1>2. /\ u \in Identities /\ Tail(f.open) \in Seq(Identities)
      /\ Len(Tail(f.open)) = Len(f.open) - 1 /\ Len(f.open) \in Nat /\ Len(f.open) >= 1
      /\ ToSet(f.open) = ToSet(Tail(f.open)) \cup {u}
  BY <1>1, ToSetTail
<1>3. PICK g \in Flush(f, u) : h = [g EXCEPT !.open = Tail(@), !.broken = @ \ {u}]
  BY DEF Evicted
<1> HIDE DEF u
<1>4. Flushed(f, g, u) /\ Sound(g) /\ g.buffer[u] = <<>> /\ Kept(f, g) /\ g.open = f.open
  <2>1. Flushed(f, g, u)
    BY <1>2, <1>3, FlushKeeps
  <2>2. Sound(g) /\ Kept(f, g) /\ g.buffer[u] = <<>>
    BY <1>2, <2>1, FlushedApart
  <2> QED
    BY <2>1, <2>2 DEF Flushed
<1>5. g \in FileStates /\ g.broken \subseteq Identities
  BY <1>4, Fields DEF Sound
<1>6. h = [open |-> Tail(f.open), broken |-> g.broken \ {u}, size |-> g.size, buffer |-> g.buffer,
           disk |-> g.disk, rotated |-> g.rotated, noted |-> g.noted, faults |-> g.faults]
  BY <1>3, <1>4, <1>5 DEF FileStates
<1>7. h \in FileStates
  BY <1>2, <1>5, <1>6, Fields DEF FileStates
<1>8. /\ h.open = Tail(f.open) /\ h.broken = g.broken \ {u} /\ h.buffer = g.buffer /\ h.disk = g.disk
      /\ h.rotated = g.rotated /\ h.noted = g.noted /\ h.faults = g.faults
  BY ONLY <1>6
<1>9. ASSUME NEW v \in Identities
      PROVE  (v \notin ToSet(h.open) => h.buffer[v] = <<>>) /\ Len(h.buffer[v]) <= BufferLines
  BY <1>2, <1>4, <1>8 DEF Sound
<1>10. Len(h.open) < MaxOpenFiles
  BY <1>1, <1>2, <1>8
<1>11. h.broken \subseteq ToSet(h.open) /\ h.faults <= MaxFaults
  BY <1>2, <1>4, <1>8 DEF Sound
<1>12. Sound(h)
  BY <1>1, <1>7, <1>9, <1>10, <1>11, <1>8, <1>2 DEF Sound
<1>13. Kept(g, h)
  BY <1>5, <1>7, <1>8, SameLines
<1>14. Kept(f, h)
  BY <1>1, <1>4, <1>5, <1>7, <1>13, KeptBoth
<1>15. ToSet(h.open) \subseteq ToSet(f.open)
  BY <1>2, <1>8
<1> QED
  BY <1>10, <1>12, <1>14, <1>15

\* Only the order, or the number, of the open files changes.
LEMMA OpenKeeps ==
  ASSUME NEW f, Sound(f), NEW g \in FileStates, Len(g.open) <= MaxOpenFiles,
         ToSet(f.open) \subseteq ToSet(g.open), g.broken = f.broken, g.buffer = f.buffer,
         g.disk = f.disk, g.rotated = f.rotated, g.noted = f.noted, g.faults = f.faults
  PROVE  Sound(g) /\ Kept(f, g)
<1>1. f \in FileStates
  BY DEF Sound
<1>2. Kept(f, g)
  BY <1>1, SameLines
<1>3. Sound(g)
  BY DEF Sound
<1> QED
  BY <1>2, <1>3

\* fileFor: the file is open, or a drop was noted.
LEMMA FileForOpens ==
  ASSUME NEW f, Sound(f), NEW u \in Identities, NEW g \in FileFor(f, u)
  PROVE  Sound(g) /\ Kept(f, g) /\ (u \in ToSet(g.open) \/ g.noted)
<1>1. /\ f \in FileStates /\ f.open \in Seq(Identities) /\ Len(f.open) <= MaxOpenFiles
      /\ MaxOpenFiles \in Nat \ {0} /\ Len(f.open) \in Nat
  BY Fields, AuditAssumption, LenProperties DEF Sound
<1>2. CASE u \in ToSet(f.open)
  <2> DEFINE o == Touch(f.open, u)
  <2>1. g = [f EXCEPT !.open = o]
    BY <1>2 DEF FileFor
  <2>2. o \in Seq(Identities) /\ Len(o) = Len(f.open) /\ ToSet(o) = ToSet(f.open)
    BY <1>1, <1>2, TouchSet
  <2> HIDE DEF o
  <2>3. g = [open |-> o, broken |-> f.broken, size |-> f.size, buffer |-> f.buffer,
             disk |-> f.disk, rotated |-> f.rotated, noted |-> f.noted, faults |-> f.faults]
    BY <1>1, <2>1 DEF FileStates
  <2>4. g \in FileStates
    BY <1>1, <2>2, <2>3, Fields DEF FileStates
  <2>5. /\ g.open = o /\ g.broken = f.broken /\ g.buffer = f.buffer /\ g.disk = f.disk
        /\ g.rotated = f.rotated /\ g.noted = f.noted /\ g.faults = f.faults
    BY ONLY <2>3
  <2>6. Len(g.open) <= MaxOpenFiles /\ ToSet(f.open) \subseteq ToSet(g.open)
    BY <1>1, <2>2, <2>5
  <2>7. Sound(g) /\ Kept(f, g)
    BY <2>4, <2>5, <2>6, OpenKeeps
  <2> QED
    BY <1>2, <2>6, <2>7
<1>3. CASE u \notin ToSet(f.open)
  <2> DEFINE room == IF Len(f.open) < MaxOpenFiles THEN {f} ELSE Evicted(f)
  <2>1. PICK h \in room : g \in {[h EXCEPT !.open = Append(@, u), !.size[u] = Len(h.disk[u])]}
                                \cup Failed(h)
    BY <1>3 DEF FileFor, Evicted
  <2>2. Sound(h) /\ Kept(f, h) /\ Len(h.open) < MaxOpenFiles
    <3>1. CASE Len(f.open) < MaxOpenFiles
      <4>1. h = f
        BY <3>1
      <4>2. Kept(f, f)
        BY <1>1, SameLines
      <4> QED
        BY <3>1, <4>1, <4>2
    <3>2. CASE ~(Len(f.open) < MaxOpenFiles)
      <4>1. h \in Evicted(f)
        BY <3>2
      <4>2. Len(<<>>) = 0
        BY EmptySeq
      <4> HIDE DEF room
      <4>3. Len(f.open) # 0
        BY <1>1, <3>2
      <4>4. f.open # <<>>
        BY <4>2, <4>3
      <4> QED
        BY <4>1, <4>4, EvictKeeps
    <3> QED
      BY <3>1, <3>2
  <2> HIDE DEF room
  <2>3. h \in FileStates /\ h.open \in Seq(Identities) /\ h.disk[u] \in Seq(Lines)
    BY <2>2, Fields DEF Sound
  <2>4. CASE g \in Failed(h)
    <3>1. Sound(g) /\ g.noted /\ Kept(h, g) /\ g \in FileStates
      BY <2>2, <2>4, FailedKeeps DEF Sound
    <3>2. Kept(f, g)
      BY <1>1, <2>2, <2>3, <3>1, KeptBoth
    <3> QED
      BY <3>1, <3>2
  <2>5. CASE g \notin Failed(h)
    <3> DEFINE o == Append(h.open, u)
               s == [h.size EXCEPT ![u] = Len(h.disk[u])]
    <3>1. g = [h EXCEPT !.open = Append(@, u), !.size[u] = Len(h.disk[u])]
      BY <2>1, <2>5
    <3>2. g = [open |-> o, broken |-> h.broken, size |-> s, buffer |-> h.buffer,
               disk |-> h.disk, rotated |-> h.rotated, noted |-> h.noted, faults |-> h.faults]
      BY <2>3, <3>1 DEF FileStates
    <3>3. o \in Seq(Identities) /\ Len(o) = Len(h.open) + 1 /\ ToSet(o) = ToSet(h.open) \cup {u}
      BY <2>3, AppendProperties, ToSetAppend
    <3>4. Len(h.disk[u]) \in Nat /\ Len(h.open) \in Nat
      BY <2>3, LenProperties
    <3>5. s \in [Identities -> Nat]
      BY <2>3, <3>4, Fields
    <3> HIDE DEF o, s
    <3>6. g \in FileStates
      BY <2>3, <3>2, <3>3, <3>5, Fields DEF FileStates
    <3>7. /\ g.open = o /\ g.broken = h.broken /\ g.buffer = h.buffer /\ g.disk = h.disk
          /\ g.rotated = h.rotated /\ g.noted = h.noted /\ g.faults = h.faults
      BY ONLY <3>2
    <3>8. Len(g.open) <= MaxOpenFiles /\ ToSet(h.open) \subseteq ToSet(g.open) /\ u \in ToSet(g.open)
      BY <1>1, <2>2, <3>3, <3>4, <3>7
    <3>9. Sound(g) /\ Kept(h, g)
      BY <2>2, <3>6, <3>7, <3>8, OpenKeeps
    <3>10. Kept(f, g)
      BY <1>1, <2>2, <2>3, <3>6, <3>9, KeptBoth
    <3> QED
      BY <3>8, <3>9, <3>10
  <2> QED
    BY <2>4, <2>5
<1> QED
  BY <1>2, <1>3

\* A line for a user is in the log, or a drop was noted.
LEMMA LineForWrites ==
  ASSUME NEW f, Sound(f), NEW u \in Identities, NEW line \in Lines, NEW h \in LineFor(f, u, line)
  PROVE  Sound(h) /\ Written(f, h, u, line)
<1>1. PICK g \in FileFor(f, u) : h \in IF u \in ToSet(g.open) THEN WriteLine(g, u, line) ELSE {g}
  BY DEF LineFor
<1>2. Sound(g) /\ Kept(f, g) /\ (u \in ToSet(g.open) \/ g.noted)
  BY <1>1, FileForOpens
<1>3. f \in FileStates /\ g \in FileStates
  BY <1>2 DEF Sound
<1>4. CASE u \in ToSet(g.open)
  <2>1. h \in WriteLine(g, u, line)
    BY <1>1, <1>4
  <2>2. Sound(h) /\ Written(g, h, u, line)
    BY <1>2, <1>4, <2>1, WriteLineWrites
  <2>3. h \in FileStates
    BY <2>2 DEF Sound
  <2> QED
    BY <1>2, <1>3, <2>2, <2>3, WrittenAfter
<1>5. CASE u \notin ToSet(g.open)
  <2>1. h = g /\ g.noted
    BY <1>1, <1>2, <1>5
  <2>2. ASSUME NEW v \in Identities, NEW W \in Weights
        PROVE  Traced(f, g, v, W, IF v = u THEN W[line] ELSE 0)
    <3>1. Traced(f, g, v, W, 0)
      BY <1>2 DEF Kept
    <3>2. W[line] \in Nat /\ InLog(f, v, W) \in Nat /\ InLog(g, v, W) \in Nat
      BY <1>3, WeightsType, PartsAreNat
    <3> QED
      BY <2>1, <3>1, <3>2 DEF Traced
  <2> QED
    BY <1>2, <2>1, <2>2 DEF Written
<1> QED
  BY <1>4, <1>5

-----------------------------------------------------------------------------
(* One step after the other for some identities: a set of pairs of a number *)
(* of steps and a state that every step carries on holds at the end.       *)

\* A sequence of all members of S, each once.
Enumerates(order, S) ==
    /\ order \in Seq(S)
    /\ \A y \in S : \E i \in 1..Len(order) : order[i] = y
    /\ \A i, j \in 1..Len(order) : order[i] = order[j] => i = j

LEMMA InjectionEnumerates ==
  ASSUME NEW S, IsFiniteSet(S), NEW order \in [1..Cardinality(S) -> S],
         \A i, j \in 1..Cardinality(S) : order[i] = order[j] => i = j
  PROVE  Enumerates(order, S)
<1> DEFINE c == Cardinality(S)
<1>1. c \in Nat
  BY FS_CardinalityType
<1>2. order \in Injection(1..c, S)
  BY DEF Injection, IsInjective
<1>3. Cardinality(1..c) = c
  <2> HIDE DEF c
  <2>1. c \in Int /\ 1 \in Int
    BY <1>1
  <2>2. Cardinality(1..c) = IF 1 > c THEN 0 ELSE c - 1 + 1
    BY <2>1, FS_Interval
  <2> QED
    BY <1>1, <2>2
<1>4. order \in Surjection(1..c, S)
  <2>1. Cardinality(1..c) = Cardinality(S)
    BY <1>3
  <2> HIDE DEF c
  <2> QED
    BY <1>2, <2>1, FS_Injection
<1>5. \A y \in S : \E i \in 1..c : order[i] = y
  BY <1>4 DEF Surjection
<1>6. order \in Seq(S) /\ Len(order) = c
  <2>1. order \in [1..c -> S]
    OBVIOUS
  <2> HIDE DEF c
  <2>2. order \in Seq(S)
    BY <1>1, <2>1, IsASeq
  <2>3. DOMAIN order = 1..c
    BY <2>1
  <2> QED
    BY <1>1, <2>2, <2>3, LenProperties
<1> QED
  BY <1>5, <1>6 DEF Enumerates

LEMMA UserOrderEnumerates == Enumerates(UserOrder, Identities)
<1> DEFINE c == Cardinality(Identities)
<1>1. ExistsBijection(1..c, Identities)
  BY AuditAssumption, FS_CardinalityType
<1>2. \E f \in [1..c -> Identities] : IsInjective(f)
  BY <1>1 DEF ExistsBijection, Bijection, Injection
<1>3. UserOrder \in [1..c -> Identities] /\ IsInjective(UserOrder)
  BY <1>2 DEF UserOrder, SetToSeq
<1>4. \A i, j \in 1..c : UserOrder[i] = UserOrder[j] => i = j
  BY <1>3 DEF IsInjective
<1> QED
  BY <1>3, <1>4, AuditAssumption, InjectionEnumerates

\* Every order of the open files has each of them.
LEMMA OpenOrderEnumerates ==
  ASSUME NEW D, NEW s \in Seq(D), NEW order \in SetToSeqs(ToSet(s))
  PROVE  Enumerates(order, ToSet(s))
<1> DEFINE S == ToSet(s)
<1>1. IsFiniteSet(S)
  <2>1. Len(s) \in Nat /\ DOMAIN s = 1..Len(s)
    BY LenProperties
  <2>2. IsFiniteSet(1..Len(s))
    BY <2>1, FS_Interval
  <2>3. s \in Surjection(1..Len(s), S)
    <3>1. s \in [1..Len(s) -> S]
      BY <2>1, ToSetType DEF ToSet
    <3> QED
      BY <3>1, ToSetType DEF Surjection
  <2> HIDE DEF S
  <2> QED
    BY <2>2, <2>3, FS_Surjection
<1>2. order \in [1..Cardinality(S) -> S]
      /\ \A i, j \in 1..Cardinality(S) : order[i] = order[j] => i = j
  BY DEF SetToSeqs
<1> HIDE DEF S
<1>3. Enumerates(order, S)
  BY <1>1, <1>2, InjectionEnumerates
<1> QED
  BY <1>3 DEF S

\* A chain of L steps, each from one member of F to any of a set.
Runs(F, f, L, st, after) ==
    /\ after[0] = {f}
    /\ \A n \in 1..L : after[n - 1] \subseteq F =>
          after[n] = UNION {st[n][g] : g \in after[n - 1]}

\* I holds of the chain: it is a set of pairs <<number of steps, member of F>>.
Carries(F, L, st, I) ==
    /\ I \subseteq Nat \X F
    /\ \A n \in 1..L, g \in F : <<n - 1, g>> \in I => \A h \in st[n][g] : <<n, h>> \in I

\* What comes out at the end went through a state at every step.
LEMMA ChainRuns ==
  ASSUME NEW F, NEW f \in F, NEW L \in Nat, NEW st \in [1..L -> [F -> SUBSET F]]
  PROVE  \E after \in [0..L -> SUBSET F] : Runs(F, f, L, st, after)
<1> DEFINE base == {f}
           step == [n \in 1..L |-> [A \in SUBSET F |-> UNION {st[n][g] : g \in A}]]
           P == SUBSET F
<1>1. base \in P
  OBVIOUS
<1>2. step \in [1..L -> [P -> P]]
  OBVIOUS
<1>3. Recursion(P, L, base, step)
  <2> HIDE DEF base, step, P
  <2> QED
    BY <1>1, <1>2, RecursionExists
<1>4. PICK after \in [0..L -> P] : after[0] = base /\ \A n \in 1..L : after[n] = step[n][after[n - 1]]
  BY <1>3 DEF Recursion
<1>5. ASSUME NEW n \in 1..L PROVE after[n] = UNION {st[n][g] : g \in after[n - 1]}
  <2>1. n - 1 \in 0..L
    OBVIOUS
  <2>2. after[n - 1] \in P
    BY <2>1
  <2> QED
    BY <1>4, <2>2
<1> QED
  BY <1>4, <1>5 DEF Runs

\* A relation that every step carries on holds at the end.
LEMMA ChainCarries ==
  ASSUME NEW F, NEW f \in F, NEW L \in Nat, NEW st, NEW after, NEW I,
         Runs(F, f, L, st, after), Carries(F, L, st, I), <<0, f>> \in I
  PROVE  \A h \in after[L] : h \in F /\ <<L, h>> \in I
<1> DEFINE Good == {n \in Nat : n <= L => \A h \in after[n] : h \in F /\ <<n, h>> \in I}
<1>1. 0 \in Good
  BY DEF Runs
<1>2. ASSUME NEW n \in Nat, n \in Good PROVE n + 1 \in Good
  <2>1. SUFFICES ASSUME n + 1 <= L, NEW h \in after[n + 1] PROVE h \in F /\ <<n + 1, h>> \in I
    OBVIOUS
  <2>2. n + 1 \in 1..L /\ (n + 1) - 1 = n /\ n <= L
    BY <2>1
  <2>3. \A g \in after[n] : g \in F /\ <<n, g>> \in I
    BY <1>2, <2>2
  <2>4. after[n + 1] = UNION {st[n + 1][g] : g \in after[n]}
    BY <2>2, <2>3 DEF Runs
  <2>5. PICK g \in after[n] : h \in st[n + 1][g]
    BY <2>4
  <2>6. <<n + 1, h>> \in I
    BY <2>2, <2>3, <2>5 DEF Carries
  <2> QED
    BY <2>6 DEF Carries
<1>3. L \in Good
  <2> HIDE DEF Good
  <2> QED
    BY <1>1, <1>2, SetInduction
<1> QED
  BY <1>3

-----------------------------------------------------------------------------
(* Flushing, checking and stopping all open files                          *)

OpenAs(f) == {g \in FileStates : Sound(g) /\ g.open = f.open}

FlushSteps(f, order) == [n \in 1..Len(order) |-> [g \in OpenAs(f) |-> Flush(g, order[n])]]

LEMMA FlushChain ==
  ASSUME NEW f, Sound(f), NEW order, Enumerates(order, ToSet(f.open)),
         NEW I, Carries(OpenAs(f), Len(order), FlushSteps(f, order), I), <<0, f>> \in I,
         NEW h \in Each(f, Flush, order)
  PROVE  h \in OpenAs(f) /\ <<Len(order), h>> \in I
<1> DEFINE F == OpenAs(f)
           L == Len(order)
           st == FlushSteps(f, order)
           chosen == CHOOSE after : after = [n \in 0..Len(order) |-> IF n = 0 THEN {f}
                        ELSE UNION {Flush(g, order[n]) : g \in after[n - 1]}]
<1>1. f \in F /\ L \in Nat /\ \A n \in 1..L : order[n] \in ToSet(f.open) /\ order[n] \in Identities
  <2>1. order \in Seq(ToSet(f.open)) /\ f.open \in Seq(Identities)
    BY Fields DEF Enumerates, Sound
  <2>2. ToSet(f.open) \subseteq Identities /\ L \in Nat /\ \A n \in 1..L : order[n] \in ToSet(f.open)
    BY <2>1, ToSetType, LenProperties, ElementOfSeq
  <2> QED
    BY <2>2 DEF OpenAs, Sound
<1>2. st \in [1..L -> [F -> SUBSET F]]
  <2>1. ASSUME NEW n \in 1..L, NEW g \in F, NEW k \in Flush(g, order[n]) PROVE k \in F
    <3>1. Sound(g) /\ g.open = f.open
      BY DEF OpenAs
    <3>2. Flushed(g, k, order[n])
      BY <1>1, <3>1, FlushKeeps
    <3> QED
      BY <3>1, <3>2 DEF Flushed, OpenAs, Sound
  <2> QED
    BY <2>1 DEF FlushSteps
<1>3. \A n \in 1..L, g \in F : st[n][g] = Flush(g, order[n])
  BY DEF FlushSteps
<1>4. PICK after \in [0..L -> SUBSET F] : Runs(F, f, L, st, after)
  <2> HIDE DEF F, L, st
  <2> QED
    BY <1>1, <1>2, ChainRuns
<1> HIDE DEF st, F
<1>5. after = [n \in 0..L |-> IF n = 0 THEN {f} ELSE UNION {Flush(g, order[n]) : g \in after[n - 1]}]
  <2>1. ASSUME NEW n \in 0..L, n # 0
        PROVE  after[n] = UNION {Flush(g, order[n]) : g \in after[n - 1]}
    <3>1. n \in 1..L /\ n - 1 \in 0..L
      BY <1>1, <2>1
    <3>2. after[n - 1] \subseteq F
      BY <3>1
    <3>3. after[n] = UNION {st[n][g] : g \in after[n - 1]}
      BY <1>4, <3>1, <3>2 DEF Runs
    <3>4. {st[n][g] : g \in after[n - 1]} = {Flush(g, order[n]) : g \in after[n - 1]}
      BY <1>3, <3>1, <3>2
    <3> QED
      BY <3>3, <3>4
  <2>2. after[0] = {f}
    BY <1>4 DEF Runs
  <2> QED
    BY <2>1, <2>2
<1>6. chosen = [n \in 0..L |-> IF n = 0 THEN {f} ELSE UNION {Flush(g, order[n]) : g \in chosen[n - 1]}]
  BY <1>5
<1>7. h \in chosen[L]
  BY DEF Each
<1> HIDE DEF chosen
<1>8. Runs(F, f, L, st, chosen)
  <2>1. chosen[0] = {f}
    BY <1>1, <1>6
  <2>2. ASSUME NEW n \in 1..L, chosen[n - 1] \subseteq F
        PROVE  chosen[n] = UNION {st[n][g] : g \in chosen[n - 1]}
    <3>1. n \in 0..L /\ n # 0
      BY <1>1
    <3>2. chosen[n] = UNION {Flush(g, order[n]) : g \in chosen[n - 1]}
      BY <1>6, <3>1
    <3>3. {st[n][g] : g \in chosen[n - 1]} = {Flush(g, order[n]) : g \in chosen[n - 1]}
      BY <1>3, <2>2
    <3> QED
      BY <3>2, <3>3
  <2> QED
    BY <2>1, <2>2 DEF Runs
<1>9. Carries(F, L, st, I)
  BY DEF F, st
<1> HIDE DEF L
<1>10. h \in F /\ <<L, h>> \in I
  BY <1>1, <1>7, <1>8, <1>9, ChainCarries
<1> QED
  BY <1>10 DEF F, L

CheckSteps(f, order) == [n \in 1..Len(order) |-> [g \in OpenAs(f) |-> Check(g, order[n])]]

LEMMA CheckChain ==
  ASSUME NEW f, Sound(f), NEW order, Enumerates(order, ToSet(f.open)),
         NEW I, Carries(OpenAs(f), Len(order), CheckSteps(f, order), I), <<0, f>> \in I,
         NEW h \in Each(f, Check, order)
  PROVE  h \in OpenAs(f) /\ <<Len(order), h>> \in I
<1> DEFINE F == OpenAs(f)
           L == Len(order)
           st == CheckSteps(f, order)
           chosen == CHOOSE after : after = [n \in 0..Len(order) |-> IF n = 0 THEN {f}
                        ELSE UNION {Check(g, order[n]) : g \in after[n - 1]}]
<1>1. f \in F /\ L \in Nat /\ \A n \in 1..L : order[n] \in ToSet(f.open) /\ order[n] \in Identities
  <2>1. order \in Seq(ToSet(f.open)) /\ f.open \in Seq(Identities)
    BY Fields DEF Enumerates, Sound
  <2>2. ToSet(f.open) \subseteq Identities /\ L \in Nat /\ \A n \in 1..L : order[n] \in ToSet(f.open)
    BY <2>1, ToSetType, LenProperties, ElementOfSeq
  <2> QED
    BY <2>2 DEF OpenAs, Sound
<1>2. st \in [1..L -> [F -> SUBSET F]]
  <2>1. ASSUME NEW n \in 1..L, NEW g \in F, NEW k \in Check(g, order[n]) PROVE k \in F
    <3>1. Sound(g) /\ g.open = f.open
      BY DEF OpenAs
    <3>2. order[n] \in ToSet(g.open) /\ g \in FileStates
      BY <1>1, <3>1 DEF Sound
    <3>3. k = g \/ BuffersKept(g, k)
      BY <1>1, <3>1, <3>2, ReopenKeeps DEF Check
    <3> QED
      BY <3>1, <3>2, <3>3 DEF BuffersKept, OpenAs, Sound
  <2> QED
    BY <2>1 DEF CheckSteps
<1>3. \A n \in 1..L, g \in F : st[n][g] = Check(g, order[n])
  BY DEF CheckSteps
<1>4. PICK after \in [0..L -> SUBSET F] : Runs(F, f, L, st, after)
  <2> HIDE DEF F, L, st
  <2> QED
    BY <1>1, <1>2, ChainRuns
<1> HIDE DEF st, F
<1>5. after = [n \in 0..L |-> IF n = 0 THEN {f} ELSE UNION {Check(g, order[n]) : g \in after[n - 1]}]
  <2>1. ASSUME NEW n \in 0..L, n # 0
        PROVE  after[n] = UNION {Check(g, order[n]) : g \in after[n - 1]}
    <3>1. n \in 1..L /\ n - 1 \in 0..L
      BY <1>1, <2>1
    <3>2. after[n - 1] \subseteq F
      BY <3>1
    <3>3. after[n] = UNION {st[n][g] : g \in after[n - 1]}
      BY <1>4, <3>1, <3>2 DEF Runs
    <3>4. {st[n][g] : g \in after[n - 1]} = {Check(g, order[n]) : g \in after[n - 1]}
      BY <1>3, <3>1, <3>2
    <3> QED
      BY <3>3, <3>4
  <2>2. after[0] = {f}
    BY <1>4 DEF Runs
  <2> QED
    BY <2>1, <2>2
<1>6. chosen = [n \in 0..L |-> IF n = 0 THEN {f} ELSE UNION {Check(g, order[n]) : g \in chosen[n - 1]}]
  BY <1>5
<1>7. h \in chosen[L]
  BY DEF Each
<1> HIDE DEF chosen
<1>8. Runs(F, f, L, st, chosen)
  <2>1. chosen[0] = {f}
    BY <1>1, <1>6
  <2>2. ASSUME NEW n \in 1..L, chosen[n - 1] \subseteq F
        PROVE  chosen[n] = UNION {st[n][g] : g \in chosen[n - 1]}
    <3>1. n \in 0..L /\ n # 0
      BY <1>1
    <3>2. chosen[n] = UNION {Check(g, order[n]) : g \in chosen[n - 1]}
      BY <1>6, <3>1
    <3>3. {st[n][g] : g \in chosen[n - 1]} = {Check(g, order[n]) : g \in chosen[n - 1]}
      BY <1>3, <2>2
    <3> QED
      BY <3>2, <3>3
  <2> QED
    BY <2>1, <2>2 DEF Runs
<1>9. Carries(F, L, st, I)
  BY DEF F, st
<1> HIDE DEF L
<1>10. h \in F /\ <<L, h>> \in I
  BY <1>1, <1>7, <1>8, <1>9, ChainCarries
<1> QED
  BY <1>10 DEF F, L

\* The stop line weighs nothing; the buffer is empty at last.
LEMMA StopFileStops ==
  ASSUME NEW f, Sound(f), NEW u \in Identities, u \in ToSet(f.open), NEW h \in StopFile(f, u)
  PROVE  Sound(h) /\ Kept(f, h) /\ Apart(f, h, u) /\ h.buffer[u] = <<>>
<1>1. PICK g \in WriteLine(f, u, StopLine) : h \in Flush(g, u)
  BY DEF StopFile
<1>2. Sound(g) /\ Written(f, g, u, StopLine) /\ Apart(f, g, u)
  BY <1>1, StopLineType, WriteLineWrites
<1>3. Flushed(g, h, u)
  BY <1>1, <1>2, FlushKeeps
<1>4. Sound(h) /\ Kept(g, h) /\ Apart(g, h, u) /\ h.buffer[u] = <<>>
  BY <1>2, <1>3, FlushedApart
<1>5. f \in FileStates /\ g \in FileStates /\ h \in FileStates
  BY <1>2, <1>4 DEF Sound
<1>6. Kept(f, g)
  <2>1. ASSUME NEW v \in Identities, NEW W \in Weights PROVE Traced(f, g, v, W, 0)
    <3>1. Traced(f, g, v, W, IF v = u THEN W[StopLine] ELSE 0)
      BY <1>2 DEF Written
    <3>2. W[StopLine] = 0
      BY WeightsType
    <3> QED
      BY <3>1, <3>2
  <2> QED
    BY <2>1 DEF Kept
<1>7. Kept(f, h)
  BY <1>4, <1>5, <1>6, KeptBoth
<1>8. Apart(f, h, u)
  BY <1>2, <1>4 DEF Apart
<1> QED
  BY <1>4, <1>7, <1>8

StopSteps(f, order) == [n \in 1..Len(order) |-> [g \in OpenAs(f) |-> StopFile(g, order[n])]]

LEMMA StopChain ==
  ASSUME NEW f, Sound(f), NEW order, Enumerates(order, ToSet(f.open)),
         NEW I, Carries(OpenAs(f), Len(order), StopSteps(f, order), I), <<0, f>> \in I,
         NEW h \in Each(f, StopFile, order)
  PROVE  h \in OpenAs(f) /\ <<Len(order), h>> \in I
<1> DEFINE F == OpenAs(f)
           L == Len(order)
           st == StopSteps(f, order)
           chosen == CHOOSE after : after = [n \in 0..Len(order) |-> IF n = 0 THEN {f}
                        ELSE UNION {StopFile(g, order[n]) : g \in after[n - 1]}]
<1>1. f \in F /\ L \in Nat /\ \A n \in 1..L : order[n] \in ToSet(f.open) /\ order[n] \in Identities
  <2>1. order \in Seq(ToSet(f.open)) /\ f.open \in Seq(Identities)
    BY Fields DEF Enumerates, Sound
  <2>2. ToSet(f.open) \subseteq Identities /\ L \in Nat /\ \A n \in 1..L : order[n] \in ToSet(f.open)
    BY <2>1, ToSetType, LenProperties, ElementOfSeq
  <2> QED
    BY <2>2 DEF OpenAs, Sound
<1>2. st \in [1..L -> [F -> SUBSET F]]
  <2>1. ASSUME NEW n \in 1..L, NEW g \in F, NEW k \in StopFile(g, order[n]) PROVE k \in F
    <3>1. Sound(g) /\ g.open = f.open
      BY DEF OpenAs
    <3>2. order[n] \in ToSet(g.open)
      BY <1>1, <3>1
    <3>3. Sound(k) /\ Apart(g, k, order[n])
      BY <1>1, <3>1, <3>2, StopFileStops
    <3> QED
      BY <3>1, <3>3 DEF Apart, OpenAs, Sound
  <2> QED
    BY <2>1 DEF StopSteps
<1>3. \A n \in 1..L, g \in F : st[n][g] = StopFile(g, order[n])
  BY DEF StopSteps
<1>4. PICK after \in [0..L -> SUBSET F] : Runs(F, f, L, st, after)
  <2> HIDE DEF F, L, st
  <2> QED
    BY <1>1, <1>2, ChainRuns
<1> HIDE DEF st, F
<1>5. after = [n \in 0..L |-> IF n = 0 THEN {f} ELSE UNION {StopFile(g, order[n]) : g \in after[n - 1]}]
  <2>1. ASSUME NEW n \in 0..L, n # 0
        PROVE  after[n] = UNION {StopFile(g, order[n]) : g \in after[n - 1]}
    <3>1. n \in 1..L /\ n - 1 \in 0..L
      BY <1>1, <2>1
    <3>2. after[n - 1] \subseteq F
      BY <3>1
    <3>3. after[n] = UNION {st[n][g] : g \in after[n - 1]}
      BY <1>4, <3>1, <3>2 DEF Runs
    <3>4. {st[n][g] : g \in after[n - 1]} = {StopFile(g, order[n]) : g \in after[n - 1]}
      BY <1>3, <3>1, <3>2
    <3> QED
      BY <3>3, <3>4
  <2>2. after[0] = {f}
    BY <1>4 DEF Runs
  <2> QED
    BY <2>1, <2>2
<1>6. chosen = [n \in 0..L |-> IF n = 0 THEN {f} ELSE UNION {StopFile(g, order[n]) : g \in chosen[n - 1]}]
  BY <1>5
<1>7. h \in chosen[L]
  BY DEF Each
<1> HIDE DEF chosen
<1>8. Runs(F, f, L, st, chosen)
  <2>1. chosen[0] = {f}
    BY <1>1, <1>6
  <2>2. ASSUME NEW n \in 1..L, chosen[n - 1] \subseteq F
        PROVE  chosen[n] = UNION {st[n][g] : g \in chosen[n - 1]}
    <3>1. n \in 0..L /\ n # 0
      BY <1>1
    <3>2. chosen[n] = UNION {StopFile(g, order[n]) : g \in chosen[n - 1]}
      BY <1>6, <3>1
    <3>3. {st[n][g] : g \in chosen[n - 1]} = {StopFile(g, order[n]) : g \in chosen[n - 1]}
      BY <1>3, <2>2
    <3> QED
      BY <3>2, <3>3
  <2> QED
    BY <2>1, <2>2 DEF Runs
<1>9. Carries(F, L, st, I)
  BY DEF F, st
<1> HIDE DEF L
<1>10. h \in F /\ <<L, h>> \in I
  BY <1>1, <1>7, <1>8, <1>9, ChainCarries
<1> QED
  BY <1>10 DEF F, L

-----------------------------------------------------------------------------
(* The gap lines of a writer's counts                                      *)

SoundFiles == {g \in FileStates : Sound(g)}

\* What a gap line of n records weighs; there is none for none.
GapWeight(n, W) == IF n = 0 THEN 0 ELSE W[Gap(n)]

LEMMA GapWeightIsNat ==
  ASSUME NEW n \in Nat, NEW W \in Weights
  PROVE  GapWeight(n, W) \in Nat
BY WeightsType, StopLineType DEF GapWeight

\* A gap line for n records, or none for none, is written or a drop is noted.
LEMMA WriteGapWrites ==
  ASSUME NEW f, Sound(f), NEW u \in Identities, NEW n \in Nat, NEW h \in WriteGap(f, u, n)
  PROVE  Sound(h) /\ \A v \in Identities, W \in Weights :
                        Traced(f, h, v, W, IF v = u THEN GapWeight(n, W) ELSE 0)
<1>1. CASE n = 0
  <2>1. h = f /\ f \in FileStates
    BY <1>1 DEF WriteGap, Sound
  <2>2. Kept(f, f)
    BY <2>1, SameLines
  <2>3. ASSUME NEW v \in Identities, NEW W \in Weights
        PROVE  Traced(f, h, v, W, IF v = u THEN GapWeight(n, W) ELSE 0)
    <3>1. Traced(f, h, v, W, 0)
      BY <2>1, <2>2 DEF Kept
    <3>2. (IF v = u THEN GapWeight(n, W) ELSE 0) = 0
      BY <1>1 DEF GapWeight
    <3> QED
      BY <3>1, <3>2
  <2> QED
    BY <2>1, <2>3
<1>2. CASE n # 0
  <2>1. h \in LineFor(f, u, Gap(n)) /\ Gap(n) \in Lines
    BY <1>2, StopLineType DEF WriteGap
  <2>2. Sound(h) /\ Written(f, h, u, Gap(n))
    BY <2>1, LineForWrites
  <2>3. ASSUME NEW v \in Identities, NEW W \in Weights
        PROVE  Traced(f, h, v, W, IF v = u THEN GapWeight(n, W) ELSE 0)
    <3>1. Traced(f, h, v, W, IF v = u THEN W[Gap(n)] ELSE 0)
      BY <2>2 DEF Written
    <3>2. GapWeight(n, W) = W[Gap(n)]
      BY <1>2 DEF GapWeight
    <3> QED
      BY <3>1, <3>2
  <2> QED
    BY <2>2, <2>3
<1> QED
  BY <1>1, <1>2

GapSteps(pending) ==
    [n \in 1..Len(UserOrder) |-> [g \in SoundFiles |-> WriteGap(g, UserOrder[n], pending[UserOrder[n]])]]

LEMMA GapChain ==
  ASSUME NEW f, Sound(f), NEW pending \in [Identities -> Nat],
         NEW I, Carries(SoundFiles, Len(UserOrder), GapSteps(pending), I), <<0, f>> \in I,
         NEW h \in WriteGaps(f, pending)
  PROVE  h \in SoundFiles /\ <<Len(UserOrder), h>> \in I
<1> DEFINE F == SoundFiles
           L == Len(UserOrder)
           st == GapSteps(pending)
           chosen == CHOOSE after : after = [n \in 0..Len(UserOrder) |-> IF n = 0 THEN {f}
                        ELSE UNION {WriteGap(g, UserOrder[n], pending[UserOrder[n]]) : g \in after[n - 1]}]
<1>1. f \in F /\ L \in Nat /\ \A n \in 1..L : UserOrder[n] \in Identities
  <2>1. UserOrder \in Seq(Identities)
    BY UserOrderEnumerates DEF Enumerates
  <2>2. L \in Nat /\ \A n \in 1..L : UserOrder[n] \in Identities
    BY <2>1, LenProperties, ElementOfSeq
  <2> QED
    BY <2>2 DEF SoundFiles, Sound
<1>2. st \in [1..L -> [F -> SUBSET F]]
  <2>1. ASSUME NEW n \in 1..L, NEW g \in F, NEW k \in WriteGap(g, UserOrder[n], pending[UserOrder[n]]) PROVE k \in F
    <3>1. Sound(g) /\ UserOrder[n] \in Identities /\ pending[UserOrder[n]] \in Nat
      BY <1>1 DEF SoundFiles
    <3>2. Sound(k)
      BY <3>1, WriteGapWrites
    <3> QED
      BY <3>2 DEF SoundFiles, Sound
  <2> QED
    BY <2>1 DEF GapSteps
<1>3. \A n \in 1..L, g \in F : st[n][g] = WriteGap(g, UserOrder[n], pending[UserOrder[n]])
  BY DEF GapSteps
<1>4. PICK after \in [0..L -> SUBSET F] : Runs(F, f, L, st, after)
  <2> HIDE DEF F, L, st
  <2> QED
    BY <1>1, <1>2, ChainRuns
<1> HIDE DEF st, F
<1>5. after = [n \in 0..L |-> IF n = 0 THEN {f} ELSE UNION {WriteGap(g, UserOrder[n], pending[UserOrder[n]]) : g \in after[n - 1]}]
  <2>1. ASSUME NEW n \in 0..L, n # 0
        PROVE  after[n] = UNION {WriteGap(g, UserOrder[n], pending[UserOrder[n]]) : g \in after[n - 1]}
    <3>1. n \in 1..L /\ n - 1 \in 0..L
      BY <1>1, <2>1
    <3>2. after[n - 1] \subseteq F
      BY <3>1
    <3>3. after[n] = UNION {st[n][g] : g \in after[n - 1]}
      BY <1>4, <3>1, <3>2 DEF Runs
    <3>4. {st[n][g] : g \in after[n - 1]} = {WriteGap(g, UserOrder[n], pending[UserOrder[n]]) : g \in after[n - 1]}
      BY <1>3, <3>1, <3>2
    <3> QED
      BY <3>3, <3>4
  <2>2. after[0] = {f}
    BY <1>4 DEF Runs
  <2> QED
    BY <2>1, <2>2
<1>6. chosen = [n \in 0..L |-> IF n = 0 THEN {f} ELSE UNION {WriteGap(g, UserOrder[n], pending[UserOrder[n]]) : g \in chosen[n - 1]}]
  BY <1>5
<1>7. h \in chosen[L]
  BY DEF WriteGaps, Each
<1> HIDE DEF chosen
<1>8. Runs(F, f, L, st, chosen)
  <2>1. chosen[0] = {f}
    BY <1>1, <1>6
  <2>2. ASSUME NEW n \in 1..L, chosen[n - 1] \subseteq F
        PROVE  chosen[n] = UNION {st[n][g] : g \in chosen[n - 1]}
    <3>1. n \in 0..L /\ n # 0
      BY <1>1
    <3>2. chosen[n] = UNION {WriteGap(g, UserOrder[n], pending[UserOrder[n]]) : g \in chosen[n - 1]}
      BY <1>6, <3>1
    <3>3. {st[n][g] : g \in chosen[n - 1]} = {WriteGap(g, UserOrder[n], pending[UserOrder[n]]) : g \in chosen[n - 1]}
      BY <1>3, <2>2
    <3> QED
      BY <3>2, <3>3
  <2> QED
    BY <2>1, <2>2 DEF Runs
<1>9. Carries(F, L, st, I)
  BY DEF F, st
<1> HIDE DEF L
<1>10. h \in F /\ <<L, h>> \in I
  BY <1>1, <1>7, <1>8, <1>9, ChainCarries
<1> QED
  BY <1>10 DEF F, L

-----------------------------------------------------------------------------
(* All files, all identities: the chains are run to their ends             *)

LEMMA KeptSelf ==
  ASSUME NEW f, Sound(f)
  PROVE  f \in FileStates /\ Kept(f, f) /\ f \in OpenAs(f)
<1>1. f \in FileStates
  BY DEF Sound
<1> QED
  BY <1>1, SameLines DEF OpenAs

LEMMA EnumeratesType ==
  ASSUME NEW f, Sound(f), NEW order, Enumerates(order, ToSet(f.open))
  PROVE  Len(order) \in Nat /\ \A n \in 1..Len(order) : order[n] \in ToSet(f.open) /\ order[n] \in Identities
<1>1. order \in Seq(ToSet(f.open)) /\ f.open \in Seq(Identities)
  BY Fields DEF Enumerates, Sound
<1>2. ToSet(f.open) \subseteq Identities /\ Len(order) \in Nat
      /\ \A n \in 1..Len(order) : order[n] \in ToSet(f.open)
  BY <1>1, ToSetType, LenProperties, ElementOfSeq
<1> QED
  BY <1>2

\* flushAll loses no line without a note,
LEMMA FlushAllKeeps ==
  ASSUME NEW f, Sound(f), NEW h \in FlushAll(f)
  PROVE  Sound(h) /\ Kept(f, h)
<1>1. PICK order \in SetToSeqs(ToSet(f.open)) : h \in Each(f, Flush, order)
  BY DEF FlushAll, EachOpen
<1>2. Enumerates(order, ToSet(f.open))
  BY <1>1, OpenOrderEnumerates, Fields DEF Sound
<1> DEFINE I == {p \in Nat \X OpenAs(f) : Kept(f, p[2])}
<1>3. <<0, f>> \in I
  BY KeptSelf
<1>4. Carries(OpenAs(f), Len(order), FlushSteps(f, order), I)
  <2>1. ASSUME NEW n \in 1..Len(order), NEW g \in OpenAs(f), <<n - 1, g>> \in I,
               NEW k \in FlushSteps(f, order)[n][g]
        PROVE  <<n, k>> \in I
    <3>1. k \in Flush(g, order[n]) /\ n \in Nat
      BY <2>1, <1>2, EnumeratesType DEF FlushSteps
    <3>2. Sound(g) /\ g.open = f.open /\ Kept(f, g)
      BY <2>1 DEF OpenAs
    <3>3. Flushed(g, k, order[n])
      BY <1>2, <3>1, <3>2, FlushKeeps, EnumeratesType
    <3>4. Sound(k) /\ Kept(g, k) /\ k.open = f.open
      BY <3>2, <3>3 DEF Flushed
    <3>5. f \in FileStates /\ g \in FileStates /\ k \in FileStates
      BY <3>2, <3>4 DEF Sound
    <3>6. Kept(f, k)
      BY <3>2, <3>4, <3>5, KeptBoth
    <3> QED
      BY <3>1, <3>4, <3>5, <3>6 DEF OpenAs
  <2> QED
    BY <2>1 DEF Carries
<1>5. h \in OpenAs(f) /\ <<Len(order), h>> \in I
  <2> HIDE DEF I
  <2> QED
    BY <1>1, <1>2, <1>3, <1>4, FlushChain
<1> QED
  BY <1>5 DEF OpenAs

\* nor does checkRotationAll,
LEMMA ReopenBrokenKeeps ==
  ASSUME NEW f, Sound(f), NEW h \in ReopenBroken(f)
  PROVE  Sound(h) /\ Kept(f, h)
<1>1. PICK order \in SetToSeqs(ToSet(f.open)) : h \in Each(f, Check, order)
  BY DEF ReopenBroken, EachOpen
<1>2. Enumerates(order, ToSet(f.open))
  BY <1>1, OpenOrderEnumerates, Fields DEF Sound
<1> DEFINE I == {p \in Nat \X OpenAs(f) : Kept(f, p[2])}
<1>3. <<0, f>> \in I
  BY KeptSelf
<1>4. Carries(OpenAs(f), Len(order), CheckSteps(f, order), I)
  <2>1. ASSUME NEW n \in 1..Len(order), NEW g \in OpenAs(f), <<n - 1, g>> \in I,
               NEW k \in CheckSteps(f, order)[n][g]
        PROVE  <<n, k>> \in I
    <3>1. k \in Check(g, order[n]) /\ n \in Nat
      BY <2>1, <1>2, EnumeratesType DEF CheckSteps
    <3>2. Sound(g) /\ g.open = f.open /\ Kept(f, g)
      BY <2>1 DEF OpenAs
    <3>3. Sound(k) /\ Kept(g, k) /\ k.open = f.open
      <4>1. order[n] \in ToSet(g.open) /\ order[n] \in Identities
        BY <1>2, <3>2, EnumeratesType
      <4>2. k = g \/ BuffersKept(g, k)
        BY <3>1, <3>2, <4>1, ReopenKeeps DEF Check
      <4> QED
        BY <3>2, <4>2, KeptSelf DEF BuffersKept
    <3>4. f \in FileStates /\ g \in FileStates /\ k \in FileStates
      BY <3>2, <3>3 DEF Sound
    <3>5. Kept(f, k)
      BY <3>2, <3>3, <3>4, KeptBoth
    <3> QED
      BY <3>1, <3>3, <3>4, <3>5 DEF OpenAs
  <2> QED
    BY <2>1 DEF Carries
<1>5. h \in OpenAs(f) /\ <<Len(order), h>> \in I
  <2> HIDE DEF I
  <2> QED
    BY <1>1, <1>2, <1>3, <1>4, CheckChain
<1> QED
  BY <1>5 DEF OpenAs

\* nor the end of Close, which leaves no buffer.
LEMMA StopAllKeeps ==
  ASSUME NEW f, Sound(f), NEW h \in StopAll(f)
  PROVE  Sound(h) /\ Kept(f, h) /\ \A v \in Identities : h.buffer[v] = <<>>
<1>1. PICK e \in EachOpen(f, StopFile) : h = [e EXCEPT !.open = <<>>, !.broken = {}]
  BY DEF StopAll
<1>2. PICK order \in SetToSeqs(ToSet(f.open)) : e \in Each(f, StopFile, order)
  BY <1>1 DEF EachOpen
<1>3. Enumerates(order, ToSet(f.open))
  BY <1>2, OpenOrderEnumerates, Fields DEF Sound
<1> DEFINE I == {p \in Nat \X OpenAs(f) :
                   Kept(f, p[2]) /\ \A i \in 1..p[1] : p[2].buffer[order[i]] = <<>>}
<1>4. <<0, f>> \in I
  BY KeptSelf
<1>5. Carries(OpenAs(f), Len(order), StopSteps(f, order), I)
  <2>1. ASSUME NEW n \in 1..Len(order), NEW g \in OpenAs(f), <<n - 1, g>> \in I,
               NEW k \in StopSteps(f, order)[n][g]
        PROVE  <<n, k>> \in I
    <3>1. k \in StopFile(g, order[n]) /\ n \in Nat
      BY <2>1, <1>3, EnumeratesType DEF StopSteps
    <3>2. /\ Sound(g) /\ g.open = f.open /\ Kept(f, g)
          /\ \A i \in 1..(n - 1) : g.buffer[order[i]] = <<>>
      BY <2>1 DEF OpenAs
    <3>3. order[n] \in ToSet(g.open) /\ order[n] \in Identities
      BY <1>3, <3>2, EnumeratesType
    <3>4. Sound(k) /\ Kept(g, k) /\ Apart(g, k, order[n]) /\ k.buffer[order[n]] = <<>>
      BY <3>1, <3>2, <3>3, StopFileStops
    <3>5. f \in FileStates /\ g \in FileStates /\ k \in FileStates
      BY <3>2, <3>4 DEF Sound
    <3>6. Kept(f, k)
      BY <3>2, <3>4, <3>5, KeptBoth
    <3>7. ASSUME NEW i \in 1..n PROVE k.buffer[order[i]] = <<>>
      <4>1. CASE order[i] = order[n]
        BY <3>4, <4>1
      <4>2. CASE order[i] # order[n]
        <5>1. i \in 1..(n - 1) /\ i \in 1..Len(order)
          BY <3>1, <4>2, <1>3, EnumeratesType
        <5>2. order[i] \in Identities
          BY <1>3, <5>1, EnumeratesType
        <5>3. k.buffer[order[i]] = g.buffer[order[i]]
          BY <3>4, <4>2, <5>2 DEF Apart
        <5> QED
          BY <3>2, <5>1, <5>3
      <4> QED
        BY <4>1, <4>2
    <3>8. k \in OpenAs(f)
      BY <3>2, <3>4, <3>5 DEF OpenAs, Apart
    <3> QED
      BY <3>1, <3>6, <3>7, <3>8
  <2> QED
    BY <2>1 DEF Carries
<1>6. e \in OpenAs(f) /\ <<Len(order), e>> \in I
  <2> HIDE DEF I
  <2> QED
    BY <1>2, <1>3, <1>4, <1>5, StopChain
<1>7. /\ Sound(e) /\ e \in FileStates /\ e.open = f.open /\ Kept(f, e)
      /\ \A i \in 1..Len(order) : e.buffer[order[i]] = <<>>
  BY <1>6 DEF OpenAs
<1>8. \A v \in Identities : e.buffer[v] = <<>>
  <2>1. ASSUME NEW v \in Identities, v \in ToSet(f.open) PROVE e.buffer[v] = <<>>
    <3>1. PICK i \in 1..Len(order) : order[i] = v
      BY <1>3, <2>1 DEF Enumerates
    <3> QED
      BY <1>7, <3>1
  <2>2. ASSUME NEW v \in Identities, v \notin ToSet(f.open) PROVE e.buffer[v] = <<>>
    BY <1>7, <2>2 DEF Sound
  <2> QED
    BY <2>1, <2>2
<1>9. h = [open |-> <<>>, broken |-> {}, size |-> e.size, buffer |-> e.buffer,
           disk |-> e.disk, rotated |-> e.rotated, noted |-> e.noted, faults |-> e.faults]
  BY <1>1, <1>7 DEF FileStates
<1>10. <<>> \in Seq(Identities) /\ Len(<<>>) = 0 /\ MaxOpenFiles \in Nat
  BY EmptySeq, AuditAssumption
<1>11. h \in FileStates
  BY <1>7, <1>9, <1>10, Fields DEF FileStates
<1>12. /\ h.open = <<>> /\ h.broken = {} /\ h.buffer = e.buffer /\ h.disk = e.disk
       /\ h.rotated = e.rotated /\ h.noted = e.noted /\ h.faults = e.faults
  BY ONLY <1>9
<1>13. Sound(h)
  <2>1. Len(h.open) <= MaxOpenFiles
    BY <1>10, <1>12
  <2> QED
    BY <1>7, <1>8, <1>11, <1>12, <2>1 DEF Sound
<1>14. Kept(e, h)
  BY <1>7, <1>11, <1>12, SameLines
<1>15. f \in FileStates /\ Kept(f, h)
  BY <1>7, <1>11, <1>14, KeptBoth DEF Sound
<1> QED
  BY <1>8, <1>12, <1>13, <1>15

\* flushGaps: each identity's gap line once.
LEMMA WriteGapsWrites ==
  ASSUME NEW f, Sound(f), NEW pending \in [Identities -> Nat], NEW h \in WriteGaps(f, pending)
  PROVE  Sound(h) /\ \A v \in Identities, W \in Weights : Traced(f, h, v, W, GapWeight(pending[v], W))
<1> DEFINE so(n, v, W) == IF \E i \in 1..n : UserOrder[i] = v THEN GapWeight(pending[v], W) ELSE 0
           I == {p \in Nat \X SoundFiles :
                   \A v \in Identities, W \in Weights : Traced(f, p[2], v, W, so(p[1], v, W))}
           L == Len(UserOrder)
<1>1. /\ L \in Nat /\ (\A n \in 1..L : UserOrder[n] \in Identities)
      /\ (\A v \in Identities : \E i \in 1..L : UserOrder[i] = v)
      /\ (\A i, j \in 1..L : UserOrder[i] = UserOrder[j] => i = j)
  <2>1. UserOrder \in Seq(Identities)
    BY UserOrderEnumerates DEF Enumerates
  <2> QED
    BY <2>1, UserOrderEnumerates, LenProperties, ElementOfSeq DEF Enumerates
<1>2. \A v \in Identities, W \in Weights : GapWeight(pending[v], W) \in Nat
  BY GapWeightIsNat
<1>3. <<0, f>> \in I
  <2>1. f \in SoundFiles /\ Kept(f, f)
    BY KeptSelf DEF SoundFiles
  <2>2. \A v \in Identities, W \in Weights : so(0, v, W) = 0
    OBVIOUS
  <2> HIDE DEF so
  <2> QED
    BY <2>1, <2>2 DEF Kept
<1>4. Carries(SoundFiles, L, GapSteps(pending), I)
  <2>1. ASSUME NEW n \in 1..L, NEW g \in SoundFiles, <<n - 1, g>> \in I,
               NEW k \in GapSteps(pending)[n][g]
        PROVE  <<n, k>> \in I
    <3> DEFINE u == UserOrder[n]
    <3>1. k \in WriteGap(g, u, pending[u]) /\ n \in Nat /\ u \in Identities
      BY <1>1, <2>1 DEF GapSteps
    <3>2. Sound(g) /\ \A v \in Identities, W \in Weights : Traced(f, g, v, W, so(n - 1, v, W))
      BY <2>1 DEF SoundFiles
    <3>3. Sound(k) /\ \A v \in Identities, W \in Weights :
                        Traced(g, k, v, W, IF v = u THEN GapWeight(pending[u], W) ELSE 0)
      BY <3>1, <3>2, WriteGapWrites
    <3>4. f \in FileStates /\ g \in FileStates /\ k \in FileStates
      BY <3>2, <3>3 DEF Sound
    <3>5. ASSUME NEW v \in Identities, NEW W \in Weights PROVE Traced(f, k, v, W, so(n, v, W))
      <4> DEFINE a == so(n - 1, v, W)
                 b == IF v = u THEN GapWeight(pending[u], W) ELSE 0
      <4>1. Traced(f, g, v, W, a) /\ Traced(g, k, v, W, b)
        BY <3>2, <3>3
      <4>2. a \in Nat /\ b \in Nat
        BY <1>2, <3>1
      <4>3. so(n, v, W) = a + b
        <5>1. CASE v = u
          <6>1. ~ \E i \in 1..(n - 1) : UserOrder[i] = v
            BY <1>1, <5>1
          <6>2. n \in 1..n
            BY <3>1
          <6>3. a = 0 /\ b = GapWeight(pending[v], W) /\ so(n, v, W) = GapWeight(pending[v], W)
            BY <5>1, <6>1, <6>2
          <6> QED
            BY <4>2, <6>3
        <5>2. CASE v # u
          <6>1. (\E i \in 1..n : UserOrder[i] = v) <=> (\E i \in 1..(n - 1) : UserOrder[i] = v)
            <7>1. \A i \in 1..n : i = n \/ i \in 1..(n - 1)
              BY <3>1
            <7>2. \A i \in 1..(n - 1) : i \in 1..n
              BY <3>1
            <7> QED
              BY <5>2, <7>1, <7>2
          <6>2. so(n, v, W) = a /\ b = 0
            BY <5>2, <6>1
          <6> HIDE DEF a, b, so
          <6> QED
            BY <4>2, <6>2
        <5> QED
          BY <5>1, <5>2
      <4> HIDE DEF a, b, so, u
      <4>4. Traced(f, k, v, W, a + b)
        BY <3>4, <4>1, <4>2, TracedBoth
      <4> QED
        BY <4>3, <4>4
    <3>6. k \in SoundFiles
      BY <3>3, <3>4 DEF SoundFiles
    <3> HIDE DEF so, u
    <3> QED
      BY <3>1, <3>5, <3>6
  <2> HIDE DEF L
  <2>2. I \subseteq Nat \X SoundFiles
    OBVIOUS
  <2> HIDE DEF I
  <2> QED
    BY <2>1, <2>2 DEF Carries
<1>5. h \in SoundFiles /\ <<L, h>> \in I
  <2> HIDE DEF I
  <2> QED
    BY <1>3, <1>4, GapChain
<1>6. \A v \in Identities, W \in Weights : so(L, v, W) = GapWeight(pending[v], W)
  BY <1>1
<1>7. \A v \in Identities, W \in Weights : Traced(f, h, v, W, so(L, v, W))
  <2> HIDE DEF so
  <2> QED
    BY <1>5
<1>8. Sound(h)
  BY <1>5 DEF SoundFiles
<1> HIDE DEF so
<1> QED
  BY <1>6, <1>7, <1>8

-----------------------------------------------------------------------------
(* The total cap, the tick and the end of a writer                         *)

\* A cap that finds no rotated file, or cannot remove it, notes a drop.
LEMMA GiveUpKeeps ==
  ASSUME NEW f, Sound(f), NEW h \in CapGivesUp(f)
  PROVE  Sound(h) /\ Kept(f, h)
<1>1. CASE f.rotated = <<>>
  <2>1. f \in FileStates /\ h = [f EXCEPT !.noted = TRUE]
    BY <1>1 DEF CapGivesUp, Sound
  <2>2. h = [open |-> f.open, broken |-> f.broken, size |-> f.size, buffer |-> f.buffer,
             disk |-> f.disk, rotated |-> f.rotated, noted |-> TRUE, faults |-> f.faults]
    BY <2>1 DEF FileStates
  <2>3. h \in FileStates
    BY <2>1, <2>2, Fields DEF FileStates
  <2>4. /\ h.open = f.open /\ h.buffer = f.buffer /\ h.disk = f.disk /\ h.rotated = f.rotated
        /\ h.noted /\ h.faults = f.faults /\ h.broken = f.broken
    BY ONLY <2>2
  <2>5. Kept(f, h)
    BY <2>1, <2>3, <2>4, SameLines
  <2> QED
    BY <2>3, <2>4, <2>5 DEF Sound
<1>2. CASE f.rotated # <<>>
  BY <1>2, FailedKeeps DEF CapGivesUp
<1> QED
  BY <1>1, <1>2

\* The oldest rotated file goes: its user keeps at least the open gap.
Removed(f, h, u) ==
    /\ f.noted => h.noted
    /\ \A v \in Identities \ {u}, W \in Weights : Traced(f, h, v, W, 0)
    /\ \A W \in Weights : /\ InLog(h, u, W) <= InLog(f, u, W) + W[Gap(Nil)]
                          /\ h.noted \/ InLog(h, u, W) >= W[Gap(Nil)]

\* The file that the cap removes leaves an open gap of its identity, or a note.
LEMMA RemoveOldestTraces ==
  ASSUME NEW f, Sound(f), NEW h \in RemoveOldest(f)
  PROVE  Sound(h) /\ \E u \in Identities : Removed(f, h, u)
<1> DEFINE o == Head(f.rotated)
           e == [f EXCEPT !.rotated = Tail(@)]
           line == Gap(Nil)
<1>1. f \in FileStates /\ f.rotated \in Seq(Rotated) /\ f.rotated # <<>>
  BY Fields DEF Sound, RemoveOldest
<1>2. o \in Rotated /\ Tail(f.rotated) \in Seq(Rotated)
  BY <1>1, HeadTailProperties
<1>3. o.user \in Identities /\ o.lines \in Seq(Lines)
  BY <1>2, RotatedFields
<1>4. h \in LineFor(e, o.user, line) /\ line \in Lines
  BY <1>1, StopLineType DEF RemoveOldest
<1>5. e = [open |-> f.open, broken |-> f.broken, size |-> f.size, buffer |-> f.buffer,
           disk |-> f.disk, rotated |-> Tail(f.rotated), noted |-> f.noted, faults |-> f.faults]
  <2> DEFINE q == Tail(f.rotated)
  <2>1. e = [f EXCEPT !.rotated = q]
    OBVIOUS
  <2> HIDE DEF o, line, e, q
  <2>2. e = [open |-> f.open, broken |-> f.broken, size |-> f.size, buffer |-> f.buffer,
             disk |-> f.disk, rotated |-> q, noted |-> f.noted, faults |-> f.faults]
    BY <1>1, <2>1 DEF FileStates
  <2> QED
    BY <2>2 DEF q
<1> HIDE DEF e, line
<1>6. e \in FileStates
  BY <1>1, <1>2, <1>5, Fields DEF FileStates
<1>7. /\ e.open = f.open /\ e.buffer = f.buffer /\ e.disk = f.disk /\ e.rotated = Tail(f.rotated)
      /\ e.noted = f.noted /\ e.faults = f.faults /\ e.broken = f.broken
  BY ONLY <1>5
<1>8. Sound(e)
  BY <1>6, <1>7 DEF Sound
<1>9. Sound(h) /\ Written(e, h, o.user, line)
  BY <1>3, <1>4, <1>8, LineForWrites
<1>10. h \in FileStates
  BY <1>9 DEF Sound
<1>11. ASSUME NEW v \in Identities, NEW W \in Weights
       PROVE  /\ InLog(e, v, W) \in Nat /\ InLog(f, v, W) \in Nat /\ InLog(h, v, W) \in Nat
              /\ W[line] \in Nat
              /\ InLog(f, v, W) = InLog(e, v, W) + (IF o.user = v THEN Amount(o.lines, W) ELSE 0)
              /\ Amount(o.lines, W) \in Nat
  <2> DEFINE p == [x \in Rotated |-> IF x.user = v THEN Amount(x.lines, W) ELSE 0]
  <2>1. W \in [Lines -> Nat] /\ p \in [Rotated -> Nat] /\ W[line] \in Nat
    BY <1>4, WeightsType, PastWeight
  <2>2. p[o] = IF o.user = v THEN Amount(o.lines, W) ELSE 0
    BY <1>2
  <2>3. Past(f, v, W) = Amount(f.rotated, p) /\ Past(e, v, W) = Amount(Tail(f.rotated), p)
    BY <1>7 DEF Past
  <2>4. p[o] \in Nat
    BY <1>2, <2>1
  <2> HIDE DEF p
  <2>5. Past(f, v, W) = p[o] + Past(e, v, W)
    BY <1>1, <2>1, <2>3, AmountWithoutFirst
  <2>6. Here(e, v, W) = Here(f, v, W)
    BY <1>7 DEF Here
  <2>7. /\ InLog(f, v, W) \in Nat /\ InLog(f, v, W) = Past(f, v, W) + Here(f, v, W)
        /\ Past(e, v, W) \in Nat /\ Here(e, v, W) \in Nat
        /\ InLog(e, v, W) \in Nat /\ InLog(e, v, W) = Past(e, v, W) + Here(e, v, W)
        /\ InLog(h, v, W) \in Nat
    BY <1>1, <1>6, <1>10, <2>1, PartsAreNat
  <2>8. InLog(f, v, W) = InLog(e, v, W) + p[o]
    BY <2>4, <2>5, <2>6, <2>7
  <2>9. Amount(o.lines, W) \in Nat
    BY <1>3, <2>1, AmountIsNat
  <2> QED
    BY <2>1, <2>2, <2>7, <2>8, <2>9
<1>12. f.noted => h.noted
  <2>1. Weights # {}
    <3>1. [x \in Lines |-> 0] \in Weights
      BY StopLineType DEF Weights
    <3> QED
      BY <3>1
  <2>2. PICK W : W \in Weights
    BY <2>1
  <2> QED
    BY <1>3, <1>7, <1>9, <2>2 DEF Written, Traced
<1>13. ASSUME NEW v \in Identities \ {o.user}, NEW W \in Weights PROVE Traced(f, h, v, W, 0)
  <2>1. Traced(e, h, v, W, 0)
    <3>1. Traced(e, h, v, W, IF v = o.user THEN W[line] ELSE 0)
      BY <1>9 DEF Written
    <3> QED
      BY <3>1
  <2>2. InLog(f, v, W) = InLog(e, v, W)
    BY <1>11
  <2> QED
    BY <1>7, <2>1, <2>2 DEF Traced
<1>14. ASSUME NEW W \in Weights
       PROVE  /\ InLog(h, o.user, W) <= InLog(f, o.user, W) + W[line]
              /\ h.noted \/ InLog(h, o.user, W) >= W[line]
  <2>1. Traced(e, h, o.user, W, W[line])
    BY <1>3, <1>9 DEF Written
  <2>2. InLog(f, o.user, W) = InLog(e, o.user, W) + Amount(o.lines, W)
    BY <1>3, <1>11
  <2> QED
    BY <1>3, <1>11, <2>1, <2>2 DEF Traced
<1>15. Removed(f, h, o.user)
  BY <1>12, <1>13, <1>14 DEF Removed, line
<1> QED
  BY <1>3, <1>9, <1>15

\* Work takes over the note of the files.
LEMMA ForgetNote ==
  ASSUME NEW f, Sound(f), NEW g, g = [f EXCEPT !.noted = FALSE]
  PROVE  /\ Sound(g) /\ ~g.noted /\ g.buffer = f.buffer
         /\ \A v, W : InLog(g, v, W) = InLog(f, v, W)
<1>1. f \in FileStates
  BY DEF Sound
<1>2. g = [open |-> f.open, broken |-> f.broken, size |-> f.size, buffer |-> f.buffer,
           disk |-> f.disk, rotated |-> f.rotated, noted |-> FALSE, faults |-> f.faults]
  BY <1>1 DEF FileStates
<1>3. g \in FileStates
  BY <1>1, <1>2, Fields DEF FileStates
<1>4. /\ g.open = f.open /\ g.buffer = f.buffer /\ g.disk = f.disk /\ g.rotated = f.rotated
      /\ g.noted = FALSE /\ g.faults = f.faults /\ g.broken = f.broken
  BY ONLY <1>2
<1>5. Sound(g)
  BY <1>3, <1>4 DEF Sound
<1>6. \A v, W : InLog(g, v, W) = InLog(f, v, W)
  BY <1>4 DEF InLog
<1> QED
  BY <1>4, <1>5, <1>6

\* A tick up to the total cap, and the end of Close.
LEMMA TickWrites ==
  ASSUME NEW f, Sound(f), NEW pending \in [Identities -> Nat], NEW h,
         h \in UNION {UNION {ReopenBroken(g) : g \in FlushAll(e)} : e \in WriteGaps(f, pending)}
  PROVE  Sound(h) /\ \A v \in Identities, W \in Weights : Traced(f, h, v, W, GapWeight(pending[v], W))
<1>1. PICK e \in WriteGaps(f, pending) : h \in UNION {ReopenBroken(g) : g \in FlushAll(e)}
  OBVIOUS
<1>2. PICK g \in FlushAll(e) : h \in ReopenBroken(g)
  BY <1>1
<1>3. Sound(e) /\ \A v \in Identities, W \in Weights : Traced(f, e, v, W, GapWeight(pending[v], W))
  BY <1>1, WriteGapsWrites
<1>4. Sound(g) /\ Kept(e, g)
  BY <1>2, <1>3, FlushAllKeeps
<1>5. Sound(h) /\ Kept(g, h)
  BY <1>2, <1>4, ReopenBrokenKeeps
<1>6. f \in FileStates /\ e \in FileStates /\ g \in FileStates /\ h \in FileStates
  BY <1>3, <1>4, <1>5 DEF Sound
<1>7. Kept(e, h)
  BY <1>4, <1>5, <1>6, KeptBoth
<1>8. ASSUME NEW v \in Identities, NEW W \in Weights
      PROVE  Traced(f, h, v, W, GapWeight(pending[v], W))
  <2> DEFINE n == GapWeight(pending[v], W)
  <2>1. n \in Nat /\ n + 0 = n
    BY GapWeightIsNat
  <2>2. Traced(f, e, v, W, n) /\ Traced(e, h, v, W, 0)
    BY <1>3, <1>7 DEF Kept
  <2> HIDE DEF n
  <2>3. Traced(f, h, v, W, n + 0)
    BY <1>6, <2>1, <2>2, TracedBoth
  <2>4. Traced(f, h, v, W, n)
    BY <2>1, <2>3
  <2> QED
    BY <2>4 DEF n
<1> QED
  BY <1>5, <1>8

\* The end of a writer: its counts are written, and no buffer has a line.
LEMMA StopWrites ==
  ASSUME NEW f, Sound(f), NEW pending \in [Identities -> Nat], NEW h,
         h \in UNION {StopAll(e) : e \in WriteGaps(f, pending)}
  PROVE  /\ Sound(h) /\ \A v \in Identities : h.buffer[v] = <<>>
         /\ \A v \in Identities, W \in Weights : Traced(f, h, v, W, GapWeight(pending[v], W))
<1>1. PICK e \in WriteGaps(f, pending) : h \in StopAll(e)
  OBVIOUS
<1>2. Sound(e) /\ \A v \in Identities, W \in Weights : Traced(f, e, v, W, GapWeight(pending[v], W))
  BY <1>1, WriteGapsWrites
<1>3. Sound(h) /\ Kept(e, h) /\ \A v \in Identities : h.buffer[v] = <<>>
  BY <1>1, <1>2, StopAllKeeps
<1>4. f \in FileStates /\ e \in FileStates /\ h \in FileStates
  BY <1>2, <1>3 DEF Sound
<1>5. ASSUME NEW v \in Identities, NEW W \in Weights
      PROVE  Traced(f, h, v, W, GapWeight(pending[v], W))
  <2> DEFINE n == GapWeight(pending[v], W)
  <2>1. n \in Nat /\ n + 0 = n
    BY GapWeightIsNat
  <2>2. Traced(f, e, v, W, n) /\ Traced(e, h, v, W, 0)
    BY <1>2, <1>3 DEF Kept
  <2> HIDE DEF n
  <2>3. Traced(f, h, v, W, n + 0)
    BY <1>4, <2>1, <2>2, TracedBoth
  <2>4. Traced(f, h, v, W, n)
    BY <2>1, <2>3
  <2> QED
    BY <2>4 DEF n
<1> QED
  BY <1>3, <1>5

-----------------------------------------------------------------------------
(* The weights that the properties use, and the queues and counts of all   *)
(* writers.                                                                *)

OpenWeight      == Of({Gap(Nil)}, Lines)
RecordWeight(r) == Of({Record(r)}, Lines)

\* No record, gap, open gap or stop line is taken for another.
LEMMA LinesDiffer ==
  /\ \A r \in Records : Record(r) # StopLine /\ Record(r) # Gap(Nil)
  /\ \A q, r \in Records : Record(q) = Record(r) => q = r
  /\ \A n \in Nat : Gap(n) # Gap(Nil) /\ Gap(n) # StopLine
  /\ \A n, r : Gap(n) # Record(r)
  /\ Gap(Nil) # StopLine
BY AuditAssumption DEF Record, Gap, StopLine

LEMMA StandsForType ==
  /\ StandsFor \in Weights
  /\ \A r \in Records : StandsFor[Record(r)] = 1
  /\ \A n \in Nat : StandsFor[Gap(n)] = n
  /\ StandsFor[Gap(Nil)] = 0
<1>1. ASSUME NEW line \in Lines
      PROVE  StandsFor[line] \in Nat
             /\ StandsFor[line] = IF line.kind = "record" THEN 1
                                  ELSE IF line.kind = "gap" /\ line.n # Nil THEN line.n ELSE 0
  <2>1. line.n \in Nat \cup {Nil}
    BY DEF Lines
  <2>2. StandsFor[line] = CASE line.kind = "record" -> 1
                            [] line.kind = "gap" /\ line.n # Nil -> line.n
                            [] OTHER -> 0
    BY DEF StandsFor
  <2>3. CASE line.kind = "record"
    <3>1. line.kind # "gap"
      BY <2>3
    <3> QED
      BY <2>2, <2>3, <3>1
  <2>4. CASE line.kind = "gap" /\ line.n # Nil
    <3>1. line.kind # "record"
      BY <2>4
    <3> QED
      BY <2>1, <2>2, <2>4, <3>1
  <2>5. CASE line.kind # "record" /\ ~(line.kind = "gap" /\ line.n # Nil)
    BY <2>2, <2>5
  <2> QED
    BY <2>3, <2>4, <2>5
<1>2. StandsFor \in [Lines -> Nat]
  BY <1>1 DEF StandsFor
<1>3. StandsFor[StopLine] = 0
  BY <1>1, StopLineType DEF StopLine
<1>4. ASSUME NEW r \in Records PROVE StandsFor[Record(r)] = 1
  BY <1>1, StopLineType DEF Record
<1>5. ASSUME NEW n \in Nat PROVE StandsFor[Gap(n)] = n
  <2>1. n # Nil
    BY AuditAssumption
  <2> QED
    BY <1>1, <2>1, StopLineType DEF Gap
<1>6. StandsFor[Gap(Nil)] = 0
  BY <1>1, StopLineType DEF Gap
<1> QED
  BY <1>2, <1>3, <1>4, <1>5, <1>6 DEF Weights

LEMMA OfType ==
  ASSUME NEW S, NEW T
  PROVE  Of(S, T) \in [T -> Nat] /\ \A x \in T : Of(S, T)[x] = IF x \in S THEN 1 ELSE 0
BY DEF Of

LEMMA OpenWeightType ==
  /\ OpenWeight \in Weights
  /\ \A r \in Records : OpenWeight[Record(r)] = 0
  /\ \A n \in Nat : OpenWeight[Gap(n)] = 0
  /\ OpenWeight[Gap(Nil)] = 1
<1>1. OpenWeight \in [Lines -> Nat] /\ \A x \in Lines : OpenWeight[x] = IF x = Gap(Nil) THEN 1 ELSE 0
  BY OfType DEF OpenWeight
<1> QED
  BY <1>1, StopLineType, LinesDiffer DEF Weights

LEMMA RecordWeightType ==
  ASSUME NEW r \in Records
  PROVE  /\ RecordWeight(r) \in Weights
         /\ \A q \in Records : RecordWeight(r)[Record(q)] = IF q = r THEN 1 ELSE 0
         /\ \A n \in Nat : RecordWeight(r)[Gap(n)] = 0
         /\ RecordWeight(r)[Gap(Nil)] = 0
<1>1. /\ RecordWeight(r) \in [Lines -> Nat]
      /\ \A x \in Lines : RecordWeight(r)[x] = IF x = Record(r) THEN 1 ELSE 0
  BY OfType DEF RecordWeight
<1> QED
  BY <1>1, StopLineType, LinesDiffer DEF Weights

\* A gap line of n stands for n records; it is neither a record nor open.
LEMMA GapWeights ==
  ASSUME NEW n \in Nat
  PROVE  /\ GapWeight(n, StandsFor) = n
         /\ GapWeight(n, OpenWeight) = 0
         /\ \A r \in Records : GapWeight(n, RecordWeight(r)) = 0
BY StandsForType, OpenWeightType, RecordWeightType DEF GapWeight

\* The queues of all writers, and their gaps, as sequences.
InAll(qs, W) == Amount(qs, [q \in Seq(Records) |-> Amount(q, W)])
GapsOf(gs, u) == Amount(gs, [g \in [Identities -> Nat] |-> g[u]])

LEMMA WritersSeq ==
  ASSUME NEW D, NEW s \in [Writers -> D]
  PROVE  s \in Seq(D) /\ Len(s) = MaxWriters /\ 1..Len(s) = Writers
<1>1. MaxWriters \in Nat /\ s \in [1..MaxWriters -> D]
  BY AuditAssumption DEF Writers
<1>2. s \in Seq(D)
  BY <1>1, IsASeq
<1>3. DOMAIN s = 1..MaxWriters /\ DOMAIN s = 1..Len(s) /\ Len(s) \in Nat
  BY <1>1, <1>2, LenProperties
<1> QED
  BY <1>1, <1>2, <1>3 DEF Writers

LEMMA QueueWeight ==
  ASSUME NEW W \in [Records -> Nat]
  PROVE  [q \in Seq(Records) |-> Amount(q, W)] \in [Seq(Records) -> Nat]
BY AmountIsNat

LEMMA InAllIsNat ==
  ASSUME NEW qs \in [Writers -> Seq(Records)], NEW W \in [Records -> Nat]
  PROVE  InAll(qs, W) \in Nat
<1> DEFINE p == [q \in Seq(Records) |-> Amount(q, W)]
<1>1. p \in [Seq(Records) -> Nat]
  BY QueueWeight
<1>2. qs \in Seq(Seq(Records))
  BY WritersSeq
<1> HIDE DEF p
<1>3. Amount(qs, p) \in Nat
  BY <1>1, <1>2, AmountIsNat
<1> QED
  BY <1>3 DEF InAll, p

LEMMA InAllChanged ==
  ASSUME NEW qs \in [Writers -> Seq(Records)], NEW W \in [Records -> Nat],
         NEW w \in Writers, NEW q \in Seq(Records)
  PROVE  InAll([qs EXCEPT ![w] = q], W) + Amount(qs[w], W) = InAll(qs, W) + Amount(q, W)
<1> DEFINE p == [x \in Seq(Records) |-> Amount(x, W)]
<1>1. p \in [Seq(Records) -> Nat] /\ p[q] = Amount(q, W) /\ p[qs[w]] = Amount(qs[w], W)
  BY QueueWeight
<1>2. qs \in Seq(Seq(Records)) /\ w \in 1..Len(qs)
  BY WritersSeq
<1> HIDE DEF p
<1>3. Amount([qs EXCEPT ![w] = q], p) + p[qs[w]] = Amount(qs, p) + p[q]
  <2> DEFINE D == Seq(Records)
             t == [qs EXCEPT ![w] = q]
  <2>1. p \in [D -> Nat] /\ qs \in Seq(D) /\ w \in 1..Len(qs) /\ q \in D
    BY <1>1, <1>2
  <2>2. t = [qs EXCEPT ![w] = q]
    OBVIOUS
  <2> HIDE DEF D, t
  <2>3. Amount(t, p) + p[qs[w]] = Amount(qs, p) + p[q]
    <3>1. Exchanged(qs, t, p, qs[w], q)
      BY <2>1, <2>2, AmountWithOneChanged
    <3> QED
      BY <3>1 DEF Exchanged
  <2> QED
    BY <2>3 DEF t
<1>4. Amount([qs EXCEPT ![w] = q], p) + Amount(qs[w], W) = Amount(qs, p) + Amount(q, W)
  BY <1>1, <1>3
<1> QED
  BY <1>4 DEF InAll, p

\* A record that is sent is in one queue more.
LEMMA InAllAppended ==
  ASSUME NEW qs \in [Writers -> Seq(Records)], NEW W \in [Records -> Nat],
         NEW w \in Writers, NEW r \in Records
  PROVE  InAll([qs EXCEPT ![w] = Append(@, r)], W) = InAll(qs, W) + W[r]
<1> DEFINE t == Append(qs[w], r)
<1>1. t \in Seq(Records) /\ Amount(t, W) = Amount(qs[w], W) + W[r]
  BY AppendProperties, AmountWithOneMore
<1>2. Amount(qs[w], W) \in Nat /\ InAll(qs, W) \in Nat /\ W[r] \in Nat
  BY AmountIsNat, InAllIsNat
<1>3. [qs EXCEPT ![w] = Append(@, r)] = [qs EXCEPT ![w] = t] 
  OBVIOUS
<1> HIDE DEF t
<1>4. [qs EXCEPT ![w] = t] \in [Writers -> Seq(Records)]
  BY <1>1
<1>5. InAll([qs EXCEPT ![w] = t], W) \in Nat
  BY <1>4, InAllIsNat
<1>6. InAll([qs EXCEPT ![w] = t], W) + Amount(qs[w], W) = InAll(qs, W) + Amount(t, W)
  BY <1>1, InAllChanged
<1>7. InAll([qs EXCEPT ![w] = t], W) = InAll(qs, W) + W[r]
  <2> DEFINE x == InAll([qs EXCEPT ![w] = t], W)
             y == InAll(qs, W)
             z == Amount(qs[w], W)
             n == W[r]
  <2>1. x \in Nat /\ y \in Nat /\ z \in Nat /\ n \in Nat /\ x + z = y + (z + n)
    BY <1>1, <1>2, <1>5, <1>6
  <2> HIDE DEF x, y, z, n
  <2>2. x = y + n
    BY <2>1
  <2> QED
    BY <2>2 DEF x, y, n
<1> QED
  BY <1>3, <1>7

\* A record that is taken is in one queue less.
LEMMA InAllTaken ==
  ASSUME NEW qs \in [Writers -> Seq(Records)], NEW W \in [Records -> Nat],
         NEW w \in Writers, qs[w] # <<>>
  PROVE  /\ Head(qs[w]) \in Records
         /\ [qs EXCEPT ![w] = Tail(@)] \in [Writers -> Seq(Records)]
         /\ InAll(qs, W) = InAll([qs EXCEPT ![w] = Tail(@)], W) + W[Head(qs[w])]
<1> DEFINE t == Tail(qs[w])
<1>1. Head(qs[w]) \in Records /\ t \in Seq(Records)
  BY HeadTailProperties
<1>2. Amount(qs[w], W) = W[Head(qs[w])] + Amount(t, W)
  BY AmountWithoutFirst
<1>3. Amount(t, W) \in Nat /\ InAll(qs, W) \in Nat /\ W[Head(qs[w])] \in Nat
  BY <1>1, AmountIsNat, InAllIsNat
<1>4. [qs EXCEPT ![w] = Tail(@)] = [qs EXCEPT ![w] = t]
  OBVIOUS
<1> HIDE DEF t
<1>5. [qs EXCEPT ![w] = t] \in [Writers -> Seq(Records)]
  BY <1>1
<1>6. InAll([qs EXCEPT ![w] = t], W) \in Nat
  BY <1>5, InAllIsNat
<1>7. InAll([qs EXCEPT ![w] = t], W) + Amount(qs[w], W) = InAll(qs, W) + Amount(t, W)
  BY <1>1, InAllChanged
<1>8. InAll(qs, W) = InAll([qs EXCEPT ![w] = t], W) + W[Head(qs[w])]
  BY <1>2, <1>3, <1>6, <1>7
<1> QED
  BY <1>1, <1>4, <1>5, <1>8

LEMMA GapsOfIsNat ==
  ASSUME NEW gs \in [Writers -> [Identities -> Nat]], NEW u \in Identities
  PROVE  GapsOf(gs, u) \in Nat
<1> DEFINE p == [g \in [Identities -> Nat] |-> g[u]]
<1>1. p \in [[Identities -> Nat] -> Nat] /\ gs \in Seq([Identities -> Nat])
  BY WritersSeq
<1> HIDE DEF p
<1>2. Amount(gs, p) \in Nat
  BY <1>1, AmountIsNat
<1> QED
  BY <1>2 DEF GapsOf, p

\* One writer counts anew.
LEMMA GapsOfChanged ==
  ASSUME NEW gs \in [Writers -> [Identities -> Nat]], NEW u \in Identities,
         NEW w \in Writers, NEW g \in [Identities -> Nat]
  PROVE  GapsOf([gs EXCEPT ![w] = g], u) + gs[w][u] = GapsOf(gs, u) + g[u]
<1> DEFINE p == [x \in [Identities -> Nat] |-> x[u]]
<1>1. /\ p \in [[Identities -> Nat] -> Nat] /\ p[g] = g[u] /\ p[gs[w]] = gs[w][u]
      /\ gs \in Seq([Identities -> Nat]) /\ w \in 1..Len(gs)
  BY WritersSeq
<1> HIDE DEF p
<1>2. Amount([gs EXCEPT ![w] = g], p) + p[gs[w]] = Amount(gs, p) + p[g]
  <2> DEFINE D == [Identities -> Nat]
             t == [gs EXCEPT ![w] = g]
  <2>1. p \in [D -> Nat] /\ gs \in Seq(D) /\ w \in 1..Len(gs) /\ g \in D
    BY <1>1
  <2>2. t = [gs EXCEPT ![w] = g]
    OBVIOUS
  <2> HIDE DEF D, t
  <2>3. Amount(t, p) + p[gs[w]] = Amount(gs, p) + p[g]
    <3>1. Exchanged(gs, t, p, gs[w], g)
      BY <2>1, <2>2, AmountWithOneChanged
    <3> QED
      BY <3>1 DEF Exchanged
  <2> QED
    BY <2>3 DEF t
<1>3. Amount([gs EXCEPT ![w] = g], p) + gs[w][u] = Amount(gs, p) + g[u]
  BY <1>1, <1>2
<1> QED
  BY <1>3 DEF GapsOf, p

-----------------------------------------------------------------------------
(* Types.  What each step of a writer does to the log is used by all that  *)
(* follows.                                                                *)

Pcs        == {"new", "unaudited", "live", "submit", "refused", "sent", "late"}
ConnStates == [pc : Pcs, writer : Writers \cup {Nil}]

Typed ==
    /\ connState \in [Records -> ConnStates]
    /\ \A r \in Records : connState[r].pc \notin {"new", "unaudited"} => connState[r].writer \in Writers
    /\ attached \in Writers \cup {Nil} /\ sticky \in BOOLEAN
    /\ phase \in [Writers -> Phases]
    /\ queue \in [Writers -> Seq(Records)] /\ \A w \in Writers : Len(queue[w]) <= QueueSize
    /\ gaps \in [Writers -> [Identities -> Nat]] /\ noted \in [Writers -> BOOLEAN]
    /\ Sound(files) /\ ~files.noted

\* A step of a writer's goroutine on the files.
Worked(w, h) ==
    /\ noted' = [noted EXCEPT ![w] = @ \/ h.noted]
    /\ Sound(files') /\ ~files'.noted /\ files'.buffer = h.buffer
    /\ \A v, W : InLog(files', v, W) = InLog(h, v, W)

\* What a step of a writer leaves is one of the outcomes, with its note taken.
LEMMA WorkOf ==
  ASSUME NEW w \in Writers, NEW X, Work(w, X), \A h \in X : Sound(h)
  PROVE  \E h \in X : Sound(h) /\ Worked(w, h)
<1>1. PICK h \in X : files' = [h EXCEPT !.noted = FALSE] /\ noted' = [noted EXCEPT ![w] = @ \/ h.noted]
  BY DEF Work
<1>2. Sound(h)
  OBVIOUS
<1>3. /\ Sound(files') /\ ~files'.noted /\ files'.buffer = h.buffer
      /\ \A v, W : InLog(files', v, W) = InLog(h, v, W)
  BY <1>1, <1>2, ForgetNote
<1> QED
  BY <1>1, <1>2, <1>3 DEF Worked

\* A record that is taken is written, or a drop is noted.
LEMMA TakenRecord ==
  ASSUME Typed, NEW w \in Writers, TakeRecord(w)
  PROVE  /\ Head(queue[w]) \in Records /\ Owner[Head(queue[w])] \in Identities
         /\ \E h : /\ Worked(w, h) /\ Sound(h)
                   /\ Written(files, h, Owner[Head(queue[w])], Record(Head(queue[w])))
<1> DEFINE r == Head(queue[w])
           X == LineFor(files, Owner[r], Record(r))
<1>1. r \in Records
  <2>1. queue[w] \in Seq(Records) /\ queue[w] # <<>>
    BY DEF Typed, TakeRecord
  <2> QED
    BY <2>1, HeadTailProperties
<1>2. Owner[r] \in Identities /\ Record(r) \in Lines
  BY <1>1, AuditAssumption, StopLineType
<1>3. Work(w, X)
  BY DEF TakeRecord
<1>4. \A h \in X : Sound(h) /\ Written(files, h, Owner[r], Record(r))
  BY <1>2, LineForWrites DEF Typed
<1> HIDE DEF X
<1>5. PICK h \in X : Sound(h) /\ Worked(w, h)
  BY <1>3, <1>4, WorkOf
<1> QED
  BY <1>1, <1>2, <1>4, <1>5

\* A tick writes what the writer had counted, or a drop is noted.
LEMMA Ticked ==
  ASSUME Typed, NEW w \in Writers, Tick(w)
  PROVE  \E h : /\ Worked(w, h) /\ Sound(h)
                /\ \A v \in Identities, W \in Weights : Traced(files, h, v, W, GapWeight(gaps[w][v], W))
<1> DEFINE X == UNION {UNION {ReopenBroken(g) : g \in FlushAll(f)} : f \in WriteGaps(files, gaps[w])}
<1>1. gaps[w] \in [Identities -> Nat] /\ Sound(files)
  BY DEF Typed
<1>2. Work(w, X)
  BY DEF Tick
<1>3. \A h \in X : Sound(h) /\ \A v \in Identities, W \in Weights : Traced(files, h, v, W, GapWeight(gaps[w][v], W))
  BY <1>1, TickWrites
<1> HIDE DEF X
<1>4. PICK h \in X : Sound(h) /\ Worked(w, h)
  BY <1>2, <1>3, WorkOf
<1> QED
  BY <1>3, <1>4

\* So does the end of a writer, and it leaves no buffer.
LEMMA Stopped ==
  ASSUME Typed, NEW w \in Writers, Stop(w)
  PROVE  \E h : /\ Worked(w, h) /\ Sound(h) /\ \A v \in Identities : h.buffer[v] = <<>>
                /\ \A v \in Identities, W \in Weights : Traced(files, h, v, W, GapWeight(gaps[w][v], W))
<1> DEFINE X == UNION {StopAll(f) : f \in WriteGaps(files, gaps[w])}
<1>1. gaps[w] \in [Identities -> Nat] /\ Sound(files)
  BY DEF Typed
<1>2. Work(w, X)
  BY DEF Stop
<1>3. \A h \in X : /\ Sound(h) /\ \A v \in Identities : h.buffer[v] = <<>>
                   /\ \A v \in Identities, W \in Weights : Traced(files, h, v, W, GapWeight(gaps[w][v], W))
  BY <1>1, StopWrites
<1> HIDE DEF X
<1>4. PICK h \in X : Sound(h) /\ Worked(w, h)
  BY <1>2, <1>3, WorkOf
<1> QED
  BY <1>3, <1>4

\* A round of the cap moves nothing, or removes one file under an open gap.
LEMMA Capped ==
  ASSUME Typed, NEW w \in Writers, Cap(w)
  PROVE  \E h : /\ Worked(w, h) /\ Sound(h)
                /\ Kept(files, h) \/ \E u \in Identities : Removed(files, h, u)
<1>1. Sound(files)
  BY DEF Typed
<1>2. CASE Work(w, RemoveOldest(files))
  <2>1. \A h \in RemoveOldest(files) : Sound(h) /\ \E u \in Identities : Removed(files, h, u)
    BY <1>1, RemoveOldestTraces
  <2>2. PICK h \in RemoveOldest(files) : Sound(h) /\ Worked(w, h)
    BY <1>2, <2>1, WorkOf
  <2> QED
    BY <2>1, <2>2
<1>3. CASE Work(w, CapGivesUp(files))
  <2>1. \A h \in CapGivesUp(files) : Sound(h) /\ Kept(files, h)
    BY <1>1, GiveUpKeeps
  <2>2. PICK h \in CapGivesUp(files) : Sound(h) /\ Worked(w, h)
    BY <1>3, <2>1, WorkOf
  <2> QED
    BY <2>1, <2>2
<1> QED
  BY <1>2, <1>3 DEF Cap

LEMMA OwnerType ==
  ASSUME NEW r \in Records
  PROVE  Owner[r] \in Identities
BY AuditAssumption

\* Types, step by step.
LEMMA TypedStep == Typed /\ [LogNext]_logVars => Typed'
<1> SUFFICES ASSUME Typed, [LogNext]_logVars PROVE Typed'
  OBVIOUS
<1> USE DEF Typed
<1>0. NoGaps \in [Identities -> Nat] /\ Nil \notin Writers
  BY AuditAssumption DEF NoGaps, Writers
<1>1. ASSUME NEW r \in Records, Begin(r) PROVE Typed'
  BY <1>1 DEF Begin, ConnStates, Pcs
<1>2. ASSUME NEW r \in Records, Finish(r) PROVE Typed'
  BY <1>2 DEF Finish, ConnStates, Pcs
<1>3. ASSUME NEW r \in Records, Submit(r) PROVE Typed'
  <2> DEFINE w == connState[r].writer
             full == Len(queue[w]) >= QueueSize
  <2>1. w \in Writers /\ queue[w] \in Seq(Records) /\ Owner[r] \in Identities
    BY <1>3, OwnerType DEF Submit
  <2>2. /\ connState' \in [Records -> ConnStates]
        /\ \A q \in Records : connState'[q].pc \notin {"new", "unaudited"} => connState'[q].writer \in Writers
    BY <1>3 DEF Submit, ConnStates, Pcs
  <2>3. gaps' \in [Writers -> [Identities -> Nat]]
    <3> DEFINE g == [gaps[w] EXCEPT ![Owner[r]] = @ + 1]
    <3>1. g \in [Identities -> Nat]
      BY <2>1
    <3>2. gaps' = gaps \/ gaps' = [gaps EXCEPT ![w] = g]
      BY <1>3 DEF Submit
    <3> HIDE DEF w, g
    <3> QED
      BY <2>1, <3>1, <3>2
  <2>4. queue' \in [Writers -> Seq(Records)] /\ \A v \in Writers : Len(queue'[v]) <= QueueSize
    <3>1. CASE full
      <4>1. queue' = queue
        BY <1>3, <3>1 DEF Submit
      <4> QED
        BY <4>1
    <3>2. CASE ~full
      <4> DEFINE t == Append(queue[w], r)
      <4>1. queue' = [queue EXCEPT ![w] = t]
        BY <1>3, <3>2 DEF Submit
      <4>2. t \in Seq(Records) /\ Len(t) = Len(queue[w]) + 1 /\ Len(queue[w]) \in Nat /\ QueueSize \in Nat
        BY <2>1, AppendProperties, LenProperties, AuditAssumption
      <4>3. ~(Len(queue[w]) >= QueueSize)
        BY <3>2
      <4> HIDE DEF t, w
      <4>4. Len(t) <= QueueSize
        BY <4>2, <4>3
      <4> QED
        BY <2>1, <4>1, <4>2, <4>4
    <3> QED
      BY <3>1, <3>2
  <2> QED
    BY <1>3, <2>2, <2>3, <2>4 DEF Submit
<1>4. ASSUME NEW w \in Writers, NEW h, Worked(w, h), UNCHANGED <<connState, attached, sticky>>,
             phase' \in [Writers -> Phases], queue' = queue, gaps' \in [Writers -> [Identities -> Nat]],
             Sound(h)
      PROVE  Typed'
  <2>1. h.noted \in BOOLEAN
    BY <1>4, Fields DEF Sound
  <2>2. noted' \in [Writers -> BOOLEAN]
    BY <1>4, <2>1 DEF Worked
  <2> QED
    BY <1>4, <2>2 DEF Worked
<1>5. ASSUME NEW w \in Writers, TakeRecord(w) PROVE Typed'
  <2>1. PICK h : Worked(w, h) /\ Sound(h)
    BY <1>5, TakenRecord
  <2>2. h.noted \in BOOLEAN
    BY <2>1, Fields DEF Sound
  <2>3. noted' \in [Writers -> BOOLEAN] /\ Sound(files') /\ ~files'.noted
    BY <2>1, <2>2 DEF Worked
  <2>4. queue' \in [Writers -> Seq(Records)] /\ \A v \in Writers : Len(queue'[v]) <= QueueSize
    <3> DEFINE t == Tail(queue[w])
    <3>1. queue[w] \in Seq(Records) /\ queue[w] # <<>> /\ queue' = [queue EXCEPT ![w] = t]
      BY <1>5 DEF TakeRecord
    <3>2. t \in Seq(Records) /\ Len(t) = Len(queue[w]) - 1 /\ Len(queue[w]) \in Nat
      BY <3>1, HeadTailProperties, LenProperties
    <3>3. Len(queue[w]) <= QueueSize /\ QueueSize \in Nat
      BY AuditAssumption
    <3> HIDE DEF t
    <3>4. Len(t) <= QueueSize
      BY <3>2, <3>3
    <3> QED
      BY <3>1, <3>2, <3>4
  <2> QED
    BY <1>5, <2>3, <2>4 DEF TakeRecord
<1>6. ASSUME NEW w \in Writers, Tick(w) PROVE Typed'
  <2>1. PICK h : Worked(w, h) /\ Sound(h)
    BY <1>6, Ticked
  <2>2. phase' \in [Writers -> Phases] /\ gaps' \in [Writers -> [Identities -> Nat]]
    BY <1>0, <1>6 DEF Tick, AfterCap, Phases
  <2> QED
    BY <1>4, <1>6, <2>1, <2>2 DEF Tick
<1>7. ASSUME NEW w \in Writers, Cap(w) PROVE Typed'
  <2>1. PICK h : Worked(w, h) /\ Sound(h)
    BY <1>7, Capped
  <2>2. phase' \in [Writers -> Phases] /\ gaps' \in [Writers -> [Identities -> Nat]]
    BY <1>7 DEF Cap, AfterCap, Phases
  <2> QED
    BY <1>4, <1>7, <2>1, <2>2 DEF Cap
<1>8. ASSUME NEW w \in Writers, Stop(w) PROVE Typed'
  <2>1. PICK h : Worked(w, h) /\ Sound(h)
    BY <1>8, Stopped
  <2>2. phase' \in [Writers -> Phases] /\ gaps' \in [Writers -> [Identities -> Nat]]
    BY <1>0, <1>8 DEF Stop, Phases
  <2> QED
    BY <1>4, <1>8, <2>1, <2>2 DEF Stop
<1>9. ASSUME NEW w \in Writers, CloseWriter(w) \/ LoopEnds(w) \/ Drained(w) \/ Attach(w) PROVE Typed'
  BY <1>9 DEF CloseWriter, LoopEnds, Drained, Attach, Phases
<1>10. CASE Detach
  BY <1>10 DEF Detach
<1>11. CASE Snapshot
  <2>1. AuditDropped \in BOOLEAN
    BY DEF AuditDropped
  <2> QED
    BY <1>11, <2>1 DEF Snapshot
<1>12. CASE UNCHANGED logVars
  BY <1>12 DEF logVars
<1> QED
  BY <1>1, <1>2, <1>3, <1>5, <1>6, <1>7, <1>8, <1>9, <1>10, <1>11, <1>12 DEF LogNext

-----------------------------------------------------------------------------
(* What a writer that has ended left                                       *)

\* Writers follow each other; the attached one runs.
Phased ==
    /\ \A w \in Writers : phase[w] # "none" => \A v \in Writers : v < w => phase[v] = "ended"
    /\ attached # Nil => phase[attached] \in {"loop", "cap"}

LateFor(q, w) == connState[q] = [pc |-> "late", writer |-> w]

\* What a closed writer still holds came late.
Emptied ==
    /\ \A w \in Writers : phase[w] \in {"gaps", "ended"} =>
          \A r \in Records : r \in ToSet(queue[w]) => LateFor(r, w)
    /\ \A w \in Writers : phase[w] = "ended" =>
          \A u \in Identities : gaps[w][u] > 0 => \E q \in Records : Owner[q] = u /\ LateFor(q, w)
    /\ (\A w \in Writers : phase[w] \in {"none", "ended"}) =>
          \A u \in Identities : files.buffer[u] = <<>>

\* Reloads attach a writer only after all before it have ended.
LEMMA PhasedStep == Typed /\ Phased /\ [LogNext]_logVars => Phased'
<1> SUFFICES ASSUME Typed, Phased, [LogNext]_logVars PROVE Phased'
  OBVIOUS
<1> USE DEF Phased
<1>0. /\ Nil \notin Writers /\ \A v, w \in Writers : v < w \/ w < v \/ v = w
      /\ phase \in [Writers -> Phases] /\ attached \in Writers \cup {Nil}
  BY AuditAssumption DEF Writers, Typed
<1>1. ASSUME UNCHANGED <<phase, attached>> PROVE Phased'
  BY <1>1
<1>2. ASSUME NEW r \in Records, Begin(r) \/ Finish(r) \/ Submit(r) PROVE Phased'
  BY <1>1, <1>2 DEF Begin, Finish, Submit
<1>3. ASSUME NEW w \in Writers, TakeRecord(w) PROVE Phased'
  BY <1>1, <1>3 DEF TakeRecord
<1>4. ASSUME NEW w \in Writers, phase[w] \in {"loop", "cap"}, UNCHANGED attached,
             phase' = [phase EXCEPT ![w] = "loop"] \/ phase' = [phase EXCEPT ![w] = "cap"]
      PROVE  Phased'
  BY <1>0, <1>4
<1>5. ASSUME NEW w \in Writers, Tick(w) \/ Cap(w) PROVE Phased'
  BY <1>4, <1>5 DEF Tick, Cap, AfterCap
<1>6. ASSUME NEW w \in Writers, CloseWriter(w) PROVE Phased'
  BY <1>0, <1>6 DEF CloseWriter
<1>7. ASSUME NEW w \in Writers, NEW p, phase[w] \in {"stopping", "draining", "gaps"}, UNCHANGED attached,
             phase' = [phase EXCEPT ![w] = p]
      PROVE  Phased'
  BY <1>0, <1>7
<1>8. ASSUME NEW w \in Writers, LoopEnds(w) \/ Drained(w) \/ Stop(w) PROVE Phased'
  BY <1>7, <1>8 DEF LoopEnds, Drained, Stop
<1>9. ASSUME NEW w \in Writers, Attach(w) PROVE Phased'
  <2>1. /\ phase' = [phase EXCEPT ![w] = "loop"] /\ attached' = w /\ phase[w] = "none"
        /\ \A v \in Writers : v < w => phase[v] = "ended"
    BY <1>9 DEF Attach
  <2> QED
    BY <1>0, <2>1
<1>10. CASE Detach
  BY <1>10 DEF Detach
<1>11. CASE Snapshot
  BY <1>1, <1>11 DEF Snapshot
<1>12. CASE UNCHANGED logVars
  BY <1>1, <1>12 DEF logVars
<1> QED
  BY <1>2, <1>3, <1>5, <1>6, <1>8, <1>9, <1>10, <1>11, <1>12 DEF LogNext

\* A record that came late stays late.
LEMMA LateStays ==
  ASSUME Typed, [LogNext]_logVars, NEW q \in Records, NEW w, LateFor(q, w)
  PROVE  LateFor(q, w)'
<1>1. connState[q].pc = "late" /\ connState \in [Records -> ConnStates]
  BY DEF LateFor, Typed
<1>2. connState'[q] = connState[q]
  <2>1. ASSUME NEW r \in Records, Begin(r) \/ Finish(r) \/ Submit(r) PROVE connState'[q] = connState[q]
    <3>1. r # q
      BY <1>1, <2>1 DEF Begin, Finish, Submit
    <3> QED
      BY <1>1, <2>1, <3>1 DEF Begin, Finish, Submit
  <2>2. ASSUME UNCHANGED connState PROVE connState'[q] = connState[q]
    BY <2>2
  <2> QED
    BY <2>1, <2>2 DEF LogNext, TakeRecord, Tick, Cap, CloseWriter, LoopEnds, Drained, Stop, Attach,
                      Detach, Snapshot, logVars
<1> QED
  BY <1>2 DEF LateFor

\* What reaches a writer after its drain comes late, what is dropped after its
\* last gap lines too, and the end of a writer empties all buffers.
LEMMA EmptiedStep == Typed /\ Emptied /\ [LogNext]_logVars => Emptied'
<1> SUFFICES ASSUME Typed, Emptied, [LogNext]_logVars PROVE Emptied'
  OBVIOUS
<1> USE DEF Emptied
<1>0. /\ phase \in [Writers -> Phases] /\ queue \in [Writers -> Seq(Records)]
      /\ gaps \in [Writers -> [Identities -> Nat]] /\ connState \in [Records -> ConnStates]
  BY DEF Typed
<1>1. \A q \in Records : \A w : LateFor(q, w) => LateFor(q, w)'
  BY LateStays
<1>2. ASSUME UNCHANGED <<phase, queue, gaps, files>> PROVE Emptied'
  BY <1>1, <1>2
<1>3. ASSUME NEW r \in Records, Begin(r) \/ Finish(r) PROVE Emptied'
  BY <1>2, <1>3 DEF Begin, Finish
<1>4. ASSUME NEW r \in Records, Submit(r) PROVE Emptied'
  <2>1. PICK w \in Writers : w = connState[r].writer
    BY <1>4 DEF Submit, Typed
  <2>9. queue[w] \in Seq(Records) /\ Owner[r] \in Identities
    BY <1>0, OwnerType
  <2>10. PICK full \in BOOLEAN : full = (Len(queue[w]) >= QueueSize)
    <3>1. Len(queue[w]) \in Nat /\ QueueSize \in Nat
      BY <2>9, LenProperties, AuditAssumption
    <3>2. (Len(queue[w]) >= QueueSize) \in BOOLEAN
      BY <3>1
    <3> QED
      BY <3>2, Zenon
  <2> DEFINE pc == IF TooLate(w, full) THEN "late" ELSE "sent"
  <2>2. /\ connState' = [connState EXCEPT ![r].pc = pc] /\ UNCHANGED <<phase, files>>
        /\ queue' = IF full THEN queue ELSE [queue EXCEPT ![w] = Append(@, r)]
        /\ gaps' = IF full THEN [gaps EXCEPT ![w][Owner[r]] = @ + 1] ELSE gaps
    <3>1. /\ connState' = [connState EXCEPT ![r].pc =
                              IF TooLate(w, Len(queue[w]) >= QueueSize) THEN "late" ELSE "sent"]
          /\ UNCHANGED <<phase, files>>
          /\ queue' = IF Len(queue[w]) >= QueueSize THEN queue ELSE [queue EXCEPT ![w] = Append(@, r)]
          /\ gaps' = IF Len(queue[w]) >= QueueSize THEN [gaps EXCEPT ![w][Owner[r]] = @ + 1] ELSE gaps
      BY <1>4, <2>1 DEF Submit
    <3> QED
      BY <2>10, <3>1
  <2>3. connState'[r] = [pc |-> pc, writer |-> w]
    BY <1>0, <2>1, <2>2 DEF ConnStates
  <2>4. phase[w] = "ended" \/ (phase[w] = "gaps" /\ ~full) => LateFor(r, w)'
    BY <2>3 DEF LateFor, TooLate, pc
  <2> HIDE DEF pc
  <2>5. ASSUME NEW v \in Writers, phase'[v] \in {"gaps", "ended"}, NEW q \in Records, q \in ToSet(queue'[v])
        PROVE  LateFor(q, v)'
    <3>1. phase[v] \in {"gaps", "ended"}
      BY <2>2, <2>5
    <3>2. CASE q \in ToSet(queue[v])
      BY <1>1, <3>1, <3>2
    <3>3. CASE q \notin ToSet(queue[v])
      <4>1. v = w /\ ~full
        BY <1>0, <2>1, <2>2, <2>5, <3>3
      <4>2. ToSet(queue'[v]) = ToSet(queue[v]) \cup {r}
        BY <1>0, <2>9, <2>2, <4>1, ToSetAppend
      <4>3. q = r
        BY <2>5, <3>3, <4>2
      <4> QED
        BY <2>4, <3>1, <4>1, <4>3
    <3> QED
      BY <3>2, <3>3
  <2>6. ASSUME NEW v \in Writers, phase'[v] = "ended", NEW u \in Identities, gaps'[v][u] > 0
        PROVE  \E q \in Records : Owner[q] = u /\ LateFor(q, v)'
    <3>1. phase[v] = "ended"
      BY <2>2, <2>6
    <3>2. CASE gaps[v][u] > 0
      BY <1>1, <3>1, <3>2
    <3>3. CASE ~(gaps[v][u] > 0)
      <4>1. v = w /\ u = Owner[r]
        BY <1>0, <2>9, <2>2, <2>6, <3>3
      <4> QED
        BY <2>4, <3>1, <4>1
    <3> QED
      BY <3>2, <3>3
  <2> QED
    BY <2>2, <2>5, <2>6
<1>5. ASSUME NEW w \in Writers, TakeRecord(w) PROVE Emptied'
  <2>1. /\ UNCHANGED <<phase, gaps>> /\ phase[w] \notin {"none", "gaps", "ended"}
        /\ queue' = [queue EXCEPT ![w] = Tail(@)]
    BY <1>5 DEF TakeRecord
  <2>2. \A v \in Writers : v # w => queue'[v] = queue[v]
    BY <1>0, <2>1
  <2> QED
    BY <1>1, <2>1, <2>2
<1>6. ASSUME NEW w \in Writers, phase'[w] \notin {"none", "gaps", "ended"}, UNCHANGED queue,
             \A v \in Writers : v # w => phase'[v] = phase[v] /\ gaps'[v] = gaps[v]
      PROVE  Emptied'
  BY <1>1, <1>6
<1>7. ASSUME NEW w \in Writers, Tick(w) \/ Cap(w) \/ CloseWriter(w) \/ LoopEnds(w) \/ Attach(w) PROVE Emptied'
  BY <1>0, <1>6, <1>7 DEF Tick, Cap, CloseWriter, LoopEnds, Attach, AfterCap
<1>8. ASSUME NEW w \in Writers, Drained(w) PROVE Emptied'
  <2>1. phase' = [phase EXCEPT ![w] = "gaps"] /\ queue[w] = <<>> /\ UNCHANGED <<queue, gaps, files>>
    BY <1>8 DEF Drained
  <2>2. ToSet(queue[w]) = {}
    <3>1. Len(queue[w]) = 0 /\ queue[w] \in Seq(Records)
      BY <1>0, <2>1, EmptySeq
    <3>2. 1..Len(queue[w]) = {}
      BY <3>1
    <3> QED
      BY <3>1, <3>2, ToSetType
  <2> QED
    BY <1>0, <1>1, <2>1, <2>2
<1>9. ASSUME NEW w \in Writers, Stop(w) PROVE Emptied'
  <2>1. /\ phase[w] = "gaps" /\ phase' = [phase EXCEPT ![w] = "ended"] /\ UNCHANGED queue
        /\ gaps' = [gaps EXCEPT ![w] = NoGaps]
    BY <1>9 DEF Stop
  <2>2. \A u \in Identities : files'.buffer[u] = <<>>
    <3>1. PICK h : Worked(w, h) /\ \A v \in Identities : h.buffer[v] = <<>>
      BY <1>9, Stopped
    <3> QED
      BY <3>1 DEF Worked
  <2>3. \A u \in Identities : ~(gaps'[w][u] > 0)
    BY <1>0, <2>1 DEF NoGaps
  <2> QED
    BY <1>0, <1>1, <2>1, <2>2, <2>3
<1>10. CASE Detach \/ Snapshot \/ UNCHANGED logVars
  BY <1>2, <1>10 DEF Detach, Snapshot, logVars
<1> QED
  BY <1>3, <1>4, <1>5, <1>7, <1>8, <1>9, <1>10 DEF LogNext

LEMMA EmptiedCloses == Typed /\ Emptied => CloseKeepsAll
<1> SUFFICES ASSUME Typed, Emptied PROVE CloseKeepsAll
  OBVIOUS
<1>1. ASSUME NEW w \in Writers, phase[w] = "ended", NEW r \in Records,
             r \in ToSet(queue[w]) \/ gaps[w][Owner[r]] > 0
      PROVE  \E q \in Records : Owner[q] = Owner[r] /\ connState[q] = [pc |-> "late", writer |-> w]
  BY <1>1, OwnerType DEF Emptied, LateFor
<1> QED
  BY <1>1 DEF CloseKeepsAll, Emptied

-----------------------------------------------------------------------------
(* No connection is twice in the log and the queues.  A connection that was *)
(* not handed over is in none, so that handing it over makes it one.       *)

OneOf(r)    == Of({r}, Records)
Handed(r)   == connState[r].pc \in {"sent", "late"}
\* A connection that has not been handed to a writer is nowhere.
Once == \A r \in Records : Copies(r) <= IF Handed(r) THEN 1 ELSE 0

LEMMA OneOfType ==
  ASSUME NEW r \in Records
  PROVE  OneOf(r) \in [Records -> Nat] /\ \A q \in Records : OneOf(r)[q] = IF q = r THEN 1 ELSE 0
BY OfType DEF OneOf

\* The copies of a record, in the log and in the queues.
LEMMA CopiesParts ==
  ASSUME NEW r \in Records
  PROVE  /\ Copies(r) = InLog(files, Owner[r], RecordWeight(r)) + InAll(queue, OneOf(r))
         /\ Copies(r)' = InLog(files', Owner[r], RecordWeight(r)) + InAll(queue', OneOf(r))
<1>1. Copies(r) = InLog(files, Owner[r], RecordWeight(r)) + InAll(queue, OneOf(r))
  BY DEF Copies, InQueues, InAll, OneOf, RecordWeight
<1>2. Copies(r)' = InLog(files', Owner[r], RecordWeight(r)) + InAll(queue', OneOf(r))
  BY DEF Copies, InQueues, InAll, OneOf, RecordWeight
<1> QED
  BY <1>1, <1>2

LEMMA CopiesAreNat ==
  ASSUME Typed, Typed', NEW r \in Records
  PROVE  /\ InLog(files, Owner[r], RecordWeight(r)) \in Nat /\ InAll(queue, OneOf(r)) \in Nat
         /\ InLog(files', Owner[r], RecordWeight(r)) \in Nat /\ InAll(queue', OneOf(r)) \in Nat
<1>1. /\ files \in FileStates /\ files' \in FileStates
      /\ queue \in [Writers -> Seq(Records)] /\ queue' \in [Writers -> Seq(Records)]
  BY DEF Typed, Sound
<1>2. Owner[r] \in Identities /\ RecordWeight(r) \in [Lines -> Nat] /\ OneOf(r) \in [Records -> Nat]
  BY OwnerType, OneOfType, RecordWeightType, WeightsType
<1> QED
  BY <1>1, <1>2, PartsAreNat, InAllIsNat

\* A step that gives a connection no copy and takes back none that was handed.
LEMMA NoMoreCopies ==
  ASSUME Typed, Typed', Once, UNCHANGED connState, UNCHANGED queue,
         \A r \in Records :
            InLog(files', Owner[r], RecordWeight(r)) <= InLog(files, Owner[r], RecordWeight(r))
  PROVE  Once'
<1> SUFFICES ASSUME NEW r \in Records PROVE Copies(r)' <= IF Handed(r)' THEN 1 ELSE 0
  BY DEF Once
<1>1. Copies(r) <= IF Handed(r) THEN 1 ELSE 0
  BY DEF Once
<1>2. Copies(r)' <= Copies(r) /\ Copies(r) \in Nat /\ Copies(r)' \in Nat
  BY CopiesParts, CopiesAreNat
<1>3. Handed(r)' = Handed(r)
  BY DEF Handed
<1> QED
  BY <1>1, <1>2, <1>3

\* Submit makes the only copy; everything else moves it, or loses it.
LEMMA OnceStep == Typed /\ Typed' /\ Once /\ [LogNext]_logVars => Once'
<1> SUFFICES ASSUME Typed, Typed', Once, [LogNext]_logVars PROVE Once'
  OBVIOUS
<1>0. /\ phase \in [Writers -> Phases] /\ queue \in [Writers -> Seq(Records)]
      /\ gaps \in [Writers -> [Identities -> Nat]] /\ connState \in [Records -> ConnStates]
      /\ files \in FileStates
  BY DEF Typed, Sound
<1>1. ASSUME UNCHANGED <<connState, queue, files>> PROVE Once'
  <2>1. \A r \in Records :
           InLog(files', Owner[r], RecordWeight(r)) <= InLog(files, Owner[r], RecordWeight(r))
    BY <1>1, CopiesAreNat
  <2> QED
    BY <1>1, <2>1, NoMoreCopies
<1>2. ASSUME NEW q \in Records, Begin(q) \/ Finish(q) PROVE Once'
  <2>1. UNCHANGED <<queue, files>> /\ \A r \in Records : Handed(r) => Handed(r)'
    BY <1>0, <1>2 DEF Begin, Finish, Handed
  <2>2. ASSUME NEW r \in Records PROVE Copies(r)' <= IF Handed(r)' THEN 1 ELSE 0
    <3>1. Copies(r)' = Copies(r) /\ Copies(r) \in Nat
      BY <2>1, CopiesParts, CopiesAreNat
    <3>2. Copies(r) <= IF Handed(r) THEN 1 ELSE 0
      BY DEF Once
    <3> QED
      BY <2>1, <3>1, <3>2
  <2> QED
    BY <2>2 DEF Once
<1>3. ASSUME NEW q \in Records, Submit(q) PROVE Once'
  <2>1. PICK w \in Writers : w = connState[q].writer
    BY <1>3 DEF Submit, Typed
  <2>2. /\ UNCHANGED files /\ ~Handed(q) /\ Handed(q)'
        /\ \A r \in Records : Handed(r) => Handed(r)'
    BY <1>0, <1>3 DEF Submit, Handed
  <2>3. queue' = queue \/ queue' = [queue EXCEPT ![w] = Append(@, q)]
    BY <1>3, <2>1 DEF Submit
  <2>4. ASSUME NEW r \in Records
        PROVE  InAll(queue', OneOf(r)) <= InAll(queue, OneOf(r)) + (IF r = q THEN 1 ELSE 0)
    <3>1. OneOf(r) \in [Records -> Nat] /\ OneOf(r)[q] = IF r = q THEN 1 ELSE 0
      BY OneOfType
    <3>2. InAll(queue, OneOf(r)) \in Nat
      BY CopiesAreNat
    <3>3. CASE queue' = queue
      BY <3>2, <3>3
    <3>4. CASE queue' = [queue EXCEPT ![w] = Append(@, q)]
      <4>1. InAll([queue EXCEPT ![w] = Append(@, q)], OneOf(r)) = InAll(queue, OneOf(r)) + OneOf(r)[q]
        BY <1>0, <3>1, InAllAppended
      <4> QED
        BY <3>1, <3>2, <3>4, <4>1
    <3> QED
      BY <2>3, <3>3, <3>4
  <2>5. ASSUME NEW r \in Records PROVE Copies(r)' <= IF Handed(r)' THEN 1 ELSE 0
    <3>1. Copies(r)' <= Copies(r) + (IF r = q THEN 1 ELSE 0) /\ Copies(r) \in Nat /\ Copies(r)' \in Nat
      BY <2>2, <2>4, CopiesParts, CopiesAreNat
    <3>2. Copies(r) <= IF Handed(r) THEN 1 ELSE 0
      BY DEF Once
    <3> QED
      BY <2>2, <3>1, <3>2
  <2> QED
    BY <2>5 DEF Once
<1>4. ASSUME NEW w \in Writers, TakeRecord(w) PROVE Once'
  <2> DEFINE q == Head(queue[w])
  <2>1. /\ queue' = [queue EXCEPT ![w] = Tail(@)] /\ UNCHANGED connState /\ queue[w] # <<>>
        /\ q \in Records /\ Owner[q] \in Identities
    BY <1>4, TakenRecord DEF TakeRecord
  <2>2. PICK h : Worked(w, h) /\ Written(files, h, Owner[q], Record(q))
    BY <1>4, TakenRecord
  <2> HIDE DEF q
  <2>3. ASSUME NEW r \in Records PROVE Copies(r)' <= IF Handed(r)' THEN 1 ELSE 0
    <3> DEFINE a == InLog(files, Owner[r], RecordWeight(r))
               b == InAll(queue, OneOf(r))
               c == InLog(files', Owner[r], RecordWeight(r))
               d == InAll(queue', OneOf(r))
               n == IF q = r THEN 1 ELSE 0
    <3>1. a \in Nat /\ b \in Nat /\ c \in Nat /\ d \in Nat /\ n \in Nat
      BY CopiesAreNat
    <3>2. b = d + n
      <4>1. OneOf(r) \in [Records -> Nat] /\ OneOf(r)[q] = n
        BY <2>1, OneOfType
      <4>2. InAll(queue, OneOf(r)) = InAll([queue EXCEPT ![w] = Tail(@)], OneOf(r)) + OneOf(r)[Head(queue[w])]
        BY <1>0, <2>1, <4>1, InAllTaken
      <4> QED
        BY <2>1, <4>1, <4>2 DEF q
    <3>3. c <= a + n
      <4>1. RecordWeight(r) \in Weights /\ RecordWeight(r)[Record(q)] = n /\ Owner[r] \in Identities
        BY <2>1, OwnerType, RecordWeightType
      <4>2. Traced(files, h, Owner[r], RecordWeight(r), IF Owner[r] = Owner[q] THEN n ELSE 0)
        BY <2>2, <4>1 DEF Written
      <4>3. (IF Owner[r] = Owner[q] THEN n ELSE 0) = n
        OBVIOUS
      <4>4. InLog(h, Owner[r], RecordWeight(r)) <= a + n
        BY <4>2, <4>3 DEF Traced
      <4>5. c = InLog(h, Owner[r], RecordWeight(r))
        BY <2>2 DEF Worked
      <4> QED
        BY <4>4, <4>5
    <3>4. Copies(r) = a + b /\ Copies(r)' = c + d
      BY CopiesParts
    <3>5. Copies(r) <= IF Handed(r) THEN 1 ELSE 0
      BY DEF Once
    <3>6. Handed(r)' = Handed(r)
      BY <2>1 DEF Handed
    <3> HIDE DEF a, b, c, d, n
    <3>7. Copies(r)' <= Copies(r) /\ Copies(r)' \in Nat /\ Copies(r) \in Nat
      BY <3>1, <3>2, <3>3, <3>4
    <3> QED
      BY <3>5, <3>6, <3>7
  <2> QED
    BY <2>3 DEF Once
<1>5. ASSUME NEW w \in Writers, Tick(w) \/ Stop(w) PROVE Once'
  <2>1. PICK h : /\ Worked(w, h)
                 /\ \A v \in Identities, W \in Weights : Traced(files, h, v, W, GapWeight(gaps[w][v], W))
    BY <1>5, Ticked, Stopped
  <2>2. ASSUME NEW r \in Records
        PROVE  InLog(files', Owner[r], RecordWeight(r)) <= InLog(files, Owner[r], RecordWeight(r))
    <3>1. Owner[r] \in Identities /\ RecordWeight(r) \in Weights /\ gaps[w][Owner[r]] \in Nat
      BY <1>0, OwnerType, RecordWeightType
    <3>2. Traced(files, h, Owner[r], RecordWeight(r), GapWeight(gaps[w][Owner[r]], RecordWeight(r)))
      BY <2>1, <3>1
    <3>3. GapWeight(gaps[w][Owner[r]], RecordWeight(r)) = 0
      BY <3>1, GapWeights
    <3>4. InLog(h, Owner[r], RecordWeight(r)) <= InLog(files, Owner[r], RecordWeight(r)) + 0
      BY <3>2, <3>3 DEF Traced
    <3>5. InLog(files', Owner[r], RecordWeight(r)) = InLog(h, Owner[r], RecordWeight(r))
      BY <2>1 DEF Worked
    <3> QED
      BY <3>4, <3>5, CopiesAreNat
  <2> QED
    BY <1>5, <2>2, NoMoreCopies DEF Tick, Stop
<1>6. ASSUME NEW w \in Writers, Cap(w) PROVE Once'
  <2>1. PICK h : Worked(w, h) /\ (Kept(files, h) \/ \E u \in Identities : Removed(files, h, u))
    BY <1>6, Capped
  <2>2. ASSUME NEW r \in Records
        PROVE  InLog(files', Owner[r], RecordWeight(r)) <= InLog(files, Owner[r], RecordWeight(r))
    <3> DEFINE v == Owner[r]
               W == RecordWeight(r)
    <3>1. v \in Identities /\ W \in Weights /\ W[Gap(Nil)] = 0
      BY OwnerType, RecordWeightType
    <3> HIDE DEF v, W
    <3>2. InLog(h, v, W) <= InLog(files, v, W) + 0
      <4>1. CASE Kept(files, h)
        BY <3>1, <4>1 DEF Kept, Traced
      <4>2. ASSUME NEW u \in Identities, Removed(files, h, u) PROVE InLog(h, v, W) <= InLog(files, v, W) + 0
        <5>1. CASE v = u
          BY <3>1, <4>2, <5>1 DEF Removed
        <5>2. CASE v # u
          BY <3>1, <4>2, <5>2 DEF Removed, Traced
        <5> QED
          BY <5>1, <5>2
      <4> QED
        BY <2>1, <4>1, <4>2
    <3>3. InLog(files', v, W) = InLog(h, v, W)
      BY <2>1 DEF Worked
    <3> QED
      BY <3>2, <3>3, CopiesAreNat DEF v, W
  <2> QED
    BY <1>6, <2>2, NoMoreCopies DEF Cap
<1>7. ASSUME NEW w \in Writers, CloseWriter(w) \/ LoopEnds(w) \/ Drained(w) \/ Attach(w) PROVE Once'
  BY <1>1, <1>7 DEF CloseWriter, LoopEnds, Drained, Attach
<1>8. CASE Detach \/ Snapshot \/ UNCHANGED logVars
  BY <1>1, <1>8 DEF Detach, Snapshot, logVars
<1> QED
  BY <1>2, <1>3, <1>4, <1>5, <1>6, <1>7, <1>8 DEF LogNext

LEMMA OnceSuffices == Typed /\ Once => RecordOnce
<1> SUFFICES ASSUME Typed, Once, NEW r \in Records PROVE Copies(r) <= 1
  BY DEF RecordOnce
<1>1. Copies(r) <= IF Handed(r) THEN 1 ELSE 0
  BY DEF Once
<1>2. Copies(r) \in Nat
  <2>1. Owner[r] \in Identities /\ RecordWeight(r) \in [Lines -> Nat] /\ OneOf(r) \in [Records -> Nat]
    BY OwnerType, OneOfType, RecordWeightType, WeightsType
  <2>2. files \in FileStates /\ queue \in [Writers -> Seq(Records)]
    BY DEF Typed, Sound
  <2>3. InLog(files, Owner[r], RecordWeight(r)) \in Nat /\ InAll(queue, OneOf(r)) \in Nat
    BY <2>1, <2>2, PartsAreNat, InAllIsNat
  <2> QED
    BY <2>3, CopiesParts
<1> QED
  BY <1>1, <1>2

-----------------------------------------------------------------------------
(* The books of an identity                                                *)

Mine(u)    == Of(OwnedBy(u), Records)
Balance(u) == Recorded(u) + Waiting(u) + Counted(u)

\* What is said of every identity.
Accounted ==
    /\ \A u \in Identities : IsFiniteSet(Sent(u))
    /\ LossIsTraced

LEMMA MineType ==
  ASSUME NEW u \in Identities
  PROVE  Mine(u) \in [Records -> Nat] /\ \A q \in Records : Mine(u)[q] = IF Owner[q] = u THEN 1 ELSE 0
<1>1. Mine(u) \in [Records -> Nat] /\ \A q \in Records : Mine(u)[q] = IF q \in OwnedBy(u) THEN 1 ELSE 0
  BY OfType DEF Mine
<1> QED
  BY <1>1 DEF OwnedBy

\* The books of an identity in three parts.
LEMMA BalanceParts ==
  ASSUME NEW u \in Identities
  PROVE  /\ Balance(u) = InLog(files, u, StandsFor) + InAll(queue, Mine(u)) + GapsOf(gaps, u)
         /\ Balance(u)' = InLog(files', u, StandsFor) + InAll(queue', Mine(u)) + GapsOf(gaps', u)
         /\ OpenGaps(u) = InLog(files, u, OpenWeight)
         /\ OpenGaps(u)' = InLog(files', u, OpenWeight)
<1>1. /\ Balance(u) = InLog(files, u, StandsFor) + InAll(queue, Mine(u)) + GapsOf(gaps, u)
      /\ OpenGaps(u) = InLog(files, u, OpenWeight)
  BY DEF Balance, Recorded, Waiting, Counted, InQueues, InAll, Mine, GapsOf, OpenGaps, OpenWeight
<1>2. /\ Balance(u)' = InLog(files', u, StandsFor) + InAll(queue', Mine(u)) + GapsOf(gaps', u)
      /\ OpenGaps(u)' = InLog(files', u, OpenWeight)
  BY DEF Balance, Recorded, Waiting, Counted, InQueues, InAll, Mine, GapsOf, OpenGaps, OpenWeight
<1> QED
  BY <1>1, <1>2

LEMMA PartsOfNow ==
  ASSUME Typed, NEW u \in Identities
  PROVE  /\ InLog(files, u, StandsFor) \in Nat /\ InAll(queue, Mine(u)) \in Nat
         /\ GapsOf(gaps, u) \in Nat /\ InLog(files, u, OpenWeight) \in Nat
<1>1. /\ files \in FileStates /\ queue \in [Writers -> Seq(Records)]
      /\ gaps \in [Writers -> [Identities -> Nat]]
  BY DEF Typed, Sound
<1>2. Mine(u) \in [Records -> Nat] /\ StandsFor \in [Lines -> Nat] /\ OpenWeight \in [Lines -> Nat]
  BY MineType, StandsForType, OpenWeightType, WeightsType
<1> QED
  BY <1>1, <1>2, PartsAreNat, InAllIsNat, GapsOfIsNat

LEMMA PartsOfNext ==
  ASSUME Typed', NEW u \in Identities
  PROVE  /\ InLog(files', u, StandsFor) \in Nat /\ InAll(queue', Mine(u)) \in Nat
         /\ GapsOf(gaps', u) \in Nat /\ InLog(files', u, OpenWeight) \in Nat
<1>1. /\ files' \in FileStates /\ queue' \in [Writers -> Seq(Records)]
      /\ gaps' \in [Writers -> [Identities -> Nat]]
  BY DEF Typed, Sound
<1>2. Mine(u) \in [Records -> Nat] /\ StandsFor \in [Lines -> Nat] /\ OpenWeight \in [Lines -> Nat]
  BY MineType, StandsForType, OpenWeightType, WeightsType
<1> QED
  BY <1>1, <1>2, PartsAreNat, InAllIsNat, GapsOfIsNat

\* A drop that was noted stays noted: writers keep theirs, and the registry
\* keeps what a snapshot has shown (auditDroppedSticky).
LEMMA DropsStay == Typed /\ [LogNext]_logVars => (Dropped => Dropped')
<1> SUFFICES ASSUME Typed, [LogNext]_logVars, Dropped PROVE Dropped'
  OBVIOUS
<1>1. noted \in [Writers -> BOOLEAN]
  BY DEF Typed
<1>2. ASSUME UNCHANGED noted, sticky => sticky' PROVE Dropped'
  BY <1>2 DEF Dropped
<1>3. ASSUME NEW r \in Records, Begin(r) \/ Finish(r) \/ Submit(r) PROVE Dropped'
  BY <1>2, <1>3 DEF Begin, Finish, Submit
<1>4. ASSUME NEW w \in Writers, NEW X, Work(w, X), UNCHANGED sticky PROVE Dropped'
  <2>1. PICK h : noted' = [noted EXCEPT ![w] = @ \/ h.noted]
    BY <1>4 DEF Work
  <2>2. \A v \in Writers : noted[v] => noted'[v]
    BY <1>1, <2>1
  <2> QED
    BY <1>4, <2>2 DEF Dropped
<1>5. ASSUME NEW w \in Writers, TakeRecord(w) \/ Tick(w) \/ Cap(w) \/ Stop(w) PROVE Dropped'
  <2>1. UNCHANGED sticky /\ \E X : Work(w, X)
    BY <1>5 DEF TakeRecord, Tick, Cap, Stop
  <2> QED
    BY <1>4, <2>1
<1>6. ASSUME NEW w \in Writers, CloseWriter(w) \/ LoopEnds(w) \/ Drained(w) \/ Attach(w) PROVE Dropped'
  BY <1>2, <1>6 DEF CloseWriter, LoopEnds, Drained, Attach
<1>7. CASE Snapshot
  <2>1. UNCHANGED noted /\ (sticky' <=> AuditDropped)
    BY <1>7 DEF Snapshot
  <2>2. sticky => sticky'
    BY <2>1 DEF AuditDropped
  <2> QED
    BY <1>2, <2>1, <2>2
<1>8. CASE Detach \/ UNCHANGED logVars
  BY <1>2, <1>8 DEF Detach, logVars
<1> QED
  BY <1>3, <1>5, <1>6, <1>7, <1>8 DEF LogNext

\* A writer that noted a drop shows it.
LEMMA NoteIsSeen ==
  ASSUME Typed, NEW w \in Writers, NEW h, Worked(w, h), h.noted
  PROVE  Dropped'
BY DEF Worked, Typed, Dropped

\* The books of u after a step: an open gap, or as many more as were sent.
Balanced(u, n) ==
    \/ OpenGaps(u)' > 0
    \/ OpenGaps(u)' = OpenGaps(u) /\ Balance(u)' = Balance(u) + n

Sending(u, n) ==
    /\ IsFiniteSet(Sent(u)')
    /\ Cardinality(Sent(u)') = Cardinality(Sent(u)) + n

\* It is enough that each identity keeps its balance, up to what was sent.
LEMMA BooksKept ==
  ASSUME Typed, Typed', Accounted, [LogNext]_logVars,
         \A u \in Identities : \E n \in Nat : Sending(u, n) /\ (Dropped' \/ Balanced(u, n))
  PROVE  Accounted'
<1>1. \A u \in Identities : IsFiniteSet(Sent(u)')
  BY DEF Sending
<1>2. CASE Dropped'
  BY <1>1, <1>2 DEF Accounted, LossIsTraced
<1>3. CASE ~Dropped'
  <2>1. ~Dropped
    BY <1>3, DropsStay
  <2>2. ASSUME NEW u \in Identities PROVE OpenGaps(u)' > 0 \/ Cardinality(Sent(u)') = Balance(u)'
    <3>1. PICK n \in Nat : Sending(u, n) /\ Balanced(u, n)
      BY <1>3
    <3>2. OpenGaps(u) > 0 \/ Cardinality(Sent(u)) = Balance(u)
      BY <2>1 DEF Accounted, LossIsTraced, Balance
    <3> QED
      BY <3>1, <3>2 DEF Sending, Balanced
  <2>3. (\A u \in Identities : OpenGaps(u) > 0 \/ Cardinality(Sent(u)) = Recorded(u) + Waiting(u) + Counted(u))'
    BY <2>2 DEF Balance
  <2> QED
    BY <1>1, <2>3 DEF Accounted, LossIsTraced
<1> QED
  BY <1>2, <1>3

LEMMA NoneSent ==
  ASSUME Accounted, NEW u \in Identities, \A r \in Records : Handed(r)' = Handed(r)
  PROVE  Sending(u, 0)
<1>1. Sent(u)' = Sent(u)
  BY DEF Sent, OwnedBy, Handed
<1>2. Cardinality(Sent(u)) \in Nat
  BY FS_CardinalityType DEF Accounted
<1> QED
  BY <1>1, <1>2 DEF Sending, Accounted

-----------------------------------------------------------------------------
(* Every step keeps the books                                              *)

\* What a writer's step puts on the books of u.
Posted(u, n) ==
    /\ InLog(files', u, StandsFor) = InLog(files, u, StandsFor) + n
    /\ InLog(files', u, OpenWeight) = InLog(files, u, OpenWeight)

LEMMA TracedPosts ==
  ASSUME Typed, Typed', NEW w \in Writers, NEW h, Worked(w, h), ~Dropped',
         NEW u \in Identities, NEW n \in Nat,
         Traced(files, h, u, StandsFor, n), Traced(files, h, u, OpenWeight, 0)
  PROVE  Posted(u, n)
<1>1. ~h.noted
  BY NoteIsSeen
<1>2. /\ InLog(h, u, StandsFor) = InLog(files, u, StandsFor) + n
      /\ InLog(h, u, OpenWeight) = InLog(files, u, OpenWeight) + 0
  BY <1>1 DEF Traced
<1>3. /\ InLog(files', u, StandsFor) = InLog(h, u, StandsFor)
      /\ InLog(files', u, OpenWeight) = InLog(h, u, OpenWeight)
  BY DEF Worked
<1>4. InLog(files, u, OpenWeight) \in Nat
  BY PartsOfNow
<1> QED
  BY <1>2, <1>3, <1>4 DEF Posted

\* The books from their three parts.
LEMMA BooksAddUp ==
  ASSUME Typed, Typed', NEW u \in Identities, NEW n \in Nat, NEW k \in Nat, Posted(u, k),
         InAll(queue', Mine(u)) + GapsOf(gaps', u) + k = InAll(queue, Mine(u)) + GapsOf(gaps, u) + n
  PROVE  Balanced(u, n)
<1> DEFINE a == InLog(files, u, StandsFor)
           b == InAll(queue, Mine(u))
           c == GapsOf(gaps, u)
           x == InLog(files', u, StandsFor)
           y == InAll(queue', Mine(u))
           z == GapsOf(gaps', u)
<1>1. /\ a \in Nat /\ b \in Nat /\ c \in Nat /\ x \in Nat /\ y \in Nat /\ z \in Nat
      /\ x = a + k /\ y + z + k = b + c + n
  BY PartsOfNow, PartsOfNext DEF Posted
<1>2. Balance(u) = a + b + c /\ Balance(u)' = x + y + z
  BY BalanceParts
<1>3. OpenGaps(u)' = OpenGaps(u)
  BY BalanceParts DEF Posted
<1> HIDE DEF a, b, c, x, y, z
<1>4. Balance(u)' = Balance(u) + n
  BY <1>1, <1>2
<1> QED
  BY <1>3, <1>4 DEF Balanced

LEMMA NothingPosted ==
  ASSUME Typed, NEW u \in Identities, UNCHANGED files
  PROVE  Posted(u, 0)
BY PartsOfNow DEF Posted

\* A step that hands nothing over and keeps the books.
LEMMA QuietStep ==
  ASSUME Typed, Typed', Accounted, [LogNext]_logVars,
         \A r \in Records : Handed(r)' = Handed(r),
         ~Dropped' => \A u \in Identities : Balanced(u, 0)
  PROVE  Accounted'
<1>1. \A u \in Identities : Sending(u, 0) /\ (Dropped' \/ Balanced(u, 0))
  BY NoneSent
<1> QED
  BY <1>1, BooksKept

LEMMA StillStep ==
  ASSUME Typed, Typed', Accounted, [LogNext]_logVars,
         \A r \in Records : Handed(r)' = Handed(r), UNCHANGED <<queue, gaps, files>>
  PROVE  Accounted'
<1>1. ASSUME NEW u \in Identities PROVE Balanced(u, 0)
  <2>1. /\ InAll(queue', Mine(u)) = InAll(queue, Mine(u)) /\ InAll(queue, Mine(u)) \in Nat
        /\ GapsOf(gaps', u) = GapsOf(gaps, u) /\ GapsOf(gaps, u) \in Nat
    BY PartsOfNow
  <2>2. Posted(u, 0)
    BY NothingPosted
  <2> QED
    BY <2>1, <2>2, BooksAddUp
<1> QED
  BY <1>1, QuietStep

\* What is sent is in a queue, or counted when the queue is full.
LEMMA SubmitAccounts ==
  ASSUME Typed, Typed', Accounted, [LogNext]_logVars, NEW q \in Records, Submit(q)
  PROVE  Accounted'
<1>0. /\ queue \in [Writers -> Seq(Records)] /\ gaps \in [Writers -> [Identities -> Nat]]
      /\ connState \in [Records -> ConnStates]
  BY DEF Typed
<1>1. PICK w \in Writers : w = connState[q].writer
  BY DEF Submit, Typed
<1>2. /\ UNCHANGED files /\ ~Handed(q) /\ Handed(q)'
      /\ \A r \in Records \ {q} : Handed(r)' = Handed(r)
  BY <1>0 DEF Submit, Handed
<1>3. \/ UNCHANGED gaps /\ queue' = [queue EXCEPT ![w] = Append(@, q)]
      \/ UNCHANGED queue /\ gaps' = [gaps EXCEPT ![w][Owner[q]] = @ + 1]
  BY <1>1 DEF Submit
<1>4. ASSUME NEW u \in Identities
      PROVE  \E n \in Nat : Sending(u, n) /\ (Dropped' \/ Balanced(u, n))
  <2> DEFINE n == IF Owner[q] = u THEN 1 ELSE 0
  <2>1. n \in Nat /\ Posted(u, 0)
    BY <1>2, NothingPosted
  <2>2. Sending(u, n)
    <3>1. IsFiniteSet(Sent(u))
      BY DEF Accounted
    <3>2. CASE Owner[q] = u
      <4>1. Sent(u)' = Sent(u) \cup {q} /\ q \notin Sent(u)
        BY <1>2, <3>2 DEF Sent, OwnedBy, Handed
      <4> QED
        BY <3>1, <3>2, <4>1, FS_AddElement DEF Sending
    <3>3. CASE Owner[q] # u
      <4>1. Sent(u)' = Sent(u)
        BY <1>2, <3>3 DEF Sent, OwnedBy, Handed
      <4>2. Cardinality(Sent(u)) \in Nat
        BY <3>1, FS_CardinalityType
      <4> QED
        BY <3>1, <3>3, <4>1, <4>2 DEF Sending
    <3> QED
      BY <3>2, <3>3
  <2>3. InAll(queue', Mine(u)) + GapsOf(gaps', u) = InAll(queue, Mine(u)) + GapsOf(gaps, u) + n
    <3> DEFINE a == InAll(queue, Mine(u))
               b == GapsOf(gaps, u)
    <3>1. a \in Nat /\ b \in Nat /\ GapsOf(gaps', u) \in Nat
      BY PartsOfNow, PartsOfNext
    <3>2. CASE UNCHANGED gaps /\ queue' = [queue EXCEPT ![w] = Append(@, q)]
      <4>1. Mine(u) \in [Records -> Nat] /\ Mine(u)[q] = n
        BY MineType
      <4>2. InAll([queue EXCEPT ![w] = Append(@, q)], Mine(u)) = a + n
        <5>1. InAll([queue EXCEPT ![w] = Append(@, q)], Mine(u)) = InAll(queue, Mine(u)) + Mine(u)[q]
          BY <1>0, <4>1, InAllAppended
        <5> QED
          BY <4>1, <5>1
      <4>3. InAll(queue', Mine(u)) = a + n /\ GapsOf(gaps', u) = b
        BY <3>2, <4>2
      <4> HIDE DEF a, b, n
      <4> QED
        BY <2>1, <3>1, <4>3 DEF a, b
    <3>3. CASE UNCHANGED queue /\ gaps' = [gaps EXCEPT ![w][Owner[q]] = @ + 1]
      <4> DEFINE g == [gaps[w] EXCEPT ![Owner[q]] = @ + 1]
                 c == GapsOf(gaps', u)
      <4>1. g \in [Identities -> Nat] /\ g[u] = gaps[w][u] + n /\ gaps[w][u] \in Nat
        BY <1>0, OwnerType
      <4>2. gaps' = [gaps EXCEPT ![w] = g]
        BY <3>3
      <4> HIDE DEF g
      <4>3. GapsOf([gaps EXCEPT ![w] = g], u) + gaps[w][u] = b + g[u]
        BY <1>0, <4>1, GapsOfChanged
      <4>4. c + gaps[w][u] = b + (gaps[w][u] + n)
        BY <4>1, <4>2, <4>3
      <4>5. InAll(queue', Mine(u)) = a
        BY <3>3
      <4> DEFINE x == InAll(queue', Mine(u))
                 y == gaps[w][u]
      <4>6. x = a /\ c + y = b + (y + n) /\ y \in Nat /\ c \in Nat
        BY <3>1, <4>1, <4>4, <4>5
      <4> HIDE DEF a, b, c, n, x, y
      <4>7. x + c = a + b + n
        BY <2>1, <3>1, <4>6
      <4> QED
        BY <4>7 DEF a, b, c, x
    <3> QED
      BY <1>3, <3>2, <3>3
  <2> HIDE DEF n
  <2>4. Balanced(u, n)
    <3>1. InAll(queue', Mine(u)) \in Nat /\ GapsOf(gaps', u) \in Nat
      BY PartsOfNext
    <3>2. InAll(queue', Mine(u)) + GapsOf(gaps', u) + 0 = InAll(queue, Mine(u)) + GapsOf(gaps, u) + n
      BY <2>3, <3>1
    <3> QED
      BY <2>1, <3>2, BooksAddUp
  <2> QED
    BY <2>1, <2>2, <2>4
<1> QED
  BY <1>4, BooksKept

\* What leaves a queue reaches the log, or a drop is noted.
LEMMA TakeRecordAccounts ==
  ASSUME Typed, Typed', Accounted, [LogNext]_logVars, NEW w \in Writers, TakeRecord(w)
  PROVE  Accounted'
<1> DEFINE q == Head(queue[w])
<1>0. queue \in [Writers -> Seq(Records)]
  BY DEF Typed
<1>1. /\ queue' = [queue EXCEPT ![w] = Tail(@)] /\ UNCHANGED <<connState, gaps>> /\ queue[w] # <<>>
      /\ q \in Records /\ Owner[q] \in Identities
  BY TakenRecord DEF TakeRecord
<1>2. PICK h : Worked(w, h) /\ Written(files, h, Owner[q], Record(q))
  BY TakenRecord
<1>3. \A r \in Records : Handed(r)' = Handed(r)
  BY <1>1 DEF Handed
<1>4. ASSUME NEW u \in Identities, ~Dropped' PROVE Balanced(u, 0)
  <2> DEFINE n == IF Owner[q] = u THEN 1 ELSE 0
  <2>1. n \in Nat
    OBVIOUS
  <2>2. Mine(u) \in [Records -> Nat] /\ Mine(u)[q] = n
    BY <1>1, MineType
  <2>3. InAll(queue, Mine(u)) = InAll([queue EXCEPT ![w] = Tail(@)], Mine(u)) + Mine(u)[Head(queue[w])]
    BY <1>0, <1>1, <2>2, InAllTaken
  <2>4. InAll(queue, Mine(u)) = InAll(queue', Mine(u)) + n
    BY <1>1, <2>2, <2>3
  <2>5. Traced(files, h, u, StandsFor, n) /\ Traced(files, h, u, OpenWeight, 0)
    <3>1. /\ StandsFor \in Weights /\ StandsFor[Record(q)] = 1
          /\ OpenWeight \in Weights /\ OpenWeight[Record(q)] = 0
      BY <1>1, StandsForType, OpenWeightType
    <3>2. /\ Traced(files, h, u, StandsFor, IF u = Owner[q] THEN StandsFor[Record(q)] ELSE 0)
          /\ Traced(files, h, u, OpenWeight, IF u = Owner[q] THEN OpenWeight[Record(q)] ELSE 0)
      BY <1>2, <3>1 DEF Written
    <3> QED
      BY <3>1, <3>2
  <2> HIDE DEF n, q
  <2>6. Posted(u, n)
    BY <1>2, <1>4, <2>1, <2>5, TracedPosts
  <2>7. InAll(queue', Mine(u)) + GapsOf(gaps', u) + n = InAll(queue, Mine(u)) + GapsOf(gaps, u) + 0
    <3> DEFINE a == InAll(queue, Mine(u))
               b == GapsOf(gaps, u)
               c == InAll(queue', Mine(u))
               d == GapsOf(gaps', u)
    <3>1. a \in Nat /\ b \in Nat /\ c \in Nat /\ d = b /\ a = c + n
      BY <1>1, <2>4, PartsOfNow, PartsOfNext
    <3> HIDE DEF a, b, c, d
    <3>2. c + d + n = a + b + 0
      BY <2>1, <3>1
    <3> QED
      BY <3>2 DEF a, b, c, d
  <2> QED
    BY <2>1, <2>6, <2>7, BooksAddUp
<1> QED
  BY <1>3, <1>4, QuietStep

\* What leaves the counts reaches the log as a gap line, or a drop is noted.
LEMMA GapsAccount ==
  ASSUME Typed, Typed', Accounted, [LogNext]_logVars, NEW w \in Writers, Tick(w) \/ Stop(w)
  PROVE  Accounted'
<1>0. gaps \in [Writers -> [Identities -> Nat]] /\ NoGaps \in [Identities -> Nat]
  BY DEF Typed, NoGaps
<1>1. gaps' = [gaps EXCEPT ![w] = NoGaps] /\ UNCHANGED <<connState, queue>>
  BY DEF Tick, Stop
<1>2. PICK h : /\ Worked(w, h)
               /\ \A v \in Identities, W \in Weights : Traced(files, h, v, W, GapWeight(gaps[w][v], W))
  BY Ticked, Stopped
<1>3. \A r \in Records : Handed(r)' = Handed(r)
  BY <1>1 DEF Handed
<1>4. ASSUME NEW u \in Identities, ~Dropped' PROVE Balanced(u, 0)
  <2> DEFINE n == gaps[w][u]
  <2>1. n \in Nat
    BY <1>0
  <2>2. GapsOf([gaps EXCEPT ![w] = NoGaps], u) + gaps[w][u] = GapsOf(gaps, u) + NoGaps[u]
    BY <1>0, GapsOfChanged
  <2>3. GapsOf(gaps', u) + n = GapsOf(gaps, u) + 0
    BY <1>1, <2>2 DEF NoGaps
  <2>4. Traced(files, h, u, StandsFor, n) /\ Traced(files, h, u, OpenWeight, 0)
    <3>1. StandsFor \in Weights /\ OpenWeight \in Weights
      BY StandsForType, OpenWeightType
    <3>2. /\ Traced(files, h, u, StandsFor, GapWeight(gaps[w][u], StandsFor))
          /\ Traced(files, h, u, OpenWeight, GapWeight(gaps[w][u], OpenWeight))
      BY <1>2, <3>1
    <3>3. GapWeight(gaps[w][u], StandsFor) = gaps[w][u] /\ GapWeight(gaps[w][u], OpenWeight) = 0
      BY <2>1, GapWeights
    <3> QED
      BY <3>2, <3>3
  <2>5. GapsOf(gaps', u) \in Nat /\ GapsOf(gaps, u) \in Nat /\ InAll(queue, Mine(u)) \in Nat
        /\ InAll(queue', Mine(u)) = InAll(queue, Mine(u))
    BY <1>1, PartsOfNow, PartsOfNext
  <2> HIDE DEF n
  <2>6. Posted(u, n)
    BY <1>2, <1>4, <2>1, <2>4, TracedPosts
  <2>7. InAll(queue', Mine(u)) + GapsOf(gaps', u) + n = InAll(queue, Mine(u)) + GapsOf(gaps, u) + 0
    <3> DEFINE a == InAll(queue, Mine(u))
               b == GapsOf(gaps, u)
               c == InAll(queue', Mine(u))
               d == GapsOf(gaps', u)
    <3>1. a \in Nat /\ b \in Nat /\ c = a /\ d \in Nat /\ d + n = b + 0
      BY <2>3, <2>5
    <3> HIDE DEF a, b, c, d
    <3>2. c + d + n = a + b + 0
      BY <2>1, <3>1
    <3> QED
      BY <3>2 DEF a, b, c, d
  <2> QED
    BY <2>1, <2>6, <2>7, BooksAddUp
<1> QED
  BY <1>3, <1>4, QuietStep

\* What the cap removes is covered by an open gap of the same identity.
LEMMA CapAccounts ==
  ASSUME Typed, Typed', Accounted, [LogNext]_logVars, NEW w \in Writers, Cap(w)
  PROVE  Accounted'
<1>1. UNCHANGED <<connState, queue, gaps>>
  BY DEF Cap
<1>2. PICK h : Worked(w, h) /\ (Kept(files, h) \/ \E u \in Identities : Removed(files, h, u))
  BY Capped
<1>3. \A r \in Records : Handed(r)' = Handed(r)
  BY <1>1 DEF Handed
<1>4. StandsFor \in Weights /\ OpenWeight \in Weights /\ OpenWeight[Gap(Nil)] = 1
  BY StandsForType, OpenWeightType
<1>5. ASSUME NEW u \in Identities, ~Dropped',
             Traced(files, h, u, StandsFor, 0), Traced(files, h, u, OpenWeight, 0)
      PROVE  Balanced(u, 0)
  <2>1. Posted(u, 0)
    BY <1>2, <1>5, TracedPosts
  <2>2. /\ InAll(queue', Mine(u)) = InAll(queue, Mine(u)) /\ InAll(queue, Mine(u)) \in Nat
        /\ GapsOf(gaps', u) = GapsOf(gaps, u) /\ GapsOf(gaps, u) \in Nat
    BY <1>1, PartsOfNow
  <2> QED
    BY <2>1, <2>2, BooksAddUp
<1>6. ASSUME NEW u \in Identities, ~Dropped', Removed(files, h, u) PROVE Balanced(u, 0)
  <2>1. ~h.noted
    BY <1>2, <1>6, NoteIsSeen
  <2>2. InLog(h, u, OpenWeight) >= 1
    BY <1>4, <1>6, <2>1 DEF Removed
  <2>3. OpenGaps(u)' = InLog(h, u, OpenWeight)
    BY <1>2, BalanceParts DEF Worked
  <2>4. OpenGaps(u)' \in Nat
    BY BalanceParts, PartsOfNext
  <2> QED
    BY <2>2, <2>3, <2>4 DEF Balanced
<1>7. ASSUME NEW u \in Identities, ~Dropped' PROVE Balanced(u, 0)
  <2>1. CASE Kept(files, h)
    BY <1>4, <1>5, <1>7, <2>1 DEF Kept
  <2>2. ASSUME NEW v \in Identities, Removed(files, h, v) PROVE Balanced(u, 0)
    <3>1. CASE u = v
      BY <1>6, <1>7, <2>2, <3>1
    <3>2. CASE u # v
      <4>1. Traced(files, h, u, StandsFor, 0) /\ Traced(files, h, u, OpenWeight, 0)
        BY <1>4, <2>2, <3>2 DEF Removed
      <4> QED
        BY <1>5, <1>7, <4>1
    <3> QED
      BY <3>1, <3>2
  <2> QED
    BY <1>2, <2>1, <2>2
<1> QED
  BY <1>3, <1>7, QuietStep

LEMMA AccountedStep == Typed /\ Typed' /\ Accounted /\ [LogNext]_logVars => Accounted'
<1> SUFFICES ASSUME Typed, Typed', Accounted, [LogNext]_logVars PROVE Accounted'
  OBVIOUS
<1>0. connState \in [Records -> ConnStates]
  BY DEF Typed
<1>1. ASSUME UNCHANGED <<connState, queue, gaps, files>> PROVE Accounted'
  <2>1. \A r \in Records : Handed(r)' = Handed(r)
    BY <1>1 DEF Handed
  <2> QED
    BY <1>1, <2>1, StillStep
<1>2. ASSUME NEW q \in Records, Begin(q) \/ Finish(q) PROVE Accounted'
  <2>1. UNCHANGED <<queue, gaps, files>>
    BY <1>2 DEF Begin, Finish
  <2>2. ~Handed(q)
    BY <1>2 DEF Begin, Finish, Handed
  <2>3. \E c : connState' = [connState EXCEPT ![q] = c] /\ c.pc \in {"unaudited", "live", "refused", "submit"}
    <3>1. CASE Begin(q)
      <4> DEFINE c == [pc |-> IF attached = Nil THEN "unaudited" ELSE "live", writer |-> attached]
      <4>1. connState' = [connState EXCEPT ![q] = c]
        BY <3>1 DEF Begin
      <4>2. c.pc \in {"unaudited", "live"}
        OBVIOUS
      <4> HIDE DEF c
      <4> QED
        BY <4>1, <4>2
    <3>2. CASE Finish(q)
      <4> DEFINE p == IF Closed(connState[q].writer) THEN "refused" ELSE "submit"
                 c == [connState[q] EXCEPT !.pc = p]
      <4>1. connState' = [connState EXCEPT ![q] = c]
        BY <3>2 DEF Finish
      <4>2. c.pc = p
        BY <1>0 DEF ConnStates
      <4> HIDE DEF c
      <4> QED
        BY <4>1, <4>2
    <3> QED
      BY <1>2, <3>1, <3>2
  <2>4. ~Handed(q)' /\ \A r \in Records \ {q} : connState'[r] = connState[r]
    <3>1. PICK c : connState' = [connState EXCEPT ![q] = c] /\ c.pc \in {"unaudited", "live", "refused", "submit"}
      BY <2>3
    <3> QED
      BY <1>0, <3>1 DEF Handed
  <2>5. ASSUME NEW r \in Records PROVE Handed(r)' = Handed(r)
    <3>1. CASE r = q
      BY <2>2, <2>4, <3>1 DEF Handed
    <3>2. CASE r # q
      BY <2>4, <3>2 DEF Handed
    <3> QED
      BY <3>1, <3>2
  <2> QED
    BY <2>1, <2>5, StillStep
<1>3. ASSUME NEW q \in Records, Submit(q) PROVE Accounted'
  BY <1>3, SubmitAccounts
<1>4. ASSUME NEW w \in Writers, TakeRecord(w) \/ Tick(w) \/ Cap(w) \/ Stop(w) PROVE Accounted'
  BY <1>4, TakeRecordAccounts, GapsAccount, CapAccounts
<1>5. ASSUME NEW w \in Writers, CloseWriter(w) \/ LoopEnds(w) \/ Drained(w) \/ Attach(w) PROVE Accounted'
  BY <1>1, <1>5 DEF CloseWriter, LoopEnds, Drained, Attach
<1>6. CASE Detach \/ Snapshot \/ UNCHANGED logVars
  BY <1>1, <1>6 DEF Detach, Snapshot, logVars
<1> QED
  BY <1>2, <1>3, <1>4, <1>5, <1>6 DEF LogNext

-----------------------------------------------------------------------------
(* The initial state                                                       *)

Weightless(s, W) == \A n \in 1..Len(s) : W[s[n]] = 0

\* Members without weight amount to nothing.
LEMMA AmountOfWeightless ==
  ASSUME NEW D, NEW s \in Seq(D), NEW W \in [D -> Nat], Weightless(s, W)
  PROVE  Amount(s, W) = 0
<1>1. PICK g : Totals(s, W, g) /\ Amount(s, W) = g[Len(s)]
  BY AmountUnfolds
<1>2. Len(s) \in Nat
  BY LenProperties
<1> DEFINE Zero == {n \in Nat : n <= Len(s) => g[n] = 0}
<1>3. 0 \in Zero
  BY <1>1 DEF Totals
<1>4. ASSUME NEW n \in Nat, n \in Zero PROVE n + 1 \in Zero
  <2>1. SUFFICES ASSUME n + 1 <= Len(s) PROVE g[n + 1] = 0
    OBVIOUS
  <2>2. n + 1 \in 1..Len(s) /\ (n + 1) - 1 = n
    BY <1>2, <2>1
  <2>3. g[n + 1] = g[n] + W[s[n + 1]]
    BY <1>1, <2>2 DEF Totals
  <2> QED
    BY <1>2, <1>4, <2>1, <2>2, <2>3 DEF Weightless
<1>5. Len(s) \in Zero
  <2> HIDE DEF Zero
  <2> QED
    BY <1>2, <1>3, <1>4, SetInduction
<1> QED
  BY <1>1, <1>5

LEMMA NoLines ==
  ASSUME LogInit, NEW u \in Identities, NEW W \in [Lines -> Nat]
  PROVE  InLog(files, u, W) = 0
<1>1. files.rotated = <<>> /\ files.disk[u] = <<>> /\ files.buffer[u] = <<>>
  BY DEF LogInit
<1>2. Past(files, u, W) = 0
  <2> DEFINE p == [o \in Rotated |-> IF o.user = u THEN Amount(o.lines, W) ELSE 0]
  <2>1. p \in [Rotated -> Nat]
    BY PastWeight
  <2> HIDE DEF p
  <2>2. Amount(<<>>, p) = 0
    BY <2>1, AmountOfNone
  <2> QED
    BY <1>1, <2>2 DEF p, Past
<1>3. Amount(<<>>, W) = 0
  BY AmountOfNone
<1>4. InLog(files, u, W) = (Past(files, u, W) + Amount(files.disk[u], W)) + Amount(files.buffer[u], W)
  BY DEF InLog, Past
<1> QED
  BY <1>1, <1>2, <1>3, <1>4

LEMMA NoQueues ==
  ASSUME LogInit, NEW W \in [Records -> Nat]
  PROVE  InAll(queue, W) = 0
<1> DEFINE p == [q \in Seq(Records) |-> Amount(q, W)]
<1>1. p \in [Seq(Records) -> Nat]
  BY QueueWeight
<1>2. p[<<>>] = 0
  BY EmptySeq, AmountOfNone
<1>3. queue \in [Writers -> Seq(Records)] /\ \A w \in Writers : queue[w] = <<>>
  BY EmptySeq DEF LogInit
<1>4. queue \in Seq(Seq(Records)) /\ 1..Len(queue) = Writers
  BY <1>3, WritersSeq
<1> HIDE DEF p
<1>5. Weightless(queue, p)
  BY <1>2, <1>3, <1>4 DEF Weightless
<1>6. Amount(queue, p) = 0
  BY <1>1, <1>4, <1>5, AmountOfWeightless
<1> QED
  BY <1>6 DEF InAll, p

LEMMA NoCounts ==
  ASSUME LogInit, NEW u \in Identities
  PROVE  GapsOf(gaps, u) = 0
<1> DEFINE p == [g \in [Identities -> Nat] |-> g[u]]
<1>1. p \in [[Identities -> Nat] -> Nat]
  OBVIOUS
<1>2. gaps \in [Writers -> [Identities -> Nat]] /\ \A w \in Writers : p[gaps[w]] = 0
  BY DEF LogInit, NoGaps
<1>3. gaps \in Seq([Identities -> Nat]) /\ 1..Len(gaps) = Writers
  BY <1>2, WritersSeq
<1> HIDE DEF p
<1>4. Weightless(gaps, p)
  BY <1>2, <1>3 DEF Weightless
<1>5. Amount(gaps, p) = 0
  BY <1>1, <1>3, <1>4, AmountOfWeightless
<1> QED
  BY <1>5 DEF GapsOf, p

LEMMA InitTyped == LogInit => Typed
<1> SUFFICES ASSUME LogInit PROVE Typed
  OBVIOUS
<1>1. connState \in [Records -> ConnStates] /\ \A r \in Records : connState[r].pc = "new"
  BY DEF LogInit, ConnStates, Pcs
<1>2. \A u \in Identities : files.buffer[u] = <<>>
  BY DEF LogInit
<1>3. files \in FileStates /\ ~files.noted /\ files.open = <<>> /\ files.broken = {} /\ files.faults = 0
  <2>1. <<>> \in Seq(Identities) /\ <<>> \in Seq(Lines) /\ <<>> \in Seq(Rotated)
    BY EmptySeq
  <2> QED
    BY <2>1 DEF LogInit, FileStates
<1>4. Len(<<>>) = 0 /\ BufferLines \in Nat /\ MaxOpenFiles \in Nat /\ QueueSize \in Nat /\ MaxFaults \in Nat
  BY AuditAssumption, EmptySeq
<1>5. Sound(files)
  BY <1>2, <1>3, <1>4 DEF Sound
<1>6. queue \in [Writers -> Seq(Records)] /\ \A w \in Writers : Len(queue[w]) <= QueueSize
  BY <1>4, EmptySeq DEF LogInit
<1>7. /\ attached \in Writers \cup {Nil} /\ sticky \in BOOLEAN /\ phase \in [Writers -> Phases]
      /\ gaps \in [Writers -> [Identities -> Nat]] /\ noted \in [Writers -> BOOLEAN]
  BY DEF LogInit, Phases, NoGaps
<1> QED
  BY <1>1, <1>3, <1>5, <1>6, <1>7 DEF Typed

LEMMA InitParts == LogInit => Phased /\ Emptied /\ Once /\ Accounted
<1> SUFFICES ASSUME LogInit PROVE Phased /\ Emptied /\ Once /\ Accounted
  OBVIOUS
<1>1. Typed
  BY InitTyped
<1>2. Phased
  BY DEF LogInit, Phased
<1>3. Emptied
  BY DEF LogInit, Emptied
<1>4. ASSUME NEW r \in Records PROVE Copies(r) = 0
  <2>1. Owner[r] \in Identities /\ RecordWeight(r) \in [Lines -> Nat] /\ OneOf(r) \in [Records -> Nat]
    BY OwnerType, RecordWeightType, OneOfType, WeightsType
  <2>2. InLog(files, Owner[r], RecordWeight(r)) = 0 /\ InAll(queue, OneOf(r)) = 0
    BY <2>1, NoLines, NoQueues
  <2> QED
    BY <2>2, CopiesParts
<1>5. Once
  BY <1>4 DEF Once
<1>6. ASSUME NEW u \in Identities PROVE Sent(u) = {} /\ Balance(u) = 0
  <2>1. Sent(u) = {}
    BY DEF LogInit, Sent, OwnedBy
  <2>2. StandsFor \in [Lines -> Nat] /\ Mine(u) \in [Records -> Nat]
    BY StandsForType, MineType, WeightsType
  <2>3. InLog(files, u, StandsFor) = 0 /\ InAll(queue, Mine(u)) = 0 /\ GapsOf(gaps, u) = 0
    BY <2>2, NoLines, NoQueues, NoCounts
  <2> QED
    BY <2>1, <2>3, BalanceParts
<1>7. Accounted
  BY <1>6, FS_EmptySet DEF Accounted, LossIsTraced, Balance
<1> QED
  BY <1>2, <1>3, <1>5, <1>7

LEMMA TypedSuffices == Typed => LogTypeOK
<1> SUFFICES ASSUME Typed PROVE LogTypeOK
  OBVIOUS
<1>1. files \in FileStates /\ Sound(files)
  BY DEF Typed, Sound
<1>2. ASSUME NEW u \in Identities PROVE ToSet(files.buffer[u]) \cup ToSet(files.disk[u]) \subseteq Lines
  <2>1. files.buffer[u] \in Seq(Lines) /\ files.disk[u] \in Seq(Lines)
    BY <1>1, Fields
  <2> QED
    BY <2>1, ToSetType
<1>3. ASSUME NEW w \in Writers PROVE Len(queue[w]) <= QueueSize /\ ToSet(queue[w]) \subseteq Records
  <2>1. queue[w] \in Seq(Records)
    BY DEF Typed
  <2> QED
    BY <2>1, ToSetType DEF Typed
<1> QED
  BY <1>1, <1>2, <1>3 DEF Typed, Sound, LogTypeOK, ConnStates, Pcs

-----------------------------------------------------------------------------
(* The theorems *)

LogInv == Typed /\ Phased /\ Emptied /\ Once /\ Accounted

\* The inductive invariant of the access log: types, the order of the writers,
\* what ended writers hold, copies and books (auditWriter, connState).
THEOREM LogInvariant == LogSpec => []LogInv
<1>1. LogInit => LogInv
  BY InitTyped, InitParts DEF LogInv
<1>2. LogInv /\ [LogNext]_logVars => LogInv'
  BY TypedStep, PhasedStep, EmptiedStep, OnceStep, AccountedStep DEF LogInv
<1> QED
  BY <1>1, <1>2, PTL DEF LogSpec

\* Types: no queue passes queue_size, no more than max_open_files are open, only
\* open files have a buffer, and none passes its bound (auditWriter, fileFor).
THEOREM LogTypes == LogSpec => []LogTypeOK
<1>1. LogInv => LogTypeOK
  BY TypedSuffices DEF LogInv
<1> QED
  BY <1>1, LogInvariant, PTL

\* A record is at most once in the files or in a queue, although every copy loop
\* calls Close and a flush may fail halfway (finish, submit, flush).
THEOREM RecordsOnce == LogSpec => []RecordOnce
<1>1. LogInv => RecordOnce
  BY OnceSuffices DEF LogInv
<1> QED
  BY <1>1, LogInvariant, PTL

\* What was handed to a writer in time is written, waiting, counted, or under an
\* open gap, or a drop was noted, whatever fails (submit, loop, Close, noteDropped).
THEOREM LossesTraced == LogSpec => []LossIsTraced
<1>1. LogInv => LossIsTraced
  BY DEF LogInv, Accounted
<1> QED
  BY <1>1, LogInvariant, PTL

\* A writer that has ended left nothing but what came late, and no buffer (Close).
THEOREM ClosesKeep == LogSpec => []CloseKeepsAll
<1>1. LogInv => CloseKeepsAll
  BY EmptiedCloses DEF LogInv
<1> QED
  BY <1>1, LogInvariant, PTL

=============================================================================
