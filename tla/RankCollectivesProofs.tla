----------------------- MODULE RankCollectivesProofs -----------------------
(* Proofs about the collectives of the rank core: the parts of              *)
(* balanced_ranges tile a buffer, and the channel threads of every program, *)
(* for every number of ranks, tuning, length and matrix of counts, never    *)
(* touch each other's cells, whatever fails.                                *)
EXTENDS RankCollectives, WellFoundedInduction, TLAPS

(* Position x of the buffer is in part p.                                   *)
InPart(length, partitions, p, x) ==
  /\ BalancedStart(length, partitions, p) <= x
  /\ x < BalancedStart(length, partitions, p) + BalancedLength(length, partitions, p)

(* A set of numbers that is not empty has a smallest element.               *)
LEMMA LeastElement ==
  ASSUME NEW S \in SUBSET Nat, S # {}
  PROVE  \E x \in S : \A y \in S : x <= y
<1> DEFINE R == {ss \in Nat \X Nat : ss[1] < ss[2]}
<1>1. IsWellFoundedOn(R, Nat)
  <2>1. OpToRel(<, Nat) = R
    BY DEF OpToRel
  <2> QED
    BY <2>1, NatLessThanWellFounded
<1>2. PICK x \in S : \A y \in S : ~(<<y, x>> \in R)
  <2> HIDE DEF R
  <2> QED
    BY <1>1, WFMin
<1>3. ASSUME NEW y \in S PROVE x <= y
  <2>1. y \in Nat /\ x \in Nat
    OBVIOUS
  <2>2. ~(y < x)
    BY <1>2, <2>1, Zenon
  <2> QED
    BY <2>1, <2>2
<1> QED
  BY <1>3

(* Quotient and remainder.                                                  *)
LEMMA Division ==
  ASSUME NEW length \in Nat, NEW partitions \in Nat \ {0}
  PROVE  /\ length \div partitions \in Nat /\ length % partitions \in Nat
         /\ length % partitions < partitions
         /\ length = partitions * (length \div partitions) + (length % partitions)
OBVIOUS

(* A part starts where the one before it ends, the first at 0, and the last *)
(* one ends with the buffer.                                                *)
LEMMA PartsAdjacent ==
  ASSUME NEW length \in Nat, NEW partitions \in Nat \ {0}
  PROVE  /\ BalancedStart(length, partitions, 0) = 0
         /\ BalancedStart(length, partitions, partitions) = length
         /\ \A p \in Nat :
              /\ BalancedStart(length, partitions, p) \in Nat
              /\ BalancedLength(length, partitions, p) \in Nat
              /\ BalancedStart(length, partitions, p + 1)
                   = BalancedStart(length, partitions, p) + BalancedLength(length, partitions, p)
<1> DEFINE base == length \div partitions
           rem == length % partitions
<1>1. /\ base \in Nat /\ rem \in Nat /\ rem < partitions
      /\ length = partitions * base + rem
  BY Division
<1>2. \A p : /\ BalancedStart(length, partitions, p) = p * base + Smaller(p, rem)
             /\ BalancedLength(length, partitions, p) = base + (IF p < rem THEN 1 ELSE 0)
  BY DEF BalancedStart, BalancedLength
<1> HIDE DEF base, rem
<1>3. BalancedStart(length, partitions, 0) = 0
  BY <1>1, <1>2 DEF Smaller
<1>4. BalancedStart(length, partitions, partitions) = length
  BY <1>1, <1>2 DEF Smaller
<1>5. ASSUME NEW p \in Nat
      PROVE  /\ BalancedStart(length, partitions, p) \in Nat
             /\ BalancedLength(length, partitions, p) \in Nat
             /\ BalancedStart(length, partitions, p + 1)
                  = BalancedStart(length, partitions, p) + BalancedLength(length, partitions, p)
  <2>1. p * base \in Nat /\ (p + 1) * base = p * base + base
    BY <1>1
  <2>2. Smaller(p + 1, rem) = Smaller(p, rem) + (IF p < rem THEN 1 ELSE 0) /\ Smaller(p, rem) \in Nat
    BY <1>1 DEF Smaller
  <2> QED
    BY <1>1, <1>2, <2>1, <2>2
<1> QED
  BY <1>3, <1>4, <1>5

(* A later part starts after the end of an earlier one.                     *)
LEMMA PartsOrdered ==
  ASSUME NEW length \in Nat, NEW partitions \in Nat \ {0}, NEW p \in Nat, NEW q \in Nat, p < q
  PROVE  BalancedStart(length, partitions, p) + BalancedLength(length, partitions, p)
           <= BalancedStart(length, partitions, q)
<1> DEFINE base == length \div partitions
           rem == length % partitions
<1>1. base \in Nat /\ rem \in Nat
  BY Division
<1>2. \A n : BalancedStart(length, partitions, n) = n * base + Smaller(n, rem)
  BY DEF BalancedStart
<1> HIDE DEF base, rem
<1>3. PICK d \in Nat : q = p + 1 + d
  <2>1. q - (p + 1) \in Nat /\ q = p + 1 + (q - (p + 1))
    OBVIOUS
  <2> QED
    BY <2>1
<1>4. q * base = (p + 1) * base + d * base /\ d * base \in Nat /\ (p + 1) * base \in Nat
  BY <1>1, <1>3
<1>5. Smaller(p + 1, rem) <= Smaller(q, rem) /\ Smaller(p + 1, rem) \in Nat /\ Smaller(q, rem) \in Nat
  BY <1>1, <1>3 DEF Smaller
<1>6. BalancedStart(length, partitions, p + 1) <= BalancedStart(length, partitions, q)
  BY <1>2, <1>4, <1>5
<1> QED
  BY <1>6, PartsAdjacent

(* The parts of balanced_ranges tile the buffer: every position is in       *)
(* exactly one of the parts, and the lengths of two parts differ by at most *)
(* one; no part is empty unless there are more parts than positions.        *)
THEOREM BalancedPartsTile ==
  ASSUME NEW length \in Nat, NEW partitions \in Nat \ {0}
  PROVE  /\ \A x \in 0 .. length - 1 : \E p \in 0 .. partitions - 1 :
              /\ InPart(length, partitions, p, x)
              /\ \A q \in 0 .. partitions - 1 : InPart(length, partitions, q, x) => q = p
         /\ \A p \in 0 .. partitions - 1 : \A x \in Int :
              InPart(length, partitions, p, x) => x \in 0 .. length - 1
         /\ \A p, q \in 0 .. partitions - 1 :
              BalancedLength(length, partitions, p) <= BalancedLength(length, partitions, q) + 1
         /\ length >= partitions =>
              \A p \in 0 .. partitions - 1 : BalancedLength(length, partitions, p) > 0
<1> DEFINE S(p) == BalancedStart(length, partitions, p)
           L(p) == BalancedLength(length, partitions, p)
<1>1. /\ S(0) = 0 /\ S(partitions) = length
      /\ \A p \in Nat : S(p) \in Nat /\ L(p) \in Nat /\ S(p + 1) = S(p) + L(p)
  BY PartsAdjacent
<1>2. \A p, q \in Nat : p < q => S(p) + L(p) <= S(q)
  BY PartsOrdered
<1>3. \A p, x : InPart(length, partitions, p, x) <=> S(p) <= x /\ x < S(p) + L(p)
  BY DEF InPart
<1>4. ASSUME NEW x \in 0 .. length - 1
      PROVE  \E p \in 0 .. partitions - 1 :
               /\ InPart(length, partitions, p, x)
               /\ \A q \in 0 .. partitions - 1 : InPart(length, partitions, q, x) => q = p
  <2> HIDE DEF S, L
  <2> DEFINE Behind == {n \in Nat : S(n) > x}
  <2>1. partitions \in Behind
    BY <1>1
  <2>3. PICK n \in Behind : \A m \in Behind : n <= m
    BY <2>1, LeastElement
  <2>4. n # 0 /\ n \in Nat /\ n <= partitions
    BY <1>1, <2>1, <2>3
  <2>5. n - 1 \in Nat /\ n - 1 \notin Behind /\ n - 1 \in 0 .. partitions - 1
    BY <2>3, <2>4
  <2>6. S(n - 1) <= x /\ S(n) = S(n - 1) + L(n - 1) /\ x < S(n)
    BY <1>1, <2>4, <2>5
  <2>7. InPart(length, partitions, n - 1, x)
    BY <1>3, <2>6
  <2>8. ASSUME NEW q \in 0 .. partitions - 1, InPart(length, partitions, q, x) PROVE q = n - 1
    <3>1. S(q) <= x /\ x < S(q) + L(q)
      BY <1>3, <2>8
    <3>2. q < n - 1 => S(q) + L(q) <= S(n - 1)
      BY <1>2, <2>5
    <3>3. n - 1 < q => S(n - 1) + L(n - 1) <= S(q)
      BY <1>2, <2>5
    <3>4. S(q) \in Nat /\ L(q) \in Nat /\ S(n - 1) \in Nat /\ L(n - 1) \in Nat
      BY <1>1, <2>5
    <3> QED
      BY <2>5, <2>6, <3>1, <3>2, <3>3, <3>4
  <2> QED
    BY <2>5, <2>7, <2>8
<1>5. ASSUME NEW p \in 0 .. partitions - 1, NEW x \in Int, InPart(length, partitions, p, x)
      PROVE  x \in 0 .. length - 1
  <2> HIDE DEF S, L
  <2>1. S(p) <= x /\ x < S(p) + L(p)
    BY <1>3, <1>5
  <2>2. S(p) + L(p) <= S(partitions) /\ S(p) \in Nat /\ L(p) \in Nat
    <3>1. p \in Nat /\ partitions \in Nat /\ p < partitions
      OBVIOUS
    <3> QED
      BY <1>1, <1>2, <3>1
  <2> QED
    BY <1>1, <2>1, <2>2
<1>6. \A p, q \in 0 .. partitions - 1 : L(p) <= L(q) + 1
  BY Division DEF BalancedLength
<1>7. length >= partitions => \A p \in 0 .. partitions - 1 : L(p) > 0
  <2> SUFFICES ASSUME length >= partitions, NEW p \in 0 .. partitions - 1 PROVE L(p) > 0
    OBVIOUS
  <2>1. length \div partitions # 0
    BY Division
  <2> QED
    BY <2>1, Division DEF BalancedLength
<1> QED
  BY <1>4, <1>5, <1>6, <1>7

-----------------------------------------------------------------------------
(* f is a prefix, up to n, of the sequence that starts with a and goes on   *)
(* with the step G.                                                         *)
Iterates(f, n, D, a, G) ==
  /\ f \in [0 .. n -> D] /\ f[0] = a
  /\ \A k \in 0 .. n - 1 : f[k + 1] = G[<<f[k], k + 1>>]

(* Every step can be iterated any number of times: by a least number of     *)
(* times that has no iteration.                                             *)
LEMMA IterationUpTo ==
  ASSUME NEW D, NEW a \in D, NEW G \in [D \X Nat -> D], NEW n \in Nat
  PROVE  \E f : Iterates(f, n, D, a, G)
<1> DEFINE Bad == {m \in Nat : ~ \E f : Iterates(f, m, D, a, G)}
<1> SUFFICES ASSUME Bad # {} PROVE FALSE
  OBVIOUS
<1>1. PICK m \in Bad : \A y \in Bad : m <= y
  BY LeastElement
<1>2. CASE m = 0
  <2> DEFINE f == [k \in 0 .. 0 |-> a]
  <2>1. Iterates(f, 0, D, a, G)
    BY DEF Iterates
  <2> QED
    BY <1>2, <2>1
<1>3. CASE m # 0
  <2>1. m - 1 \in Nat /\ m \in Nat
    BY <1>3
  <2>2. PICK f : Iterates(f, m - 1, D, a, G)
    BY <1>1, <2>1
  <2> DEFINE h == [k \in 0 .. m |-> IF k = m THEN G[<<f[m - 1], m>>] ELSE f[k]]
  <2>3. f \in [0 .. m - 1 -> D] /\ f[0] = a /\ \A k \in 0 .. (m - 1) - 1 : f[k + 1] = G[<<f[k], k + 1>>]
    BY <2>2 DEF Iterates
  <2>4. h \in [0 .. m -> D]
    BY <2>1, <2>3
  <2>5. \A k \in 0 .. m - 1 : h[k] = f[k]
    BY <2>1
  <2>6. h[m] = G[<<f[m - 1], m>>]
    BY <2>1
  <2> HIDE DEF h
  <2>7. ASSUME NEW k \in 0 .. m - 1 PROVE h[k + 1] = G[<<h[k], k + 1>>]
    <3>1. CASE k = m - 1
      BY <3>1, <2>1, <2>5, <2>6
    <3>2. CASE k # m - 1
      <4>1. k \in 0 .. (m - 1) - 1 /\ k + 1 \in 0 .. m - 1
        BY <3>2, <2>1
      <4> QED BY <4>1, <2>3, <2>5
    <3> QED BY <3>1, <3>2
  <2>8. h[0] = a
    BY <2>1, <2>3, <2>5
  <2>9. Iterates(h, m, D, a, G)
    BY <2>4, <2>7, <2>8 DEF Iterates
  <2> QED
    BY <2>9
<1> QED
  BY <1>2, <1>3

(* Nothing before a sequence.                                               *)
LEMMA ConcatEmpty ==
  ASSUME NEW T, NEW s \in Seq(T)
  PROVE  <<>> \o s = s
OBVIOUS

(* The running concatenation that FlattenSeq reads.                         *)
Flattens(f, n, seqs) ==
  f = [i \in 1 .. n |-> IF i = 1 THEN seqs[i] ELSE f[i - 1] \o seqs[i]]

(* There is one.                                                            *)
LEMMA FlattensExist ==
  ASSUME NEW T, NEW seqs, NEW n \in Nat, \A k \in 1 .. n : seqs[k] \in Seq(T)
  PROVE  \E f : Flattens(f, n, seqs)
<1> DEFINE D == Seq(T)
           G == [x \in D \X Nat |-> x[1] \o (IF x[2] \in 1 .. n THEN seqs[x[2]] ELSE <<>>)]
<1>0. <<>> \in D
  OBVIOUS
<1>1. G \in [D \X Nat -> D]
  <2>1. ASSUME NEW x \in D \X Nat PROVE x[1] \o (IF x[2] \in 1 .. n THEN seqs[x[2]] ELSE <<>>) \in D
    <3>1. x[1] \in Seq(T) /\ (IF x[2] \in 1 .. n THEN seqs[x[2]] ELSE <<>>) \in Seq(T)
      OBVIOUS
    <3> QED BY <3>1
  <2> HIDE DEF D
  <2> QED BY <2>1
<1>2. PICK f : Iterates(f, n, D, <<>>, G)
  <2> HIDE DEF G, D
  <2> QED BY <1>0, <1>1, IterationUpTo
<1>3. f \in [0 .. n -> D] /\ f[0] = <<>> /\ \A k \in 0 .. n - 1 : f[k + 1] = G[<<f[k], k + 1>>]
  <2> HIDE DEF G, D
  <2> QED BY <1>2 DEF Iterates
<1>4. ASSUME NEW k \in 1 .. n PROVE f[k] = f[k - 1] \o seqs[k]
  <2>1. k - 1 \in 0 .. n - 1 /\ (k - 1) + 1 = k /\ f[k - 1] \in D /\ k \in Nat
    BY <1>3
  <2>2. f[k] = G[<<f[k - 1], k>>]
    <3> HIDE DEF G, D
    <3> QED BY <1>3, <2>1
  <2>3. G[<<f[k - 1], k>>] = f[k - 1] \o (IF k \in 1 .. n THEN seqs[k] ELSE <<>>)
    <3> HIDE DEF D
    <3> QED BY <2>1
  <2> QED BY <2>2, <2>3
<1> DEFINE h == [i \in 1 .. n |-> f[i]]
<1>5. ASSUME NEW i \in 1 .. n
      PROVE  h[i] = IF i = 1 THEN seqs[i] ELSE h[i - 1] \o seqs[i]
  <2>1. CASE i = 1
    <3>1. seqs[1] \in Seq(T) /\ 1 \in 1 .. n /\ 1 - 1 = 0
      BY <2>1
    <3>2. f[1] = f[0] \o seqs[1] /\ f[0] = <<>>
      <4> HIDE DEF G, D
      <4> QED BY <1>3, <1>4, <3>1
    <3>3. f[1] = seqs[1]
      BY <3>1, <3>2, ConcatEmpty
    <3> HIDE DEF G, D
    <3> QED BY <3>1, <3>3, <2>1
  <2>2. CASE i # 1
    <3>1. i - 1 \in 1 .. n
      BY <2>2
    <3> HIDE DEF G, D
    <3> QED BY <3>1, <2>2, <1>4
  <2> QED BY <2>1, <2>2
<1>6. h = [i \in 1 .. n |-> IF i = 1 THEN seqs[i] ELSE h[i - 1] \o seqs[i]]
  <2> HIDE DEF G, D
  <2> QED BY <1>5
<1>7. Flattens(h, n, seqs)
  BY <1>6 DEF Flattens
<1> QED BY <1>7

-----------------------------------------------------------------------------
(* Lists.                                                                   *)

(* A sequence of its elements.                                              *)
IsList(s) == s \in Seq(Range(s))

(* A sequence over some set is a list, of elements of that set.             *)
LEMMA ListOver ==
  ASSUME NEW T, NEW s \in Seq(T)
  PROVE  IsList(s) /\ Range(s) \subseteq T /\ DOMAIN s = 1 .. Len(s) /\ Len(s) \in Nat
<1>1. Len(s) \in Nat /\ DOMAIN s = 1 .. Len(s) /\ s = [i \in 1 .. Len(s) |-> s[i]]
  OBVIOUS
<1>2. \A i \in 1 .. Len(s) : s[i] \in T /\ s[i] \in Range(s)
  BY <1>1 DEF Range
<1>3. s \in [1 .. Len(s) -> Range(s)]
  BY <1>1, <1>2
<1>4. s \in Seq(Range(s))
  BY <1>1, <1>3
<1> QED
  BY <1>1, <1>2, <1>4 DEF IsList, Range

(* A list is a sequence over every set that has its elements.               *)
LEMMA ListIn ==
  ASSUME NEW T, NEW s, IsList(s), Range(s) \subseteq T
  PROVE  s \in Seq(T)
BY DEF IsList

(* A function on 1 .. n is a list.                                          *)
LEMMA FunctionList ==
  ASSUME NEW n \in Nat, NEW s, s = [i \in 1 .. n |-> s[i]]
  PROVE  IsList(s) /\ Len(s) = n /\ DOMAIN s = 1 .. n
<1>1. DOMAIN s = 1 .. n
  OBVIOUS
<1>2. \A i \in 1 .. n : s[i] \in Range(s)
  BY <1>1 DEF Range
<1>3. s \in [1 .. n -> Range(s)]
  BY <1>2
<1> QED
  BY <1>1, <1>3 DEF IsList

(* What is in a list without its head, and in two lists joined.             *)
LEMMA TailList ==
  ASSUME NEW s, IsList(s), s # <<>>
  PROVE  /\ IsList(Tail(s)) /\ Range(Tail(s)) \subseteq Range(s) /\ Head(s) \in Range(s)
         /\ Len(Tail(s)) = Len(s) - 1 /\ Len(s) \in Nat \ {0}
         /\ \A n \in 1 .. Len(s) - 1 : Tail(s)[n] = s[n + 1]
<1>1. PICK T : T = Range(s)
  OBVIOUS
<1>2. s \in Seq(T)
  BY <1>1 DEF IsList
<1>3. /\ Tail(s) \in Seq(T) /\ Head(s) \in T /\ Len(Tail(s)) = Len(s) - 1 /\ Len(s) \in Nat \ {0}
      /\ \A n \in 1 .. Len(s) - 1 : Tail(s)[n] = s[n + 1]
  BY <1>2
<1>4. IsList(Tail(s)) /\ Range(Tail(s)) \subseteq T
  BY <1>3, ListOver
<1> QED
  BY <1>1, <1>3, <1>4

(* Two lists joined.                                                        *)
LEMMA JoinedList ==
  ASSUME NEW a, NEW b, IsList(a), IsList(b)
  PROVE  IsList(a \o b) /\ Range(a \o b) = Range(a) \cup Range(b)
<1>1. PICK T : T = Range(a) \cup Range(b)
  OBVIOUS
<1>2. a \in Seq(T) /\ b \in Seq(T)
  BY <1>1, ListIn
<1>3. a \o b \in Seq(T)
  BY <1>2
<1>4. /\ Len(a) \in Nat /\ Len(b) \in Nat /\ Len(a \o b) = Len(a) + Len(b)
      /\ DOMAIN a = 1 .. Len(a) /\ DOMAIN b = 1 .. Len(b) /\ DOMAIN (a \o b) = 1 .. Len(a) + Len(b)
      /\ \A i \in 1 .. Len(a) : (a \o b)[i] = a[i]
      /\ \A i \in 1 .. Len(b) : (a \o b)[Len(a) + i] = b[i]
  BY <1>2
<1>5. PICK c : c = a \o b
  OBVIOUS
<1>6. ASSUME NEW x \in Range(a) PROVE x \in Range(c)
  <2>1. PICK i \in 1 .. Len(a) : x = a[i]
    BY <1>4 DEF Range
  <2>2. i \in 1 .. Len(a) + Len(b)
    BY <1>4
  <2> QED BY <1>4, <1>5, <2>1, <2>2 DEF Range
<1>7. ASSUME NEW x \in Range(b) PROVE x \in Range(c)
  <2>1. PICK i \in 1 .. Len(b) : x = b[i]
    BY <1>4 DEF Range
  <2>2. Len(a) + i \in 1 .. Len(a) + Len(b)
    BY <1>4
  <2> QED BY <1>4, <1>5, <2>1, <2>2 DEF Range
<1>8. IsList(c) /\ Range(c) \subseteq T
  BY <1>3, <1>5, ListOver
<1> QED
  BY <1>1, <1>5, <1>6, <1>7, <1>8

(* FlattenSeq: its elements are those of the sequences it joins.            *)
LEMMA FlattenList ==
  ASSUME NEW n \in Nat, NEW seqs, seqs = [k \in 1 .. n |-> seqs[k]],
         \A k \in 1 .. n : IsList(seqs[k])
  PROVE  /\ IsList(FlattenSeq(seqs))
         /\ Range(FlattenSeq(seqs)) = UNION {Range(seqs[k]) : k \in 1 .. n}
<1>0. Len(seqs) = n /\ DOMAIN seqs = 1 .. n
  BY FunctionList
<1>1. CASE n = 0
  <2>1. FlattenSeq(seqs) = seqs
    BY <1>0, <1>1 DEF FlattenSeq
  <2>2. IsList(seqs)
    BY FunctionList
  <2>3. Range(seqs) = {} /\ UNION {Range(seqs[k]) : k \in 1 .. n} = {}
    BY <1>0, <1>1 DEF Range
  <2> QED BY <2>1, <2>2, <2>3
<1>2. CASE n # 0
  <2>1. PICK T : T = UNION {Range(seqs[k]) : k \in 1 .. n}
    OBVIOUS
  <2>2. \A k \in 1 .. n : seqs[k] \in Seq(T)
    <3> SUFFICES ASSUME NEW k \in 1 .. n PROVE seqs[k] \in Seq(T)
      OBVIOUS
    <3>1. Range(seqs[k]) \subseteq T
      BY <2>1
    <3> QED BY <3>1, ListIn
  <2>3. \E f : Flattens(f, n, seqs)
    BY <2>2, FlattensExist
  <2> DEFINE f == CHOOSE g : Flattens(g, n, seqs)
  <2>4. Flattens(f, n, seqs)
    BY <2>3, Zenon
  <2>5. FlattenSeq(seqs) = f[n]
    BY <1>0, <1>2 DEF FlattenSeq, Flattens
  <2> HIDE DEF f
  <2>6. \A i \in 1 .. n : f[i] = IF i = 1 THEN seqs[i] ELSE f[i - 1] \o seqs[i]
    BY <2>4 DEF Flattens
  <2> DEFINE Good(m) == IsList(f[m]) /\ Range(f[m]) = UNION {Range(seqs[k]) : k \in 1 .. m}
             Bad == {m \in 1 .. n : ~Good(m)}
  <2>7. Bad = {}
    <3> SUFFICES ASSUME Bad # {} PROVE FALSE
      OBVIOUS
    <3>1. Bad \in SUBSET Nat
      OBVIOUS
    <3>2. PICK m \in Bad : \A y \in Bad : m <= y
      <4> HIDE DEF Bad
      <4> QED BY <3>1, LeastElement
    <3>3. m \in 1 .. n /\ ~Good(m)
      OBVIOUS
    <3>4. CASE m = 1
      <4>1. f[m] = seqs[1] /\ IsList(seqs[1])
        BY <2>6, <3>3, <3>4
      <4>2. UNION {Range(seqs[k]) : k \in 1 .. m} = Range(seqs[1])
        BY <3>4
      <4> QED BY <4>1, <4>2, <3>3
    <3>5. CASE m # 1
      <4>1. m - 1 \in 1 .. n /\ ~(m <= m - 1)
        BY <3>3, <3>5
      <4>2. Good(m - 1)
        <5>1. m - 1 \notin Bad
          <6> HIDE DEF Bad
          <6> QED BY <3>2, <4>1
        <5> HIDE DEF Good
        <5> QED BY <4>1, <5>1
      <4>3. f[m] = f[m - 1] \o seqs[m] /\ IsList(seqs[m])
        BY <2>6, <3>3, <3>5
      <4>4. IsList(f[m]) /\ Range(f[m]) = Range(f[m - 1]) \cup Range(seqs[m])
        BY <4>2, <4>3, JoinedList
      <4>5. UNION {Range(seqs[k]) : k \in 1 .. m}
              = (UNION {Range(seqs[k]) : k \in 1 .. m - 1}) \cup Range(seqs[m])
        <5>1. \A k : k \in 1 .. m <=> k \in 1 .. m - 1 \/ k = m
          BY <3>3
        <5> QED BY <5>1
      <4> QED BY <4>2, <4>4, <4>5, <3>3
    <3> QED BY <3>4, <3>5
  <2>8. Good(n)
    <3>1. n \in 1 .. n /\ n \notin Bad
      <4> HIDE DEF Bad
      <4> QED BY <1>2, <2>7
    <3> HIDE DEF Good
    <3> QED BY <3>1
  <2> QED BY <2>5, <2>8
<1> QED
  BY <1>1, <1>2

-----------------------------------------------------------------------------
(* Threads and what they touch.                                             *)

(* What only moves data.                                                    *)
Plain(i) == i.do \in {"send", "receive", "move"} /\ (i.do = "send" => i.elt = "data")

PlainThread(thread) == IsList(thread) /\ \A i \in Range(thread) : Plain(i)

(* The thread moves data and stays within the cells S.                      *)
Within(thread, S) == PlainThread(thread) /\ Touched(thread) \subseteq S

Apart(threads) ==
  \A j, k \in DOMAIN threads : j # k => Touched(threads[j]) \cap Touched(threads[k]) = {}

PlainPhase(p) ==
  /\ p = [scoped |-> p.scoped, threads |-> p.threads]
  /\ \A k \in DOMAIN p.threads : PlainThread(p.threads[k])
  /\ Apart(p.threads)

PlainProgram(phases) == IsList(phases) /\ \A p \in Range(phases) : PlainPhase(p)

(* What a thread touches is what its instructions use.                      *)
LEMMA WithinIs ==
  ASSUME NEW thread, NEW S
  PROVE  Within(thread, S) <=> IsList(thread) /\ \A i \in Range(thread) : Plain(i) /\ Used(i) \subseteq S
<1>1. Touched(thread) \subseteq S <=> \A i \in Range(thread) : Used(i) \subseteq S
  <2> DEFINE U(i) == Used(i)
  <2>1. Touched(thread) = UNION {U(i) : i \in Range(thread)}
    BY DEF Touched
  <2> HIDE DEF U
  <2>2. UNION {U(i) : i \in Range(thread)} \subseteq S <=> \A i \in Range(thread) : U(i) \subseteq S
    OBVIOUS
  <2> QED BY <2>1, <2>2 DEF U
<1> QED
  BY <1>1 DEF Within, PlainThread

(* Smaller bounds.                                                          *)
LEMMA WithinMore ==
  ASSUME NEW thread, NEW S, NEW R, Within(thread, S), S \subseteq R
  PROVE  Within(thread, R)
BY DEF Within

(* A thread with one instruction, with two, with one for each of 1 .. n.    *)
LEMMA WithinOne ==
  ASSUME NEW i, NEW S, Plain(i), Used(i) \subseteq S
  PROVE  Within(<<i>>, S)
<1>1. <<i>> \in Seq({i}) /\ Range(<<i>>) = {i}
  BY DEF Range
<1>2. IsList(<<i>>)
  BY <1>1, ListOver
<1>3. PICK s : s = <<i>>
  OBVIOUS
<1> QED
  BY <1>1, <1>2, <1>3, WithinIs

(* Two instructions.                                                        *)
LEMMA WithinTwo ==
  ASSUME NEW i, NEW j, NEW S, Plain(i), Used(i) \subseteq S, Plain(j), Used(j) \subseteq S
  PROVE  Within(<<i, j>>, S)
<1>1. <<i, j>> \in Seq({i, j}) /\ Range(<<i, j>>) = {i, j}
  BY DEF Range
<1>2. IsList(<<i, j>>)
  BY <1>1, ListOver
<1>3. PICK s : s = <<i, j>>
  OBVIOUS
<1> QED
  BY <1>1, <1>2, <1>3, WithinIs

(* An instruction for each of 1 .. n.                                       *)
LEMMA WithinEach ==
  ASSUME NEW n \in Nat, NEW thread, NEW S, thread = [m \in 1 .. n |-> thread[m]],
         \A m \in 1 .. n : Plain(thread[m]) /\ Used(thread[m]) \subseteq S
  PROVE  Within(thread, S)
<1>1. IsList(thread) /\ DOMAIN thread = 1 .. n
  BY FunctionList
<1>2. \A i \in Range(thread) : \E m \in 1 .. n : i = thread[m]
  BY <1>1 DEF Range
<1> QED
  BY <1>1, <1>2, WithinIs

(* Two threads one after the other.                                         *)
LEMMA WithinJoined ==
  ASSUME NEW a, NEW b, NEW S, Within(a, S), Within(b, S)
  PROVE  Within(a \o b, S)
<1>1. IsList(a) /\ IsList(b)
  BY WithinIs
<1>2. PICK c : c = a \o b
  OBVIOUS
<1>3. IsList(c) /\ Range(c) = Range(a) \cup Range(b)
  BY <1>1, <1>2, JoinedList
<1>4. Within(c, S)
  BY <1>3, WithinIs
<1> QED
  BY <1>2, <1>4

(* Any number of them.                                                      *)
LEMMA WithinFlat ==
  ASSUME NEW n \in Nat, NEW seqs, NEW S, seqs = [k \in 1 .. n |-> seqs[k]],
         \A k \in 1 .. n : Within(seqs[k], S)
  PROVE  Within(FlattenSeq(seqs), S)
<1>1. \A k \in 1 .. n : IsList(seqs[k])
  BY WithinIs
<1>2. PICK c : c = FlattenSeq(seqs)
  OBVIOUS
<1>3. IsList(c) /\ Range(c) = UNION {Range(seqs[k]) : k \in 1 .. n}
  BY <1>1, <1>2, FlattenList
<1>4. ASSUME NEW i \in Range(c) PROVE Plain(i) /\ Used(i) \subseteq S
  <2>1. PICK k \in 1 .. n : i \in Range(seqs[k])
    BY <1>3
  <2> QED BY <2>1, WithinIs
<1>5. Within(c, S)
  BY <1>3, <1>4, WithinIs
<1> QED
  BY <1>2, <1>5

(* What is left of a thread after its first instruction, or when it fails.  *)
LEMMA WithinTail ==
  ASSUME NEW thread, NEW S, Within(thread, S), thread # <<>>
  PROVE  Within(Tail(thread), S)
<1>1. IsList(thread) /\ \A i \in Range(thread) : Plain(i) /\ Used(i) \subseteq S
  BY WithinIs
<1>2. PICK c : c = Tail(thread)
  OBVIOUS
<1>3. IsList(c) /\ Range(c) \subseteq Range(thread)
  BY <1>1, <1>2, TailList
<1>4. Within(c, S)
  BY <1>1, <1>3, WithinIs
<1> QED
  BY <1>2, <1>4

(* Nothing.                                                                 *)
LEMMA WithinNone ==
  ASSUME NEW S
  PROVE  Within(<<>>, S)
<1>1. <<>> \in Seq({}) /\ Range(<<>>) = {}
  BY DEF Range
<1>2. PICK c : c = <<>>
  OBVIOUS
<1>3. IsList(c) /\ Range(c) = {}
  BY <1>1, <1>2, ListOver
<1>4. Within(c, S)
  BY <1>3, WithinIs
<1> QED
  BY <1>2, <1>4

-----------------------------------------------------------------------------
(* Phases and programs.                                                     *)

(* The calling thread is alone.                                             *)
LEMMA MainPlain ==
  ASSUME NEW thread, NEW S, Within(thread, S)
  PROVE  PlainPhase(Main(thread))
<1>1. PICK p : p = Main(thread)
  OBVIOUS
<1>2. p = [scoped |-> FALSE, threads |-> <<thread>>] /\ p.threads = <<thread>>
  BY <1>1 DEF Main
<1>3. DOMAIN p.threads = {1} /\ p.threads[1] = thread
  BY <1>2
<1>4. Apart(p.threads)
  BY <1>3 DEF Apart
<1>5. PlainThread(thread)
  BY DEF Within
<1> QED
  BY <1>1, <1>2, <1>3, <1>4, <1>5 DEF PlainPhase

(* The threads of a scope whose bounds do not meet.                         *)
LEMMA ScopePlain ==
  ASSUME NEW n \in Nat, NEW threads, NEW Own, threads = [c \in 1 .. n |-> threads[c]],
         \A c \in 1 .. n : Within(threads[c], Own[c]),
         \A c, d \in 1 .. n : c # d => Own[c] \cap Own[d] = {}
  PROVE  PlainPhase(Scope(threads))
<1>1. PICK p : p = Scope(threads)
  OBVIOUS
<1>2. p = [scoped |-> TRUE, threads |-> threads] /\ p.threads = threads
  BY <1>1 DEF Scope
<1>3. DOMAIN threads = 1 .. n
  OBVIOUS
<1>4. \A c \in 1 .. n : PlainThread(threads[c]) /\ Touched(threads[c]) \subseteq Own[c]
  BY DEF Within
<1>5. Apart(threads)
  BY <1>3, <1>4 DEF Apart
<1> QED
  BY <1>1, <1>2, <1>3, <1>4, <1>5 DEF PlainPhase

(* Programs of no phase, of one and of three.                               *)
LEMMA NoPhase == PlainProgram(<<>>)
<1>1. <<>> \in Seq({}) /\ Range(<<>>) = {}
  BY DEF Range
<1>2. PICK c : c = <<>>
  OBVIOUS
<1>3. IsList(c) /\ Range(c) = {}
  BY <1>1, <1>2, ListOver
<1>4. PlainProgram(c)
  BY <1>3 DEF PlainProgram
<1> QED
  BY <1>2, <1>4

(* One phase.                                                               *)
LEMMA OnePhase ==
  ASSUME NEW p, PlainPhase(p)
  PROVE  PlainProgram(<<p>>)
<1>1. <<p>> \in Seq({p}) /\ Range(<<p>>) = {p}
  BY DEF Range
<1>2. PICK c : c = <<p>>
  OBVIOUS
<1>3. IsList(c) /\ Range(c) = {p}
  BY <1>1, <1>2, ListOver
<1>4. PlainProgram(c)
  BY <1>3 DEF PlainProgram
<1> QED
  BY <1>2, <1>4

(* Two phases.                                                              *)
LEMMA TwoPhases ==
  ASSUME NEW p, NEW q, PlainPhase(p), PlainPhase(q)
  PROVE  PlainProgram(<<p, q>>)
<1>1. <<p, q>> \in Seq({p, q}) /\ Range(<<p, q>>) = {p, q}
  BY DEF Range
<1>2. PICK c : c = <<p, q>>
  OBVIOUS
<1>3. IsList(c) /\ Range(c) = {p, q}
  BY <1>1, <1>2, ListOver
<1>4. PlainProgram(c)
  BY <1>3 DEF PlainProgram
<1> QED
  BY <1>2, <1>4

(* Three phases.                                                            *)
LEMMA ThreePhases ==
  ASSUME NEW p, NEW q, NEW w, PlainPhase(p), PlainPhase(q), PlainPhase(w)
  PROVE  PlainProgram(<<p, q, w>>)
<1>1. <<p, q, w>> \in Seq({p, q, w}) /\ Range(<<p, q, w>>) = {p, q, w}
  BY DEF Range
<1>2. PICK c : c = <<p, q, w>>
  OBVIOUS
<1>3. IsList(c) /\ Range(c) = {p, q, w}
  BY <1>1, <1>2, ListOver
<1>4. PlainProgram(c)
  BY <1>3 DEF PlainProgram
<1> QED
  BY <1>2, <1>4

(* Two programs one after the other.                                        *)
LEMMA ProgramsJoined ==
  ASSUME NEW a, NEW b, PlainProgram(a), PlainProgram(b)
  PROVE  PlainProgram(a \o b)
<1>1. IsList(a) /\ IsList(b)
  BY DEF PlainProgram
<1>2. PICK c : c = a \o b
  OBVIOUS
<1>3. IsList(c) /\ Range(c) = Range(a) \cup Range(b)
  BY <1>1, <1>2, JoinedList
<1>4. PlainProgram(c)
  BY <1>3 DEF PlainProgram
<1> QED
  BY <1>2, <1>4

(* Any number of them.                                                      *)
LEMMA ProgramsFlat ==
  ASSUME NEW n \in Nat, NEW seqs, seqs = [k \in 1 .. n |-> seqs[k]],
         \A k \in 1 .. n : PlainProgram(seqs[k])
  PROVE  PlainProgram(FlattenSeq(seqs))
<1>1. \A k \in 1 .. n : IsList(seqs[k])
  BY DEF PlainProgram
<1>2. PICK c : c = FlattenSeq(seqs)
  OBVIOUS
<1>3. IsList(c) /\ Range(c) = UNION {Range(seqs[k]) : k \in 1 .. n}
  BY <1>1, <1>2, FlattenList
<1>4. ASSUME NEW i \in Range(c) PROVE PlainPhase(i)
  <2>1. PICK k \in 1 .. n : i \in Range(seqs[k])
    BY <1>3
  <2> QED BY <2>1 DEF PlainProgram
<1>5. PlainProgram(c)
  BY <1>3, <1>4 DEF PlainProgram
<1> QED
  BY <1>2, <1>5

-----------------------------------------------------------------------------
(* Who owns which cells.                                                    *)

(* The cells of a range.                                                    *)
LEMMA CellsRange ==
  ASSUME NEW buffer, NEW start \in Int, NEW length \in Nat
  PROVE  /\ DOMAIN Cells(buffer, start, length) = 1 .. length
         /\ \A c : c \in Range(Cells(buffer, start, length))
                     <=> \E x \in Int : start <= x /\ x < start + length /\ c = <<buffer, x>>
<1>1. PICK s : s = Cells(buffer, start, length)
  OBVIOUS
<1>2. DOMAIN s = 1 .. length /\ \A i \in 1 .. length : s[i] = <<buffer, start + i - 1>>
  BY <1>1 DEF Cells
<1>3. ASSUME NEW c \in Range(s) PROVE \E x \in Int : start <= x /\ x < start + length /\ c = <<buffer, x>>
  <2>1. PICK i \in 1 .. length : c = <<buffer, start + i - 1>>
    BY <1>2 DEF Range
  <2>2. start + i - 1 \in Int /\ start <= start + i - 1 /\ start + i - 1 < start + length
    OBVIOUS
  <2> QED BY <2>1, <2>2
<1>4. ASSUME NEW x \in Int, start <= x, x < start + length PROVE <<buffer, x>> \in Range(s)
  <2>1. x - start + 1 \in 1 .. length /\ start + (x - start + 1) - 1 = x
    BY <1>4
  <2> QED BY <1>2, <2>1 DEF Range
<1> QED
  BY <1>1, <1>2, <1>3, <1>4

(* The cells of part p of n equal parts of each of the spans of buffers.    *)
Own(spans, n, p) ==
  {c \in UNION {Range(Cells(spans[k].buffer, spans[k].start, spans[k].length)) : k \in DOMAIN spans} :
     \E k \in DOMAIN spans : \E y \in Int :
       c = <<spans[k].buffer, spans[k].start + y>> /\ InPart(spans[k].length, n, p, y)}

(* Spans that do not overlap.                                               *)
Spans(spans) ==
  /\ \A k \in DOMAIN spans : spans[k].start \in Nat /\ spans[k].length \in Nat
  /\ \A j, k \in DOMAIN spans :
       \/ j = k
       \/ spans[j].buffer # spans[k].buffer
       \/ spans[j].start + spans[j].length <= spans[k].start
       \/ spans[k].start + spans[k].length <= spans[j].start

(* Two parts have no position in common.                                    *)
LEMMA OnePart ==
  ASSUME NEW length \in Nat, NEW n \in Nat \ {0}, NEW p \in 0 .. n - 1, NEW q \in 0 .. n - 1,
         NEW y \in Int, InPart(length, n, p, y), InPart(length, n, q, y)
  PROVE  p = q
<1>1. y \in 0 .. length - 1
  BY BalancedPartsTile
<1>2. PICK w \in 0 .. n - 1 : \A v \in 0 .. n - 1 : InPart(length, n, v, y) => v = w
  BY <1>1, BalancedPartsTile
<1> QED
  BY <1>2

(* Two parts own no cell in common.                                         *)
LEMMA OwnApart ==
  ASSUME NEW spans, Spans(spans), NEW n \in Nat \ {0}, NEW p \in 0 .. n - 1, NEW q \in 0 .. n - 1,
         p # q
  PROVE  Own(spans, n, p) \cap Own(spans, n, q) = {}
<1> SUFFICES ASSUME NEW c \in Own(spans, n, p), c \in Own(spans, n, q) PROVE FALSE
  OBVIOUS
<1>1. PICK k \in DOMAIN spans, y \in Int :
        c = <<spans[k].buffer, spans[k].start + y>> /\ InPart(spans[k].length, n, p, y)
  BY DEF Own
<1>2. PICK j \in DOMAIN spans, x \in Int :
        c = <<spans[j].buffer, spans[j].start + x>> /\ InPart(spans[j].length, n, q, x)
  BY DEF Own
<1>3. /\ spans[k].start \in Nat /\ spans[k].length \in Nat
      /\ spans[j].start \in Nat /\ spans[j].length \in Nat
  BY DEF Spans
<1>4. y \in 0 .. spans[k].length - 1 /\ x \in 0 .. spans[j].length - 1
  BY <1>1, <1>2, <1>3, BalancedPartsTile
<1>5. spans[k].buffer = spans[j].buffer /\ spans[k].start + y = spans[j].start + x
  BY <1>1, <1>2
<1>6. j = k
  BY <1>3, <1>4, <1>5 DEF Spans
<1>7. x = y
  BY <1>3, <1>5, <1>6
<1> QED
  BY <1>1, <1>2, <1>3, <1>6, <1>7, OnePart

(* Part p of a span is owned by p.                                          *)
LEMMA PieceOwned ==
  ASSUME NEW spans, Spans(spans), NEW n \in Nat \ {0}, NEW p \in 0 .. n - 1, NEW k \in DOMAIN spans
  PROVE  Range(Cells(spans[k].buffer,
                     spans[k].start + BalancedStart(spans[k].length, n, p),
                     BalancedLength(spans[k].length, n, p))) \subseteq Own(spans, n, p)
<1>1. PICK start, length, buffer : start = spans[k].start /\ length = spans[k].length /\ buffer = spans[k].buffer
  OBVIOUS
<1>2. start \in Nat /\ length \in Nat
  BY <1>1 DEF Spans
<1>3. PICK a, b : a = BalancedStart(length, n, p) /\ b = BalancedLength(length, n, p)
  OBVIOUS
<1>4. a \in Nat /\ b \in Nat
  BY <1>2, <1>3, PartsAdjacent
<1>5. ASSUME NEW c \in Range(Cells(buffer, start + a, b)) PROVE c \in Own(spans, n, p)
  <2>1. PICK x \in Int : start + a <= x /\ x < start + a + b /\ c = <<buffer, x>>
    <3>1. start + a \in Int
      BY <1>2, <1>4
    <3> QED BY <1>4, <3>1, CellsRange
  <2>2. PICK y \in Int : y = x - start
    BY <1>2
  <2>3. a <= y /\ y < a + b /\ x = start + y
    BY <1>2, <1>4, <2>1, <2>2
  <2>4. InPart(length, n, p, y)
    BY <1>3, <2>3 DEF InPart
  <2>5. y \in 0 .. length - 1
    BY <1>2, <2>4, BalancedPartsTile
  <2>6. start <= x /\ x < start + length
    BY <1>2, <2>3, <2>5
  <2>7. c \in Range(Cells(buffer, start, length))
    BY <1>2, <2>1, <2>6, CellsRange
  <2>8. c = <<spans[k].buffer, spans[k].start + y>> /\ InPart(spans[k].length, n, p, y)
    BY <1>1, <2>1, <2>3, <2>4
  <2> QED
    BY <1>1, <2>7, <2>8 DEF Own
<1> QED
  BY <1>1, <1>3, <1>5

(* A part of a range is within the range.                                   *)
LEMMA PartInside ==
  ASSUME NEW buffer, NEW start \in Nat, NEW size \in Nat, NEW n \in Nat \ {0}, NEW p \in 0 .. n - 1
  PROVE  Range(Cells(buffer, start + BalancedStart(size, n, p), BalancedLength(size, n, p)))
           \subseteq Range(Cells(buffer, start, size))
<1>3. PICK a, b : a = BalancedStart(size, n, p) /\ b = BalancedLength(size, n, p)
  OBVIOUS
<1>4. a \in Nat /\ b \in Nat
  BY <1>3, PartsAdjacent
<1>5. ASSUME NEW c \in Range(Cells(buffer, start + a, b)) PROVE c \in Range(Cells(buffer, start, size))
  <2>1. PICK x \in Int : start + a <= x /\ x < start + a + b /\ c = <<buffer, x>>
    <3>1. start + a \in Int
      BY <1>4
    <3> QED BY <1>4, <3>1, CellsRange
  <2>2. PICK y \in Int : y = x - start
    OBVIOUS
  <2>3. a <= y /\ y < a + b /\ x = start + y
    BY <1>4, <2>1, <2>2
  <2>4. InPart(size, n, p, y)
    BY <1>3, <2>3 DEF InPart
  <2>5. y \in 0 .. size - 1
    BY <2>4, BalancedPartsTile
  <2>6. start <= x /\ x < start + size
    BY <2>3, <2>5
  <2> QED
    BY <2>1, <2>6, CellsRange
<1> QED
  BY <1>3, <1>5

(* The channel threads that stay within their part of the spans.            *)
LEMMA ScopeOwned ==
  ASSUME NEW spans, Spans(spans), NEW n \in Nat \ {0}, NEW threads,
         threads = [c \in 1 .. n |-> threads[c]],
         \A c \in 1 .. n : Within(threads[c], Own(spans, n, c - 1))
  PROVE  PlainPhase(Scope(threads))
<1> DEFINE O == [c \in 1 .. n |-> Own(spans, n, c - 1)]
<1>1. \A c \in 1 .. n : Within(threads[c], O[c])
  OBVIOUS
<1>2. ASSUME NEW c \in 1 .. n, NEW d \in 1 .. n, c # d PROVE O[c] \cap O[d] = {}
  <2>1. c - 1 \in 0 .. n - 1 /\ d - 1 \in 0 .. n - 1 /\ c - 1 # d - 1
    BY <1>2
  <2> QED BY <2>1, OwnApart
<1> HIDE DEF O
<1> QED
  BY <1>1, <1>2, ScopePlain

(* At least one channel runs.                                               *)
LEMMA ChannelsRun ==
  ASSUME NEW requested \in Nat \ {0}, NEW elements \in Nat
  PROVE  EffectiveRingChannels(requested, elements) \in Nat \ {0}
<1>1. PICK m : m = Max({elements, 1})
  OBVIOUS
<1>2. m \in Nat \ {0}
  <2>1. \E x \in {elements, 1} : \A y \in {elements, 1} : x >= y
    OBVIOUS
  <2>2. m \in {elements, 1} /\ \A y \in {elements, 1} : m >= y
    BY <1>1, <2>1 DEF Max
  <2> QED BY <2>2
<1>3. PICK k : k = Min({requested, m})
  OBVIOUS
<1>4. k \in Nat \ {0}
  <2>1. \E x \in {requested, m} : \A y \in {requested, m} : x =< y
    BY <1>2
  <2>2. k \in {requested, m}
    BY <1>3, <2>1 DEF Min
  <2> QED BY <1>2, <2>2
<1> QED
  BY <1>1, <1>3, <1>4 DEF EffectiveRingChannels

-----------------------------------------------------------------------------
(* Once around a ring.                                                      *)

(* An entry of a ring.                                                      *)
LEMMA AtEntry ==
  ASSUME NEW ring, Len(ring) \in Nat \ {0}, NEW i \in Int
  PROVE  \E j \in 1 .. Len(ring) : At(ring, i) = ring[j]
<1>1. PICK n : n = Len(ring)
  OBVIOUS
<1>2. i % n \in 0 .. n - 1
  BY <1>1
<1>3. (i % n) + 1 \in 1 .. n
  BY <1>1, <1>2
<1> QED
  BY <1>1, <1>3 DEF At

(* A send and a receive use their cells.                                    *)
LEMMA SendPlain ==
  ASSUME NEW peer, NEW rail, NEW tag, NEW cells
  PROVE  Plain(Send(peer, rail, tag, cells)) /\ Used(Send(peer, rail, tag, cells)) = Range(cells)
BY DEF Plain, Send, Used

(* A receive.                                                               *)
LEMMA ReceivePlain ==
  ASSUME NEW peer, NEW rail, NEW tag, NEW cells, NEW mode
  PROVE  /\ Plain(Receive(peer, rail, tag, cells, mode))
         /\ Used(Receive(peer, rail, tag, cells, mode)) = Range(cells)
BY DEF Plain, Receive, Used

(* A move.                                                                  *)
LEMMA MovePlain ==
  ASSUME NEW from, NEW to
  PROVE  Plain(Move(from, to)) /\ Used(Move(from, to)) = Range(to) \cup Range(from)
BY DEF Plain, Move, Used

(* An exchange touches what it sends and what it receives.                  *)
LEMMA ExchangeWithin ==
  ASSUME NEW to, NEW from, NEW rail, NEW tag, NEW out, NEW in, NEW mode, NEW S,
         Range(out) \subseteq S, Range(in) \subseteq S
  PROVE  Within(Exchange(to, from, rail, tag, out, in, mode), S)
<1>1. PICK i, j : i = Send(to, rail, tag, out) /\ j = Receive(from, rail, tag, in, mode)
  OBVIOUS
<1>2. Plain(i) /\ Used(i) \subseteq S
  BY <1>1, SendPlain
<1>3. Plain(j) /\ Used(j) \subseteq S
  BY <1>1, ReceivePlain
<1>4. Within(<<i, j>>, S)
  BY <1>2, <1>3, WithinTwo
<1> QED
  BY <1>1, <1>4 DEF Exchange

(* Once around a ring a rank touches only the chunks.                       *)
LEMMA WalkWithin ==
  ASSUME NEW ring, Len(ring) \in Nat \ {0}, NEW chunks, Len(chunks) = Len(ring),
         NEW position \in Int, NEW shift \in Int, NEW rail, NEW tags, NEW mode, NEW S,
         \A i \in 1 .. Len(ring) : Range(chunks[i]) \subseteq S
  PROVE  Within(Walk(ring, position, shift, chunks, rail, tags, mode), S)
<1> DEFINE E(s) == Exchange(At(ring, position + 1), At(ring, position - 1), rail, tags[s],
                            At(chunks, position + shift - s + 1), At(chunks, position + shift - s), mode)
<1>1. PICK n \in Nat : n = Len(ring) - 1
  OBVIOUS
<1>2. PICK seqs : seqs = [s \in 1 .. n |-> E(s)]
  OBVIOUS
<1>3. ASSUME NEW s \in 1 .. n PROVE Within(E(s), S)
  <2>1. position + shift - s + 1 \in Int /\ position + shift - s \in Int
    OBVIOUS
  <2>2. /\ Range(At(chunks, position + shift - s + 1)) \subseteq S
        /\ Range(At(chunks, position + shift - s)) \subseteq S
    <3>1. \A i \in Int : Range(At(chunks, i)) \subseteq S
      BY AtEntry
    <3> QED BY <2>1, <3>1
  <2> QED BY <2>2, ExchangeWithin
<1>4. seqs = [s \in 1 .. n |-> seqs[s]] /\ \A s \in 1 .. n : Within(seqs[s], S)
  <2> HIDE DEF E
  <2> QED BY <1>2, <1>3
<1>5. Within(FlattenSeq(seqs), S)
  BY <1>4, WithinFlat
<1>6. Walk(ring, position, shift, chunks, rail, tags, mode) = FlattenSeq(seqs)
  BY <1>1, <1>2 DEF Walk
<1> QED
  BY <1>5, <1>6

-----------------------------------------------------------------------------
(* The programs of the rings.                                               *)

(* Stripes of one width do not overlap.                                     *)
LEMMA StripesApart ==
  ASSUME NEW j \in Nat, NEW k \in Nat, j # k, NEW width \in Nat
  PROVE  j * width + width <= k * width \/ k * width + width <= j * width
<1>1. ASSUME NEW a \in Nat, NEW b \in Nat, a < b PROVE a * width + width <= b * width
  <2>1. PICK d \in Nat : b = a + 1 + d
    <3>1. b - (a + 1) \in Nat /\ b = a + 1 + (b - (a + 1))
      BY <1>1
    <3> QED BY <3>1
  <2>2. b * width = a * width + width + d * width /\ d * width \in Nat /\ a * width \in Nat
    BY <2>1
  <2> QED BY <2>2
<1>2. j < k \/ k < j
  OBVIOUS
<1> QED
  BY <1>1, <1>2

(* The ring of a channel visits every rank.                                 *)
LEMMA RingOf ==
  ASSUME NEW t, NEW world \in Nat \ {0}, WellFormedTuning(t, world), NEW channel \in Nat
  PROVE  /\ RingOrderForChannel(t, channel) \in [1 .. world -> 0 .. world - 1]
         /\ Range(RingOrderForChannel(t, channel)) = 0 .. world - 1
         /\ Len(RingOrderForChannel(t, channel)) = world
<1>1. PICK n \in Nat \ {0} : n = Len(t.rings)
  BY DEF WellFormedTuning
<1>2. (channel % n) + 1 \in 1 .. n
  BY Division
<1>3. PICK ring : ring = RingOrderForChannel(t, channel)
  OBVIOUS
<1>4. ring \in [1 .. world -> 0 .. world - 1] /\ Range(ring) = 0 .. world - 1
  BY <1>1, <1>2, <1>3 DEF WellFormedTuning, RingOrderForChannel
<1>5. Len(ring) = world
  <2>1. ring = [i \in 1 .. world |-> ring[i]] /\ world \in Nat
    BY <1>4
  <2> QED BY <2>1, FunctionList
<1> QED
  BY <1>3, <1>4, <1>5

(* The position of a rank on a ring.                                        *)
LEMMA PositionOf ==
  ASSUME NEW world \in Nat \ {0}, NEW ring, Len(ring) = world, ring \in [1 .. world -> 0 .. world - 1],
         Range(ring) = 0 .. world - 1, NEW r \in 0 .. world - 1
  PROVE  RingPosition(ring, r) \in 0 .. world - 1 /\ ring[RingPosition(ring, r) + 1] = r
<1>1. \E i \in 1 .. Len(ring) : ring[i] = r
  BY DEF Range
<1>2. PICK i : i = CHOOSE j \in 1 .. Len(ring) : ring[j] = r
  OBVIOUS
<1>3. i \in 1 .. world /\ ring[i] = r
  BY <1>1, <1>2
<1>4. RingPosition(ring, r) = i - 1
  BY <1>2 DEF RingPosition
<1>5. i - 1 \in 0 .. world - 1 /\ (i - 1) + 1 = i
  BY <1>3
<1> QED
  BY <1>3, <1>4, <1>5

(* A channel of an all-reduce keeps within its part of the buffer.          *)
LEMMA AllReduceChannelWithin ==
  ASSUME NEW t, NEW world \in Nat \ {0}, WellFormedTuning(t, world), NEW r \in 0 .. world - 1,
         NEW operation, NEW start \in Nat, NEW size \in Nat, NEW channel \in Nat
  PROVE  Within(AllReduceRingChannel(t, r, operation, start, size, channel),
                Range(Cells("buffer", start, size)))
<1>1. PICK ring : ring = RingOrderForChannel(t, channel)
  OBVIOUS
<1>2. /\ ring \in [1 .. world -> 0 .. world - 1] /\ Range(ring) = 0 .. world - 1
      /\ Len(ring) = world
  BY <1>1, RingOf
<1>3. PICK position \in Int : position = RingPosition(ring, r)
  BY <1>2, PositionOf
<1>4. PICK chunks : chunks = [i \in 1 .. Len(ring) |->
                   Cells("buffer", start + BalancedStart(size, Len(ring), ring[i]),
                         BalancedLength(size, Len(ring), ring[i]))]
  OBVIOUS
<1>5. Len(chunks) = Len(ring)
  <2>1. chunks = [i \in 1 .. world |-> chunks[i]] /\ world \in Nat
    BY <1>2, <1>4
  <2> QED BY <1>2, <2>1, FunctionList
<1>6. PICK S : S = Range(Cells("buffer", start, size))
  OBVIOUS
<1>7. ASSUME NEW i \in 1 .. Len(ring) PROVE Range(chunks[i]) \subseteq S
  <2>1. ring[i] \in 0 .. world - 1
    BY <1>2
  <2>2. chunks[i] = Cells("buffer", start + BalancedStart(size, world, ring[i]),
                          BalancedLength(size, world, ring[i]))
    BY <1>2, <1>4
  <2> QED BY <1>6, <2>1, <2>2, PartInside
<1>8. PICK rail, tags : /\ rail = CollectiveRailForChannel(t, channel)
                        /\ tags = [phase \in {0, 1} |-> [s \in 1 .. Len(ring) - 1 |-> RingDataTag(operation, phase, channel, s - 1)]]
  OBVIOUS
<1>9. PICK a, b : /\ a = Walk(ring, position, 0, chunks, rail, tags[0], "reduce")
                  /\ b = Walk(ring, position, 1, chunks, rail, tags[1], "copy")
  OBVIOUS
<1>10. Within(a, S) /\ Within(b, S)
  BY <1>2, <1>5, <1>7, <1>9, WalkWithin
<1>11. Within(a \o b, S)
  BY <1>10, WithinJoined
<1>12. AllReduceRingChannel(t, r, operation, start, size, channel) = a \o b
  BY <1>1, <1>3, <1>4, <1>8, <1>9 DEF AllReduceRingChannel
<1> QED
  BY <1>6, <1>11, <1>12

(* The spans of a buffer as a whole.                                        *)
LEMMA OneSpan ==
  ASSUME NEW buffer, NEW length \in Nat, NEW n \in Nat \ {0}
  PROVE  \E spans : /\ Spans(spans)
                    /\ \A p \in 0 .. n - 1 :
                         Range(Cells(buffer, BalancedStart(length, n, p), BalancedLength(length, n, p)))
                           \subseteq Own(spans, n, p)
<1> DEFINE spans == [k \in {0} |-> [buffer |-> buffer, start |-> 0, length |-> length]]
<1>1. /\ DOMAIN spans = {0} /\ spans[0].buffer = buffer /\ spans[0].start = 0
      /\ spans[0].length = length
  OBVIOUS
<1> HIDE DEF spans
<1>2. Spans(spans)
  BY <1>1 DEF Spans
<1>3. ASSUME NEW p \in 0 .. n - 1
      PROVE  Range(Cells(buffer, BalancedStart(length, n, p), BalancedLength(length, n, p)))
               \subseteq Own(spans, n, p)
  <2>1. 0 + BalancedStart(length, n, p) = BalancedStart(length, n, p)
    BY PartsAdjacent
  <2> QED BY <1>1, <1>2, <2>1, PieceOwned
<1> QED
  BY <1>2, <1>3

(* The start and the length of the parts.                                   *)
LEMMA PartType ==
  ASSUME NEW length \in Nat, NEW n \in Nat \ {0}, NEW p \in 0 .. n - 1
  PROVE  BalancedStart(length, n, p) \in Nat /\ BalancedLength(length, n, p) \in Nat
BY PartsAdjacent

(* all_reduce over rings.                                                   *)
LEMMA AllReduceRingPlain ==
  ASSUME NEW t, NEW world \in Nat \ {0}, WellFormedTuning(t, world), NEW r \in 0 .. world - 1,
         NEW operation, NEW length \in Nat
  PROVE  PlainProgram(AllReduceRing(t, r, operation, length))
<1>1. PICK n \in Nat \ {0} : n = EffectiveRingChannels(t.channels, length)
  BY ChannelsRun DEF WellFormedTuning
<1> DEFINE E(c) == AllReduceRingChannel(t, r, operation, BalancedStart(length, n, c - 1),
                            BalancedLength(length, n, c - 1), c - 1)
<1>2. PICK threads : threads = [c \in 1 .. n |-> E(c)]
  OBVIOUS
<1>3. PICK spans : /\ Spans(spans)
                   /\ \A p \in 0 .. n - 1 :
                         Range(Cells("buffer", BalancedStart(length, n, p), BalancedLength(length, n, p)))
                           \subseteq Own(spans, n, p)
  BY OneSpan
<1>4. ASSUME NEW c \in 1 .. n PROVE Within(E(c), Own(spans, n, c - 1))
  <2>1. c - 1 \in 0 .. n - 1 /\ c - 1 \in Nat
    OBVIOUS
  <2>2. BalancedStart(length, n, c - 1) \in Nat /\ BalancedLength(length, n, c - 1) \in Nat
    BY <2>1, PartType
  <2>3. Within(E(c), Range(Cells("buffer", BalancedStart(length, n, c - 1), BalancedLength(length, n, c - 1))))
    BY <2>1, <2>2, AllReduceChannelWithin
  <2> QED BY <1>3, <2>1, <2>3, WithinMore
<1>5. threads = [c \in 1 .. n |-> threads[c]] /\ \A c \in 1 .. n : Within(threads[c], Own(spans, n, c - 1))
  <2> HIDE DEF E
  <2> QED BY <1>2, <1>4
<1>6. PlainPhase(Scope(threads))
  BY <1>3, <1>5, ScopeOwned
<1>7. AllReduceRing(t, r, operation, length) = <<Scope(threads)>>
  BY <1>1, <1>2 DEF AllReduceRing
<1> QED
  BY <1>6, <1>7, OnePhase

(* The stripes of a buffer with one slice for each rank, and those of       *)
(* another buffer.                                                          *)
LEMMA StripeSpans ==
  ASSUME NEW buffer, NEW other, buffer # other, NEW world \in Nat, NEW width \in Nat, NEW n \in Nat \ {0}
  PROVE  \E spans :
           /\ Spans(spans)
           /\ \A p \in 0 .. n - 1 :
                /\ \A k \in 0 .. world - 1 :
                     Range(Cells(buffer, k * width + BalancedStart(width, n, p), BalancedLength(width, n, p)))
                       \subseteq Own(spans, n, p)
                /\ Range(Cells(other, BalancedStart(width, n, p), BalancedLength(width, n, p)))
                     \subseteq Own(spans, n, p)
<1> DEFINE spans == [k \in 0 .. world |->
                       IF k = world THEN [buffer |-> other, start |-> 0, length |-> width]
                       ELSE [buffer |-> buffer, start |-> k * width, length |-> width]]
<1>1. /\ DOMAIN spans = 0 .. world
      /\ spans[world].buffer = other /\ spans[world].start = 0 /\ spans[world].length = width
      /\ \A k \in 0 .. world - 1 :
           spans[k].buffer = buffer /\ spans[k].start = k * width /\ spans[k].length = width
  OBVIOUS
<1> HIDE DEF spans
<1>2. \A k \in 0 .. world - 1 : k * width \in Nat
  OBVIOUS
<1>3. \A k \in 0 .. world : spans[k].start \in Nat /\ spans[k].length \in Nat
  <2>1. \A k \in 0 .. world : k = world \/ k \in 0 .. world - 1
    OBVIOUS
  <2> QED BY <1>1, <1>2, <2>1
<1>4. ASSUME NEW j \in 0 .. world, NEW k \in 0 .. world, j # k, spans[j].buffer = spans[k].buffer
      PROVE  \/ spans[j].start + spans[j].length <= spans[k].start
             \/ spans[k].start + spans[k].length <= spans[j].start
  <2>1. \A i \in 0 .. world : i = world \/ i \in 0 .. world - 1
    OBVIOUS
  <2>2. j \in 0 .. world - 1 /\ k \in 0 .. world - 1
    BY <1>1, <1>4, <2>1
  <2>3. j \in Nat /\ k \in Nat
    OBVIOUS
  <2>4. j * width + width <= k * width \/ k * width + width <= j * width
    BY <1>4, <2>3, StripesApart
  <2> QED BY <1>1, <2>2, <2>4
<1>5. Spans(spans)
  BY <1>1, <1>3, <1>4 DEF Spans
<1>6. ASSUME NEW p \in 0 .. n - 1, NEW k \in 0 .. world - 1
      PROVE  Range(Cells(buffer, k * width + BalancedStart(width, n, p), BalancedLength(width, n, p)))
               \subseteq Own(spans, n, p)
  <2>1. k \in DOMAIN spans
    BY <1>1
  <2> QED BY <1>1, <1>5, <2>1, PieceOwned
<1>7. ASSUME NEW p \in 0 .. n - 1
      PROVE  Range(Cells(other, BalancedStart(width, n, p), BalancedLength(width, n, p)))
               \subseteq Own(spans, n, p)
  <2>1. 0 + BalancedStart(width, n, p) = BalancedStart(width, n, p)
    BY PartsAdjacent
  <2>2. world \in DOMAIN spans
    BY <1>1
  <2> QED BY <1>1, <1>5, <2>1, <2>2, PieceOwned
<1> QED
  BY <1>5, <1>6, <1>7

(* A walk over the slices of a buffer, one for each rank.                   *)
LEMMA SliceWalkWithin ==
  ASSUME NEW world \in Nat \ {0}, NEW ring, Len(ring) = world, ring \in [1 .. world -> 0 .. world - 1],
         NEW position \in Int, NEW slice, NEW shift \in Int, NEW rail, NEW tags, NEW mode, NEW S,
         \A k \in 0 .. world - 1 : Range(slice[k]) \subseteq S,
         NEW chunks, chunks = [i \in 1 .. world |-> slice[ring[i]]]
  PROVE  Within(Walk(ring, position, shift, chunks, rail, tags, mode), S)
<1>3. Len(chunks) = Len(ring)
  <2>1. chunks = [i \in 1 .. world |-> chunks[i]] /\ world \in Nat
    OBVIOUS
  <2> QED BY <2>1, FunctionList
<1>4. ASSUME NEW i \in 1 .. Len(ring) PROVE Range(chunks[i]) \subseteq S
  <2>1. ring[i] \in 0 .. world - 1
    OBVIOUS
  <2> QED BY <2>1
<1> QED
  BY <1>3, <1>4, WalkWithin

(* all_gather over rings.                                                   *)
LEMMA AllGatherRingPlain ==
  ASSUME NEW t, NEW world \in Nat \ {0}, WellFormedTuning(t, world), NEW r \in 0 .. world - 1,
         NEW operation, NEW length \in Nat
  PROVE  PlainProgram(AllGatherRing(t, r, operation, length))
<1>1. PICK n \in Nat \ {0} : n = EffectiveRingChannels(t.channels, length)
  BY ChannelsRun DEF WellFormedTuning
<1> DEFINE E(c) == AllGatherRingChannel(t, r, operation, length, BalancedStart(length, n, c - 1),
                            BalancedLength(length, n, c - 1), c - 1)
<1>2. PICK threads : threads = [c \in 1 .. n |-> E(c)]
  OBVIOUS
<1>3. PICK spans :
           /\ Spans(spans)
           /\ \A p \in 0 .. n - 1 :
                /\ \A k \in 0 .. world - 1 :
                     Range(Cells("output", k * length + BalancedStart(length, n, p), BalancedLength(length, n, p)))
                       \subseteq Own(spans, n, p)
  <2>1. world \in Nat /\ "output" # "none"
    OBVIOUS
  <2> QED BY <2>1, StripeSpans
<1>4. ASSUME NEW c \in 1 .. n PROVE Within(E(c), Own(spans, n, c - 1))
  <2>1. c - 1 \in 0 .. n - 1 /\ c - 1 \in Nat
    OBVIOUS
  <2>2. PICK S : S = Own(spans, n, c - 1)
    OBVIOUS
  <2>3. PICK start, size : start = BalancedStart(length, n, c - 1) /\ size = BalancedLength(length, n, c - 1)
    OBVIOUS
  <2>4. \A k \in 0 .. world - 1 : Range(Cells("output", k * length + start, size)) \subseteq S
    BY <1>3, <2>1, <2>2, <2>3
  <2>5. PICK ring : ring = RingOrderForChannel(t, c - 1)
    OBVIOUS
  <2>6. /\ ring \in [1 .. world -> 0 .. world - 1] /\ Range(ring) = 0 .. world - 1 /\ Len(ring) = world
    BY <2>1, <2>5, RingOf
  <2>p. PICK position \in Int : position = RingPosition(ring, r)
    BY <2>6, PositionOf
  <2>7. PICK rail, tags : /\ rail = CollectiveRailForChannel(t, c - 1)
                          /\ tags = [s \in 1 .. Len(ring) - 1 |-> RingDataTag(operation, 0, c - 1, s - 1)]
    OBVIOUS
  <2>a. PICK slice : slice = [k \in 0 .. world - 1 |-> Cells("output", k * length + start, size)]
    OBVIOUS
  <2>b. \A k \in 0 .. world - 1 : Range(slice[k]) \subseteq S
    BY <2>4, <2>a
  <2>c. PICK chunks : chunks = [i \in 1 .. world |-> slice[ring[i]]]
    OBVIOUS
  <2>d. chunks = [i \in 1 .. world |-> Cells("output", ring[i] * length + start, size)]
    BY <2>6, <2>a, <2>c
  <2>8. Within(Walk(ring, position, 0, chunks, rail, tags, "copy"), S)
    <3>1. 0 \in Int
      OBVIOUS
    <3>2. PICK mode : mode = "copy"
      OBVIOUS
    <3> QED BY <2>6, <2>b, <2>c, <3>1, <3>2, SliceWalkWithin
  <2>9. E(c) = Walk(ring, position, 0, chunks, rail, tags, "copy")
    BY <2>3, <2>5, <2>6, <2>7, <2>p, <2>d DEF AllGatherRingChannel
  <2> QED BY <2>2, <2>8, <2>9, Zenon
<1>5. threads = [c \in 1 .. n |-> threads[c]] /\ \A c \in 1 .. n : Within(threads[c], Own(spans, n, c - 1))
  <2> HIDE DEF E
  <2> QED BY <1>2, <1>4
<1>6. PlainPhase(Scope(threads))
  BY <1>3, <1>5, ScopeOwned
<1>7. AllGatherRing(t, r, operation, length) = <<Scope(threads)>>
  BY <1>1, <1>2 DEF AllGatherRing
<1> QED
  BY <1>6, <1>7, OnePhase

(* reduce_scatter over rings.                                               *)
LEMMA ReduceScatterRingPlain ==
  ASSUME NEW t, NEW world \in Nat \ {0}, WellFormedTuning(t, world), NEW r \in 0 .. world - 1,
         NEW operation, NEW length \in Nat
  PROVE  PlainProgram(ReduceScatterRing(t, r, operation, length))
<1>0. PICK width \in Nat : width = length \div Len(t.rings[1])
  <2>1. Len(t.rings[1]) = world
    <3>1. 1 \in 1 .. Len(t.rings)
      BY DEF WellFormedTuning
    <3>2. t.rings[1] = [i \in 1 .. world |-> t.rings[1][i]] /\ world \in Nat
      BY <3>1 DEF WellFormedTuning
    <3> QED BY <3>2, FunctionList
  <2> QED BY <2>1, Division
<1>1. PICK n \in Nat \ {0} : n = EffectiveRingChannels(t.channels, width)
  BY ChannelsRun DEF WellFormedTuning
<1> DEFINE E(c) == ReduceScatterRingChannel(t, r, operation, width, BalancedStart(width, n, c - 1),
                            BalancedLength(width, n, c - 1), c - 1)
<1>2. PICK threads : threads = [c \in 1 .. n |-> E(c)]
  OBVIOUS
<1>3. PICK spans :
           /\ Spans(spans)
           /\ \A p \in 0 .. n - 1 :
                /\ \A k \in 0 .. world - 1 :
                     Range(Cells("working", k * width + BalancedStart(width, n, p), BalancedLength(width, n, p)))
                       \subseteq Own(spans, n, p)
                /\ Range(Cells("output", BalancedStart(width, n, p), BalancedLength(width, n, p)))
                     \subseteq Own(spans, n, p)
  <2>1. world \in Nat /\ "working" # "output"
    OBVIOUS
  <2> QED BY <2>1, StripeSpans
<1>4. ASSUME NEW c \in 1 .. n PROVE Within(E(c), Own(spans, n, c - 1))
  <2>1. c - 1 \in 0 .. n - 1 /\ c - 1 \in Nat
    OBVIOUS
  <2>2. PICK S : S = Own(spans, n, c - 1)
    OBVIOUS
  <2>3. PICK start, size : start = BalancedStart(width, n, c - 1) /\ size = BalancedLength(width, n, c - 1)
    OBVIOUS
  <2>4. /\ \A k \in 0 .. world - 1 : Range(Cells("working", k * width + start, size)) \subseteq S
        /\ Range(Cells("output", start, size)) \subseteq S
    BY <1>3, <2>1, <2>2, <2>3
  <2>5. PICK ring : ring = RingOrderForChannel(t, c - 1)
    OBVIOUS
  <2>6. /\ ring \in [1 .. world -> 0 .. world - 1] /\ Range(ring) = 0 .. world - 1 /\ Len(ring) = world
    BY <2>1, <2>5, RingOf
  <2>p. PICK position \in Int : position = RingPosition(ring, r)
    BY <2>6, PositionOf
  <2>7. PICK rail, tags : /\ rail = CollectiveRailForChannel(t, c - 1)
                          /\ tags = [s \in 1 .. Len(ring) - 1 |-> RingDataTag(operation, 0, c - 1, s - 1)]
    OBVIOUS
  <2>a. PICK slice : slice = [k \in 0 .. world - 1 |-> Cells("working", k * width + start, size)]
    OBVIOUS
  <2>b. \A k \in 0 .. world - 1 : Range(slice[k]) \subseteq S
    BY <2>4, <2>a
  <2>c. PICK chunks : chunks = [i \in 1 .. world |-> slice[ring[i]]]
    OBVIOUS
  <2>d. chunks = [i \in 1 .. world |-> Cells("working", ring[i] * width + start, size)]
    BY <2>6, <2>a, <2>c
  <2>8. PICK a, b : /\ a = Walk(ring, position, -1, chunks, rail, tags, "reduce")
                    /\ b = Move(Cells("working", r * width + start, size), Cells("output", start, size))
    OBVIOUS
  <2>9. Within(a, S)
    <3>1. -1 \in Int
      OBVIOUS
    <3> QED BY <2>6, <2>8, <2>b, <2>c, <3>1, SliceWalkWithin
  <2>10. Within(<<b>>, S)
    <3>1. Plain(b) /\ Used(b) = Range(Cells("output", start, size)) \cup Range(Cells("working", r * width + start, size))
      BY <2>8, MovePlain
    <3> QED BY <2>4, <3>1, WithinOne
  <2>11. Within(a \o <<b>>, S)
    BY <2>9, <2>10, WithinJoined
  <2>12. E(c) = a \o <<b>>
    BY <2>3, <2>5, <2>6, <2>7, <2>p, <2>8, <2>d DEF ReduceScatterRingChannel
  <2> QED BY <2>2, <2>11, <2>12, Zenon
<1>5. threads = [c \in 1 .. n |-> threads[c]] /\ \A c \in 1 .. n : Within(threads[c], Own(spans, n, c - 1))
  <2> HIDE DEF E
  <2> QED BY <1>2, <1>4
<1>6. PlainPhase(Scope(threads))
  BY <1>3, <1>5, ScopeOwned
<1>7. ReduceScatterRing(t, r, operation, length) = <<Scope(threads)>>
  BY <1>0, <1>1, <1>2 DEF ReduceScatterRing
<1> QED
  BY <1>6, <1>7, OnePhase

-----------------------------------------------------------------------------
(* The sums of counts that PrefixOffset computes.                           *)

(* The running sum that it reads.                                           *)
Sums(f, n, counts) ==
  f = [k \in 0 .. n |-> IF k = 0 THEN 0 ELSE f[k - 1] + counts[k - 1]]

(* There is one.                                                            *)
LEMMA SumsExist ==
  ASSUME NEW counts, NEW n \in Nat, \A k \in 0 .. n - 1 : counts[k] \in Nat
  PROVE  \E f \in [0 .. n -> Nat] : Sums(f, n, counts)
<1> DEFINE G == [x \in Nat \X Nat |-> x[1] + (IF x[2] \in 1 .. n THEN counts[x[2] - 1] ELSE 0)]
<1>1. G \in [Nat \X Nat -> Nat]
  <2>1. \A k \in 1 .. n : counts[k - 1] \in Nat
    OBVIOUS
  <2> QED BY <2>1
<1>2. PICK f : Iterates(f, n, Nat, 0, G)
  <2> HIDE DEF G
  <2> QED BY <1>1, IterationUpTo
<1>3. f \in [0 .. n -> Nat] /\ f[0] = 0 /\ \A k \in 0 .. n - 1 : f[k + 1] = G[<<f[k], k + 1>>]
  <2> HIDE DEF G
  <2> QED BY <1>2 DEF Iterates
<1>4. ASSUME NEW k \in 0 .. n, k # 0 PROVE f[k] = f[k - 1] + counts[k - 1]
  <2>1. k - 1 \in 0 .. n - 1 /\ k \in 1 .. n /\ (k - 1) + 1 = k /\ f[k - 1] \in Nat
    BY <1>3, <1>4
  <2>2. f[k] = G[<<f[k - 1], k>>]
    BY <1>3, <2>1
  <2> QED BY <2>1, <2>2
<1>5. Sums(f, n, counts)
  BY <1>3, <1>4 DEF Sums
<1> QED BY <1>3, <1>5

(* Two of them agree.                                                       *)
LEMMA SumsAgree ==
  ASSUME NEW counts, NEW n \in Nat, NEW m \in Nat, n <= m,
         NEW f, NEW h, Sums(f, n, counts), Sums(h, m, counts)
  PROVE  f[n] = h[n]
<1> DEFINE Bad == {k \in 0 .. n : f[k] # h[k]}
<1> SUFFICES ASSUME Bad # {} PROVE FALSE
  OBVIOUS
<1>0. Bad \in SUBSET Nat
  OBVIOUS
<1>1. PICK k \in Bad : \A y \in Bad : k <= y
  BY <1>0, LeastElement
<1>2. /\ f[k] = IF k = 0 THEN 0 ELSE f[k - 1] + counts[k - 1]
      /\ h[k] = IF k = 0 THEN 0 ELSE h[k - 1] + counts[k - 1]
  <2>1. k \in 0 .. n /\ k \in 0 .. m
    OBVIOUS
  <2> QED BY <2>1 DEF Sums
<1>3. k # 0
  BY <1>2
<1>4. k - 1 \in 0 .. n /\ ~(k <= k - 1)
  BY <1>3
<1>5. f[k - 1] = h[k - 1]
  BY <1>1, <1>4
<1> QED
  BY <1>2, <1>3, <1>5

(* PrefixOffset adds one count after the other.                             *)
LEMMA OffsetSteps ==
  ASSUME NEW counts, NEW n \in Nat, \A k \in 0 .. n - 1 : counts[k] \in Nat
  PROVE  /\ PrefixOffset(counts, 0) = 0
         /\ \A k \in 0 .. n : PrefixOffset(counts, k) \in Nat
         /\ \A k \in 0 .. n - 1 : PrefixOffset(counts, k + 1) = PrefixOffset(counts, k) + counts[k]
<1>1. PICK f \in [0 .. n -> Nat] : Sums(f, n, counts)
  BY SumsExist
<1>2. ASSUME NEW m \in 0 .. n PROVE PrefixOffset(counts, m) = f[m]
  <2> DEFINE h == CHOOSE h : Sums(h, m, counts)
  <2>1. \A k \in 0 .. m - 1 : counts[k] \in Nat
    OBVIOUS
  <2>a. \E g : Sums(g, m, counts)
    <3>1. m \in Nat
      OBVIOUS
    <3> QED BY <2>1, <3>1, SumsExist
  <2>2. Sums(h, m, counts)
    BY <2>a, Zenon
  <2>3. PrefixOffset(counts, m) = h[m]
    BY DEF PrefixOffset, Sums
  <2> HIDE DEF h
  <2>4. m \in Nat /\ m <= n
    OBVIOUS
  <2>5. h[m] = f[m]
    BY <1>1, <2>2, <2>4, SumsAgree
  <2> QED BY <2>3, <2>5
<1>3. f[0] = 0 /\ \A k \in 0 .. n - 1 : f[k + 1] = f[k] + counts[k]
  <2>1. f[0] = 0
    BY <1>1 DEF Sums
  <2>2. ASSUME NEW k \in 0 .. n - 1 PROVE f[k + 1] = f[k] + counts[k]
    <3>1. k + 1 \in 0 .. n /\ k + 1 # 0 /\ (k + 1) - 1 = k
      OBVIOUS
    <3> QED BY <1>1, <3>1 DEF Sums
  <2> QED BY <2>1, <2>2
<1> QED BY <1>1, <1>2, <1>3

(* The offsets grow.                                                        *)
LEMMA OffsetGrows ==
  ASSUME NEW counts, NEW n \in Nat, \A k \in 0 .. n - 1 : counts[k] \in Nat,
         NEW i \in 0 .. n - 1, NEW j \in 0 .. n - 1, i < j
  PROVE  PrefixOffset(counts, i) + counts[i] <= PrefixOffset(counts, j)
<1> DEFINE T(k) == PrefixOffset(counts, k)
           Bad == {k \in i + 1 .. n : ~(T(i) + counts[i] <= T(k))}
<1>1. /\ \A k \in 0 .. n : T(k) \in Nat
      /\ \A k \in 0 .. n - 1 : T(k + 1) = T(k) + counts[k]
  BY OffsetSteps
<1> HIDE DEF T
<1> SUFFICES ASSUME Bad # {} PROVE FALSE
  BY DEF T
<1>2. Bad \in SUBSET Nat
  OBVIOUS
<1>3. PICK k \in Bad : \A y \in Bad : k <= y
  BY <1>2, LeastElement
<1>4. k # i + 1
  BY <1>1
<1>5. /\ k - 1 \in i + 1 .. n /\ k - 1 \in 0 .. n - 1 /\ (k - 1) + 1 = k /\ ~(k <= k - 1)
      /\ counts[k - 1] \in Nat /\ counts[i] \in Nat
  BY <1>4
<1>6. T(i) + counts[i] <= T(k - 1)
  BY <1>3, <1>5
<1>7. T(k) = T(k - 1) + counts[k - 1] /\ T(k - 1) \in Nat /\ T(i) \in Nat
  BY <1>1, <1>5
<1> QED BY <1>5, <1>6, <1>7

-----------------------------------------------------------------------------
(* The programs of the pairwise exchanges.                                  *)

(* One step: the channels split what is sent and what is received.          *)
LEMMA PairwiseStepPlain ==
  ASSUME NEW t, NEW destination, NEW source, NEW tags, NEW n \in Nat \ {0}, Len(tags) = n,
         NEW send_start \in Nat, NEW send_length \in Nat,
         NEW receive_start \in Nat, NEW receive_length \in Nat
  PROVE  PlainProgram(PairwiseStep(t, destination, source, tags, send_start, send_length,
                                   receive_start, receive_length))
<1> DEFINE Out(c) == Cells("input", send_start + BalancedStart(send_length, n, c - 1),
                           BalancedLength(send_length, n, c - 1))
           In(c) == Cells("received", receive_start + BalancedStart(receive_length, n, c - 1),
                          BalancedLength(receive_length, n, c - 1))
           E(c) == Exchange(destination, source, CollectiveRailForChannel(t, c - 1), tags[c],
                            Out(c), In(c), "copy")
           spans == [k \in {0, 1} |->
                       IF k = 0 THEN [buffer |-> "input", start |-> send_start, length |-> send_length]
                       ELSE [buffer |-> "received", start |-> receive_start, length |-> receive_length]]
<1>1. PICK threads : threads = [c \in 1 .. n |-> E(c)]
  OBVIOUS
<1>2. /\ DOMAIN spans = {0, 1}
      /\ spans[0].buffer = "input" /\ spans[0].start = send_start /\ spans[0].length = send_length
      /\ spans[1].buffer = "received" /\ spans[1].start = receive_start /\ spans[1].length = receive_length
  OBVIOUS
<1>3. Spans(spans)
  <2> HIDE DEF spans
  <2> QED BY <1>2 DEF Spans
<1>4. ASSUME NEW c \in 1 .. n PROVE Within(E(c), Own(spans, n, c - 1))
  <2> HIDE DEF spans
  <2>1. c - 1 \in 0 .. n - 1
    OBVIOUS
  <2>2. Range(Out(c)) \subseteq Own(spans, n, c - 1)
    BY <1>2, <1>3, <2>1, PieceOwned
  <2>3. Range(In(c)) \subseteq Own(spans, n, c - 1)
    BY <1>2, <1>3, <2>1, PieceOwned
  <2> HIDE DEF Out, In
  <2> QED BY <2>2, <2>3, ExchangeWithin
<1>5. threads = [c \in 1 .. n |-> threads[c]] /\ \A c \in 1 .. n : Within(threads[c], Own(spans, n, c - 1))
  <2> HIDE DEF E, spans
  <2> QED BY <1>1, <1>4
<1>6. PlainPhase(Scope(threads))
  <2> HIDE DEF spans
  <2> QED BY <1>3, <1>5, ScopeOwned
<1>7. PICK from, to : /\ from = Cells("received", receive_start, receive_length)
                      /\ to = Cells("output", receive_start, receive_length)
  OBVIOUS
<1>8. PICK main : main = IF receive_length = 0 THEN <<>> ELSE <<Move(from, to)>>
  OBVIOUS
<1>9. Within(main, Range(to) \cup Range(from))
  <2>1. Within(<<>>, Range(to) \cup Range(from))
    BY WithinNone
  <2>2. Within(<<Move(from, to)>>, Range(to) \cup Range(from))
    BY MovePlain, WithinOne
  <2> QED BY <1>8, <2>1, <2>2
<1>10. PlainPhase(Main(main))
  BY <1>9, MainPlain
<1>11. PairwiseStep(t, destination, source, tags, send_start, send_length, receive_start, receive_length)
         = <<Scope(threads), Main(main)>>
  BY <1>1, <1>7, <1>8 DEF PairwiseStep
<1> QED
  BY <1>6, <1>10, <1>11, TwoPhases

(* The first ring and the rank on it.                                       *)
LEMMA FirstRing ==
  ASSUME NEW t, NEW world \in Nat \ {0}, WellFormedTuning(t, world), NEW r \in 0 .. world - 1
  PROVE  /\ t.rings[1] \in [1 .. world -> 0 .. world - 1] /\ Range(t.rings[1]) = 0 .. world - 1
         /\ Len(t.rings[1]) = world
         /\ RingPosition(t.rings[1], r) \in 0 .. world - 1
         /\ t.rings[1][RingPosition(t.rings[1], r) + 1] = r
<1>1. PICK ring : ring = t.rings[1]
  OBVIOUS
<1>2. ring \in [1 .. world -> 0 .. world - 1] /\ Range(ring) = 0 .. world - 1
  <2>1. 1 \in 1 .. Len(t.rings)
    BY DEF WellFormedTuning
  <2> QED BY <1>1, <2>1 DEF WellFormedTuning
<1>3. Len(ring) = world
  <2>1. ring = [i \in 1 .. world |-> ring[i]] /\ world \in Nat
    BY <1>2
  <2> QED BY <2>1, FunctionList
<1>4. RingPosition(ring, r) \in 0 .. world - 1 /\ ring[RingPosition(ring, r) + 1] = r
  BY <1>2, <1>3, PositionOf
<1> QED
  BY <1>1, <1>2, <1>3, <1>4

(* An entry of a ring is a rank.                                            *)
LEMMA AtRank ==
  ASSUME NEW world \in Nat \ {0}, NEW ring, Len(ring) = world, ring \in [1 .. world -> 0 .. world - 1],
         NEW i \in Int
  PROVE  At(ring, i) \in 0 .. world - 1
<1>1. PICK j \in 1 .. world : At(ring, i) = ring[j]
  BY AtEntry
<1> QED
  BY <1>1

(* all_to_all by pairs.                                                     *)
LEMMA AllToAllPlain ==
  ASSUME NEW t, NEW world \in Nat \ {0}, WellFormedTuning(t, world), NEW r \in 0 .. world - 1,
         NEW operation, NEW length \in Nat
  PROVE  PlainProgram(AllToAllPairwise(t, r, operation, length))
<1>1. PICK ring, position : ring = t.rings[1] /\ position = RingPosition(ring, r)
  OBVIOUS
<1>2. ring \in [1 .. world -> 0 .. world - 1] /\ Len(ring) = world /\ position \in Int
  <2>1. /\ t.rings[1] \in [1 .. world -> 0 .. world - 1] /\ Len(t.rings[1]) = world
        /\ RingPosition(t.rings[1], r) \in 0 .. world - 1
    BY FirstRing
  <2>2. position \in 0 .. world - 1
    BY <1>1, <2>1, Zenon
  <2> QED BY <1>1, <2>1, <2>2
<1>3. PICK shard \in Nat : shard = length \div Len(ring)
  BY <1>2, Division
<1>4. PICK n \in Nat \ {0} : n = EffectiveRingChannels(t.channels, shard)
  BY ChannelsRun DEF WellFormedTuning
<1> DEFINE destination(s) == At(ring, position + s)
           source(s) == At(ring, position - s)
           E(s) == PairwiseStep(t, destination(s), source(s),
                       [c \in 1 .. n |-> RingDataTag(operation, 0, c - 1, s)],
                       destination(s) * shard, shard, source(s) * shard, shard)
<1>5. PICK m \in Nat : m = Len(ring) - 1
  BY <1>2
<1>6. PICK seqs : seqs = [s \in 1 .. m |-> E(s)]
  OBVIOUS
<1>7. ASSUME NEW s \in 1 .. m PROVE PlainProgram(E(s))
  <2>1. position + s \in Int /\ position - s \in Int
    BY <1>2
  <2>2. destination(s) \in 0 .. world - 1 /\ source(s) \in 0 .. world - 1
    BY <1>2, <2>1, AtRank
  <2> HIDE DEF destination, source
  <2>3. PICK tags : tags = [c \in 1 .. n |-> RingDataTag(operation, 0, c - 1, s)]
    OBVIOUS
  <2>4. Len(tags) = n
    <3>1. tags = [c \in 1 .. n |-> tags[c]] /\ n \in Nat
      BY <2>3
    <3> QED BY <3>1, FunctionList
  <2>5. PICK a \in Nat, b \in Nat : a = destination(s) * shard /\ b = source(s) * shard
    <3>1. destination(s) * shard \in Nat /\ source(s) * shard \in Nat
      BY <2>2
    <3> QED BY <3>1
  <2>6. PlainProgram(PairwiseStep(t, destination(s), source(s), tags, a, shard, b, shard))
    BY <2>4, PairwiseStepPlain
  <2> QED BY <2>3, <2>5, <2>6
<1>8. seqs = [s \in 1 .. m |-> seqs[s]] /\ \A s \in 1 .. m : PlainProgram(seqs[s])
  <2> HIDE DEF E
  <2> QED BY <1>6, <1>7
<1>9. PlainProgram(FlattenSeq(seqs))
  BY <1>8, ProgramsFlat
<1>10. AllToAllPairwise(t, r, operation, length) = FlattenSeq(seqs)
  BY <1>1, <1>3, <1>4, <1>5, <1>6 DEF AllToAllPairwise
<1> QED
  BY <1>9, <1>10

(* The data of all_to_all_v, laid out by the counts.                        *)
LEMMA AllToAllVDataPlain ==
  ASSUME NEW t, NEW world \in Nat \ {0}, WellFormedTuning(t, world), NEW r \in 0 .. world - 1,
         NEW operation, NEW send, NEW receive,
         \A d \in 0 .. world - 1 : send[d] \in Nat /\ receive[d] \in Nat
  PROVE  PlainProgram(AllToAllVData(t, r, operation, send, receive))
<1>1. PICK ring, position : ring = t.rings[1] /\ position = RingPosition(ring, r)
  OBVIOUS
<1>2. ring \in [1 .. world -> 0 .. world - 1] /\ Len(ring) = world /\ position \in Int
  <2>1. /\ t.rings[1] \in [1 .. world -> 0 .. world - 1] /\ Len(t.rings[1]) = world
        /\ RingPosition(t.rings[1], r) \in 0 .. world - 1
    BY FirstRing
  <2>2. position \in 0 .. world - 1
    BY <1>1, <2>1, Zenon
  <2> QED BY <1>1, <2>1, <2>2
<1>3. PICK n \in Nat \ {0} : n = Max({t.channels, 1})
  <2>0. PICK k \in Nat \ {0} : k = t.channels
    BY DEF WellFormedTuning
  <2>1. \E x \in {k, 1} : \A y \in {k, 1} : x >= y
    OBVIOUS
  <2>2. Max({k, 1}) \in {k, 1}
    BY <2>1 DEF Max
  <2> QED BY <2>0, <2>2
<1> DEFINE destination(s) == At(ring, position + s)
           source(s) == At(ring, position - s)
           E(s) == PairwiseStep(t, destination(s), source(s),
                       [c \in 1 .. n |-> RingDataTag(operation, 1, c - 1, s)],
                       PrefixOffset(send, destination(s)), send[destination(s)],
                       PrefixOffset(receive, source(s)), receive[source(s)])
<1>4. \A d \in 0 .. world - 1 : PrefixOffset(send, d) \in Nat /\ PrefixOffset(receive, d) \in Nat
  <2>1. world \in Nat /\ \A d \in 0 .. world - 1 : send[d] \in Nat
    OBVIOUS
  <2>2. \A d \in 0 .. world : PrefixOffset(send, d) \in Nat
    BY <2>1, OffsetSteps
  <2>3. \A d \in 0 .. world - 1 : receive[d] \in Nat
    OBVIOUS
  <2>4. \A d \in 0 .. world : PrefixOffset(receive, d) \in Nat
    BY <2>1, <2>3, OffsetSteps
  <2> QED BY <2>2, <2>4
<1>5. PICK m \in Nat : m = Len(ring) - 1
  BY <1>2
<1>6. PICK seqs : seqs = [s \in 1 .. m |-> E(s)]
  OBVIOUS
<1>7. ASSUME NEW s \in 1 .. m PROVE PlainProgram(E(s))
  <2>1. position + s \in Int /\ position - s \in Int
    BY <1>2
  <2>2. destination(s) \in 0 .. world - 1 /\ source(s) \in 0 .. world - 1
    BY <1>2, <2>1, AtRank
  <2> HIDE DEF destination, source
  <2>3. PICK tags : tags = [c \in 1 .. n |-> RingDataTag(operation, 1, c - 1, s)]
    OBVIOUS
  <2>4. Len(tags) = n
    <3>1. tags = [c \in 1 .. n |-> tags[c]] /\ n \in Nat
      BY <2>3
    <3> QED BY <3>1, FunctionList
  <2>5. PICK a \in Nat, b \in Nat, x \in Nat, y \in Nat :
          /\ a = PrefixOffset(send, destination(s)) /\ x = send[destination(s)]
          /\ b = PrefixOffset(receive, source(s)) /\ y = receive[source(s)]
    BY <1>4, <2>2
  <2>6. PlainProgram(PairwiseStep(t, destination(s), source(s), tags, a, x, b, y))
    BY <2>4, PairwiseStepPlain
  <2> QED BY <2>3, <2>5, <2>6
<1>8. seqs = [s \in 1 .. m |-> seqs[s]] /\ \A s \in 1 .. m : PlainProgram(seqs[s])
  <2> HIDE DEF E
  <2> QED BY <1>6, <1>7
<1>9. PlainProgram(FlattenSeq(seqs))
  BY <1>8, ProgramsFlat
<1>10. PICK from, to : /\ from = Cells("input", PrefixOffset(send, r), send[r])
                       /\ to = Cells("output", PrefixOffset(receive, r), send[r])
  OBVIOUS
<1>11. PICK main : main = IF send[r] = 0 THEN <<>> ELSE <<Move(from, to)>>
  OBVIOUS
<1>12. PlainProgram(<<Main(main)>>)
  <2>1. Within(<<>>, Range(to) \cup Range(from))
    BY WithinNone
  <2>2. Within(<<Move(from, to)>>, Range(to) \cup Range(from))
    BY MovePlain, WithinOne
  <2>3. Within(main, Range(to) \cup Range(from))
    BY <1>11, <2>1, <2>2
  <2> QED BY <2>3, MainPlain, OnePhase
<1>13. PICK b : b = FlattenSeq(seqs)
  OBVIOUS
<1>14. PlainProgram(<<Main(main)>> \o b)
  BY <1>9, <1>12, <1>13, ProgramsJoined
<1>15. AllToAllVData(t, r, operation, send, receive) = <<Main(main)>> \o b
  BY <1>1, <1>3, <1>5, <1>6, <1>10, <1>11, <1>13 DEF AllToAllVData
<1> QED
  BY <1>14, <1>15

-----------------------------------------------------------------------------
(* The programs of the hierarchy.                                           *)

(* Threads that are alone.                                                  *)
LEMMA AlonePlain ==
  ASSUME NEW thread, PlainThread(thread)
  PROVE  PlainPhase(Main(thread))
<1>1. Within(thread, Touched(thread))
  BY DEF Within
<1> QED
  BY <1>1, MainPlain

(* One instruction.                                                         *)
LEMMA PlainOne ==
  ASSUME NEW i, Plain(i)
  PROVE  PlainThread(<<i>>)
<1>1. Within(<<i>>, Used(i))
  BY WithinOne
<1> QED
  BY <1>1 DEF Within

(* An instruction for each of 1 .. n.                                       *)
LEMMA PlainEach ==
  ASSUME NEW n \in Nat, NEW thread, thread = [m \in 1 .. n |-> thread[m]],
         \A m \in 1 .. n : Plain(thread[m])
  PROVE  PlainThread(thread)
<1>1. IsList(thread) /\ DOMAIN thread = 1 .. n
  BY FunctionList
<1>2. \A i \in Range(thread) : \E m \in 1 .. n : i = thread[m]
  BY <1>1 DEF Range
<1> QED
  BY <1>1, <1>2 DEF PlainThread

(* Two threads one after the other.                                         *)
LEMMA PlainJoined ==
  ASSUME NEW a, NEW b, PlainThread(a), PlainThread(b)
  PROVE  PlainThread(a \o b)
<1>1. PICK S : S = Touched(a) \cup Touched(b)
  OBVIOUS
<1>2. Within(a, S) /\ Within(b, S)
  BY <1>1 DEF Within
<1>3. Within(a \o b, S)
  BY <1>2, WithinJoined
<1> QED
  BY <1>3 DEF Within

(* The groups.                                                              *)
LEMMA GroupFacts ==
  ASSUME NEW t, NEW world \in Nat \ {0}, WellFormedTuning(t, world), t.groups # <<>>,
         NEW r \in 0 .. world - 1
  PROVE  /\ Len(t.groups) \in Nat \ {0}
         /\ \A g \in 1 .. Len(t.groups) : Len(t.groups[g]) \in Nat \ {0}
         /\ GroupOf(t, r) \in 1 .. Len(t.groups)
         /\ Len(Members(t, r)) \in Nat
<1>1. PICK groups, R : groups = t.groups /\ R = 0 .. world - 1
  OBVIOUS
<1>2. /\ groups \in Seq(Seq(R)) /\ groups # <<>> /\ \A g \in DOMAIN groups : groups[g] # <<>>
      /\ \E g \in DOMAIN groups : r \in Range(groups[g])
  BY <1>1 DEF WellFormedTuning
<1>3. Len(groups) \in Nat \ {0} /\ DOMAIN groups = 1 .. Len(groups)
  BY <1>2
<1>4. \A g \in 1 .. Len(groups) : groups[g] \in Seq(R) /\ groups[g] # <<>>
  BY <1>2, <1>3
<1>5. ASSUME NEW s \in Seq(R), s # <<>>
      PROVE  Len(s) \in Nat \ {0} /\ Len(Tail(s)) \in Nat /\ DOMAIN s = 1 .. Len(s)
  BY <1>5
<1>6. \E g \in 1 .. Len(groups) : \E i \in 1 .. Len(groups[g]) : groups[g][i] = r
  <2>1. PICK g \in 1 .. Len(groups) : r \in Range(groups[g])
    BY <1>2, <1>3
  <2>2. PICK s : s = groups[g]
    OBVIOUS
  <2>3. DOMAIN s = 1 .. Len(s)
    BY <1>4, <1>5, <2>2
  <2>4. \E i \in 1 .. Len(s) : s[i] = r
    BY <2>1, <2>2, <2>3 DEF Range
  <2> QED BY <2>2, <2>4
<1>7. PICK h : h = GroupOf(t, r)
  OBVIOUS
<1>8. h = CHOOSE g \in 1 .. Len(groups) : \E i \in 1 .. Len(groups[g]) : groups[g][i] = r
  BY <1>1, <1>7 DEF GroupOf
<1>9. h \in 1 .. Len(groups)
  BY <1>6, <1>8
<1>10. Len(Tail(groups[h])) \in Nat
  BY <1>4, <1>5, <1>9
<1>11. Members(t, r) = Tail(groups[h])
  BY <1>1, <1>7 DEF Members
<1> QED
  BY <1>1, <1>3, <1>4, <1>5, <1>7, <1>9, <1>10, <1>11

(* Values go on the rail of their tag.                                      *)
LEMMA ValuesPlain ==
  ASSUME NEW t, NEW peer, NEW tag, NEW cells, NEW mode
  PROVE  Plain(SendValues(t, peer, tag, cells)) /\ Plain(ReceiveValues(t, peer, tag, cells, mode))
BY SendPlain, ReceivePlain DEF SendValues, ReceiveValues

(* What a member does.                                                      *)
LEMMA MemberPlain ==
  ASSUME NEW t, NEW r, NEW up, NEW down, NEW sent, NEW received
  PROVE  PlainProgram(MemberProgram(t, r, up, down, sent, received))
<1>1. PICK leader : leader = t.groups[GroupOf(t, r)][1]
  OBVIOUS
<1>2. PICK i, j : i = SendValues(t, leader, up, sent) /\ j = ReceiveValues(t, leader, down, received, "copy")
  OBVIOUS
<1>3. Plain(i) /\ Plain(j)
  BY <1>2, ValuesPlain
<1>4. Within(<<i, j>>, Used(i) \cup Used(j))
  BY <1>3, WithinTwo
<1>5. PlainPhase(Main(<<i, j>>))
  BY <1>4, MainPlain
<1>6. MemberProgram(t, r, up, down, sent, received) = <<Main(<<i, j>>)>>
  BY <1>1, <1>2 DEF MemberProgram
<1> QED
  BY <1>5, <1>6, OnePhase

(* The ring of the leaders.                                                 *)
LEMMA LeadersRing ==
  ASSUME NEW t, Len(t.groups) \in Nat \ {0}
  PROVE  Len(Leaders(t)) = Len(t.groups)
<1>1. PICK s, n : s = Leaders(t) /\ n = Len(t.groups)
  OBVIOUS
<1>2. s = [g \in 1 .. n |-> s[g]] /\ n \in Nat
  BY <1>1 DEF Leaders
<1> QED
  BY <1>1, <1>2, FunctionList

(* A channel of the all-reduce of the leaders.                              *)
LEMMA LeaderAllReduceChannelWithin ==
  ASSUME NEW t, NEW world \in Nat \ {0}, WellFormedTuning(t, world), t.groups # <<>>,
         NEW r \in 0 .. world - 1,
         NEW operation, NEW start \in Nat, NEW size \in Nat, NEW channel \in Nat
  PROVE  Within(LeaderAllReduceRingChannel(t, r, operation, start, size, channel),
                Range(Cells("buffer", start, size)))
<1>1. PICK ring, w : ring = Leaders(t) /\ w = Len(t.groups)
  OBVIOUS
<1>a. /\ Len(t.groups) \in Nat \ {0} /\ GroupOf(t, r) \in 1 .. Len(t.groups)
  BY GroupFacts
<1>2. Len(ring) = w /\ w \in Nat \ {0}
  BY <1>1, <1>a, LeadersRing
<1>3. PICK position \in Int : position = GroupOf(t, r) - 1
  BY <1>a
<1>4. PICK chunks : chunks = [i \in 1 .. Len(ring) |->
                   Cells("buffer", start + BalancedStart(size, Len(ring), i - 1),
                         BalancedLength(size, Len(ring), i - 1))]
  OBVIOUS
<1>5. Len(chunks) = Len(ring)
  <2>1. chunks = [i \in 1 .. w |-> chunks[i]] /\ w \in Nat
    BY <1>2, <1>4
  <2> QED BY <1>2, <2>1, FunctionList
<1>6. PICK S : S = Range(Cells("buffer", start, size))
  OBVIOUS
<1>7. ASSUME NEW i \in 1 .. Len(ring) PROVE Range(chunks[i]) \subseteq S
  <2>1. i - 1 \in 0 .. w - 1
    BY <1>2
  <2>2. chunks[i] = Cells("buffer", start + BalancedStart(size, w, i - 1), BalancedLength(size, w, i - 1))
    BY <1>2, <1>4
  <2> QED BY <1>2, <1>6, <2>1, <2>2, PartInside
<1>8. PICK rail, up, down : /\ rail = CollectiveRailForChannel(t, channel)
                            /\ up = LeaderTags(t, operation, 1, channel)
                            /\ down = LeaderTags(t, operation, 2, channel)
  OBVIOUS
<1>9. PICK a, b : /\ a = Walk(ring, position, 0, chunks, rail, up, "reduce")
                  /\ b = Walk(ring, position, 1, chunks, rail, down, "copy")
  OBVIOUS
<1>10. Within(a, S) /\ Within(b, S)
  BY <1>2, <1>5, <1>7, <1>9, WalkWithin
<1>11. Within(a \o b, S)
  BY <1>10, WithinJoined
<1>12. LeaderAllReduceRingChannel(t, r, operation, start, size, channel) = a \o b
  BY <1>1, <1>3, <1>4, <1>8, <1>9 DEF LeaderAllReduceRingChannel
<1> QED
  BY <1>6, <1>11, <1>12

(* The all-reduce of the leaders.                                           *)
LEMMA LeaderAllReducePlain ==
  ASSUME NEW t, NEW world \in Nat \ {0}, WellFormedTuning(t, world), t.groups # <<>>,
         NEW r \in 0 .. world - 1, NEW operation, NEW length \in Nat
  PROVE  PlainPhase(LeaderAllReduceRing(t, r, operation, length))
<1>1. PICK n \in Nat \ {0} : n = EffectiveRingChannels(t.channels, length)
  BY ChannelsRun DEF WellFormedTuning
<1> DEFINE E(c) == LeaderAllReduceRingChannel(t, r, operation, BalancedStart(length, n, c - 1),
                            BalancedLength(length, n, c - 1), c - 1)
<1>2. PICK threads : threads = [c \in 1 .. n |-> E(c)]
  OBVIOUS
<1>3. PICK spans : /\ Spans(spans)
                   /\ \A p \in 0 .. n - 1 :
                         Range(Cells("buffer", BalancedStart(length, n, p), BalancedLength(length, n, p)))
                           \subseteq Own(spans, n, p)
  BY OneSpan
<1>4. ASSUME NEW c \in 1 .. n PROVE Within(E(c), Own(spans, n, c - 1))
  <2>1. c - 1 \in 0 .. n - 1 /\ c - 1 \in Nat
    OBVIOUS
  <2>2. BalancedStart(length, n, c - 1) \in Nat /\ BalancedLength(length, n, c - 1) \in Nat
    BY <2>1, PartType
  <2>3. Within(E(c), Range(Cells("buffer", BalancedStart(length, n, c - 1), BalancedLength(length, n, c - 1))))
    BY <2>1, <2>2, LeaderAllReduceChannelWithin
  <2> QED BY <1>3, <2>1, <2>3, WithinMore
<1>5. threads = [c \in 1 .. n |-> threads[c]] /\ \A c \in 1 .. n : Within(threads[c], Own(spans, n, c - 1))
  <2> HIDE DEF E
  <2> QED BY <1>2, <1>4
<1>6. PlainPhase(Scope(threads))
  BY <1>3, <1>5, ScopeOwned
<1>7. LeaderAllReduceRing(t, r, operation, length) = Scope(threads)
  BY <1>1, <1>2 DEF LeaderAllReduceRing
<1> QED
  BY <1>6, <1>7

(* all_reduce over the hierarchy.                                           *)
LEMMA AllReduceHierarchicalPlain ==
  ASSUME NEW t, NEW world \in Nat \ {0}, WellFormedTuning(t, world), t.groups # <<>>,
         NEW r \in 0 .. world - 1, NEW operation, NEW length \in Nat
  PROVE  PlainProgram(AllReduceHierarchical(t, r, operation, length))
<1>1. PICK buffer, host, members, n : /\ buffer = Cells("buffer", 0, length) /\ host = Cells("host", 0, length)
                                      /\ members = Members(t, r) /\ n = Len(members)
  OBVIOUS
<1>2. n \in Nat
  BY <1>1, GroupFacts
<1>3. CASE ~IsLeader(t, r)
  <2>1. PICK up, down : up = HierarchyDataTag(operation, 0, r) /\ down = HierarchyDataTag(operation, 3, r)
    OBVIOUS
  <2>2. AllReduceHierarchical(t, r, operation, length) = MemberProgram(t, r, up, down, buffer, buffer)
    BY <1>1, <1>3, <2>1 DEF AllReduceHierarchical
  <2> QED BY <2>2, MemberPlain
<1>4. CASE IsLeader(t, r)
  <2> DEFINE In(m) == ReceiveValues(t, members[m], HierarchyDataTag(operation, 0, members[m]), buffer, "reduce")
             Out(m) == SendValues(t, members[m], HierarchyDataTag(operation, 3, members[m]), host)
  <2>1. PICK in, out, move : /\ in = [m \in 1 .. n |-> In(m)] /\ out = [m \in 1 .. n |-> Out(m)]
                             /\ move = Move(buffer, host)
    OBVIOUS
  <2>2. \A m \in 1 .. n : Plain(In(m)) /\ Plain(Out(m))
    BY ValuesPlain
  <2>3. /\ in = [m \in 1 .. n |-> in[m]] /\ out = [m \in 1 .. n |-> out[m]]
        /\ \A m \in 1 .. n : Plain(in[m]) /\ Plain(out[m])
    <3> HIDE DEF In, Out
    <3> QED BY <2>1, <2>2
  <2>4. PlainThread(in) /\ PlainThread(out)
    BY <1>2, <2>3, PlainEach
  <2>5. PlainThread(<<move>>)
    BY <2>1, MovePlain, PlainOne
  <2>6. PICK spread : spread = <<move>> \o out
    OBVIOUS
  <2>7. PlainThread(spread)
    BY <2>4, <2>5, <2>6, PlainJoined
  <2>8. PlainPhase(Main(in)) /\ PlainPhase(Main(spread))
    BY <2>4, <2>7, AlonePlain
  <2>9. PlainPhase(LeaderAllReduceRing(t, r, operation, length))
    BY LeaderAllReducePlain
  <2>10. AllReduceHierarchical(t, r, operation, length)
           = <<Main(in), LeaderAllReduceRing(t, r, operation, length), Main(spread)>>
    BY <1>1, <1>4, <2>1, <2>6 DEF AllReduceHierarchical
  <2> QED BY <2>8, <2>9, <2>10, ThreePhases
<1> QED
  BY <1>3, <1>4

-----------------------------------------------------------------------------
(* The bundles of the groups.                                               *)

(* The bundles lie one after the other.                                     *)
LEMMA BundleSpans ==
  ASSUME NEW t, NEW world \in Nat \ {0}, WellFormedTuning(t, world), t.groups # <<>>,
         NEW buffer, NEW width \in Nat, NEW n \in Nat \ {0}
  PROVE  \E spans :
           /\ Spans(spans)
           /\ \A p \in 0 .. n - 1 : \A g \in 1 .. Len(t.groups) :
                Range(GroupPiece(t, buffer, g, width, n, p)) \subseteq Own(spans, n, p)
<1>0. 0 \in 0 .. world - 1
  OBVIOUS
<1>1. PICK w : w = Len(t.groups)
  OBVIOUS
<1>2. w \in Nat \ {0} /\ \A g \in 1 .. w : Len(t.groups[g]) \in Nat
  BY <1>0, <1>1, GroupFacts
<1>3. \A g \in 1 .. w : BundleLength(t, g, width) \in Nat
  <2> SUFFICES ASSUME NEW g \in 1 .. w PROVE BundleLength(t, g, width) \in Nat
    OBVIOUS
  <2>1. PICK k \in Nat : k = Len(t.groups[g])
    BY <1>2
  <2>2. k * width \in Nat
    OBVIOUS
  <2> QED BY <2>1, <2>2 DEF BundleLength
<1>4. PICK counts : counts = [h \in 0 .. w - 1 |-> BundleLength(t, h + 1, width)]
  OBVIOUS
<1>5. \A g \in 1 .. w : BundleStart(t, g, width) = PrefixOffset(counts, g - 1)
  BY <1>1, <1>4 DEF BundleStart
<1>6. ASSUME NEW g \in 1 .. w PROVE g - 1 \in 0 .. w - 1 /\ counts[g - 1] = BundleLength(t, g, width)
  <2>1. g - 1 \in 0 .. w - 1 /\ (g - 1) + 1 = g
    BY <1>2
  <2> QED BY <1>4, <2>1
<1>7. w \in Nat /\ \A k \in 0 .. w - 1 : counts[k] \in Nat
  <2> SUFFICES ASSUME NEW k \in 0 .. w - 1 PROVE counts[k] \in Nat
    BY <1>2
  <2>1. k + 1 \in 1 .. w
    BY <1>2
  <2> QED BY <1>3, <1>4, <2>1
<1>8. \A k \in 0 .. w : PrefixOffset(counts, k) \in Nat
  BY <1>7, OffsetSteps
<1>9. \A i, j \in 0 .. w - 1 : i < j => PrefixOffset(counts, i) + counts[i] <= PrefixOffset(counts, j)
  BY <1>7, OffsetGrows
<1> DEFINE spans == [g \in 1 .. w |-> [buffer |-> buffer, start |-> BundleStart(t, g, width),
                                        length |-> BundleLength(t, g, width)]]
<1>10. /\ DOMAIN spans = 1 .. w
       /\ \A g \in 1 .. w : /\ spans[g].buffer = buffer /\ spans[g].start = BundleStart(t, g, width)
                            /\ spans[g].length = BundleLength(t, g, width)
  OBVIOUS
<1> HIDE DEF spans
<1>11. ASSUME NEW g \in 1 .. w PROVE spans[g].start \in Nat /\ spans[g].length \in Nat
  <2>1. g - 1 \in 0 .. w
    BY <1>2
  <2> QED BY <1>3, <1>5, <1>8, <1>10, <2>1
<1>12. ASSUME NEW i \in 1 .. w, NEW j \in 1 .. w, i < j
       PROVE  spans[i].start + spans[i].length <= spans[j].start
  <2>1. i - 1 \in 0 .. w - 1 /\ j - 1 \in 0 .. w - 1 /\ i - 1 < j - 1
    BY <1>2, <1>12
  <2>2. PrefixOffset(counts, i - 1) + counts[i - 1] <= PrefixOffset(counts, j - 1)
    BY <1>9, <2>1
  <2> QED BY <1>5, <1>6, <1>10, <2>2
<1>13. Spans(spans)
  <2>1. \A i, j \in 1 .. w : i = j \/ i < j \/ j < i
    BY <1>2
  <2> QED BY <1>10, <1>11, <1>12, <2>1 DEF Spans
<1>14. ASSUME NEW p \in 0 .. n - 1, NEW g \in 1 .. w
       PROVE  Range(GroupPiece(t, buffer, g, width, n, p)) \subseteq Own(spans, n, p)
  <2>1. GroupPiece(t, buffer, g, width, n, p)
          = Cells(spans[g].buffer, spans[g].start + BalancedStart(spans[g].length, n, p),
                  BalancedLength(spans[g].length, n, p))
    BY <1>10 DEF GroupPiece
  <2>2. g \in DOMAIN spans
    BY <1>10
  <2> QED BY <1>13, <2>1, <2>2, PieceOwned
<1> QED
  BY <1>1, <1>13, <1>14

(* A walk of the leaders over the pieces of the bundles.                    *)
LEMMA BundleWalkWithin ==
  ASSUME NEW t, NEW world \in Nat \ {0}, WellFormedTuning(t, world), t.groups # <<>>,
         NEW r \in 0 .. world - 1, NEW piece, NEW S, NEW shift \in Int, NEW rail, NEW tags, NEW mode,
         \A g \in 1 .. Len(t.groups) : Range(piece[g]) \subseteq S,
         piece = [g \in 1 .. Len(t.groups) |-> piece[g]]
  PROVE  Within(Walk(Leaders(t), GroupOf(t, r) - 1, shift, piece, rail, tags, mode), S)
<1>1. PICK ring, w : ring = Leaders(t) /\ w = Len(t.groups)
  OBVIOUS
<1>2. /\ Len(t.groups) \in Nat \ {0} /\ GroupOf(t, r) \in 1 .. Len(t.groups)
  BY GroupFacts
<1>3. Len(ring) = w /\ w \in Nat \ {0}
  BY <1>1, <1>2, LeadersRing
<1>4. PICK position \in Int : position = GroupOf(t, r) - 1
  BY <1>2
<1>5. Len(piece) = Len(ring)
  <2>1. piece = [g \in 1 .. w |-> piece[g]] /\ w \in Nat
    BY <1>1, <1>3
  <2> QED BY <1>3, <2>1, FunctionList
<1>6. \A g \in 1 .. Len(ring) : Range(piece[g]) \subseteq S
  BY <1>1, <1>3
<1>7. Within(Walk(ring, position, shift, piece, rail, tags, mode), S)
  BY <1>3, <1>5, <1>6, WalkWithin
<1> QED
  BY <1>1, <1>4, <1>7

(* The all-gather of the leaders.                                           *)
LEMMA LeaderAllGatherPlain ==
  ASSUME NEW t, NEW world \in Nat \ {0}, WellFormedTuning(t, world), t.groups # <<>>,
         NEW r \in 0 .. world - 1, NEW operation, NEW length \in Nat
  PROVE  PlainPhase(LeaderAllGatherRing(t, r, length, operation))
<1>1. PICK n \in Nat \ {0} : n = EffectiveRingChannels(t.channels, length)
  BY ChannelsRun DEF WellFormedTuning
<1> DEFINE E(c) == LeaderAllGatherRingChannel(t, r, length, operation, c - 1, n)
<1>2. PICK threads : threads = [c \in 1 .. n |-> E(c)]
  OBVIOUS
<1>3. PICK spans :
           /\ Spans(spans)
           /\ \A p \in 0 .. n - 1 : \A g \in 1 .. Len(t.groups) :
                Range(GroupPiece(t, "bundle", g, length, n, p)) \subseteq Own(spans, n, p)
  BY BundleSpans
<1>4. ASSUME NEW c \in 1 .. n PROVE Within(E(c), Own(spans, n, c - 1))
  <2>1. c - 1 \in 0 .. n - 1
    OBVIOUS
  <2>2. PICK S : S = Own(spans, n, c - 1)
    OBVIOUS
  <2>3. PICK piece : piece = [g \in 1 .. Len(t.groups) |-> GroupPiece(t, "bundle", g, length, n, c - 1)]
    OBVIOUS
  <2>4. \A g \in 1 .. Len(t.groups) : Range(piece[g]) \subseteq S
    BY <1>3, <2>1, <2>2, <2>3
  <2>5. piece = [g \in 1 .. Len(t.groups) |-> piece[g]]
    BY <2>3
  <2>6. PICK rail, tags, mode, shift : /\ rail = CollectiveRailForChannel(t, c - 1) /\ shift \in Int
                                /\ tags = LeaderTags(t, operation, 5, c - 1) /\ mode = "copy" /\ shift = 0
    OBVIOUS
  <2>7. Within(Walk(Leaders(t), GroupOf(t, r) - 1, shift, piece, rail, tags, mode), S)
    <3>1. shift \in Int
      BY <2>6
    <3> QED BY <2>4, <2>5, <3>1, BundleWalkWithin
  <2>8. E(c) = Walk(Leaders(t), GroupOf(t, r) - 1, shift, piece, rail, tags, mode)
    BY <2>3, <2>6 DEF LeaderAllGatherRingChannel
  <2> QED BY <2>2, <2>7, <2>8, Zenon
<1>5. threads = [c \in 1 .. n |-> threads[c]] /\ \A c \in 1 .. n : Within(threads[c], Own(spans, n, c - 1))
  <2> HIDE DEF E
  <2> QED BY <1>2, <1>4
<1>6. PlainPhase(Scope(threads))
  BY <1>3, <1>5, ScopeOwned
<1>7. LeaderAllGatherRing(t, r, length, operation) = Scope(threads)
  BY <1>1, <1>2 DEF LeaderAllGatherRing
<1> QED
  BY <1>6, <1>7

(* all_gather over the hierarchy.                                           *)
LEMMA AllGatherHierarchicalPlain ==
  ASSUME NEW t, NEW world \in Nat \ {0}, WellFormedTuning(t, world), t.groups # <<>>,
         NEW r \in 0 .. world - 1, NEW operation, NEW length \in Nat
  PROVE  PlainProgram(AllGatherHierarchical(t, r, operation, world, length))
<1>1. PICK input, output, host, members, g, group :
        /\ input = Cells("input", 0, length) /\ output = Cells("output", 0, world * length)
        /\ host = Cells("host", 0, world * length)
        /\ members = Members(t, r) /\ g = GroupOf(t, r) /\ group = t.groups[g]
  OBVIOUS
<1>2. Len(members) \in Nat /\ Len(group) \in Nat
  <2>1. Len(Members(t, r)) \in Nat /\ Len(t.groups[GroupOf(t, r)]) \in Nat
    BY GroupFacts
  <2> QED BY <1>1, <2>1
<1>3. CASE ~IsLeader(t, r)
  <2>1. PICK up, down : up = HierarchyDataTag(operation, 4, r) /\ down = HierarchyDataTag(operation, 6, r)
    OBVIOUS
  <2>2. AllGatherHierarchical(t, r, operation, world, length) = MemberProgram(t, r, up, down, input, output)
    BY <1>1, <1>3, <2>1 DEF AllGatherHierarchical
  <2> QED BY <2>2, MemberPlain
<1>4. CASE IsLeader(t, r)
  <2> DEFINE In(m) == IF m = 1 THEN Move(input, MemberCells(t, "bundle", g, 1, length))
                      ELSE ReceiveValues(t, group[m], HierarchyDataTag(operation, 4, group[m]),
                                         MemberCells(t, "bundle", g, m, length), "copy")
             Out(m) == SendValues(t, members[m], HierarchyDataTag(operation, 6, members[m]), host)
  <2>1. PICK in, out, first, last :
          /\ in = [m \in 1 .. Len(group) |-> In(m)] /\ out = [m \in 1 .. Len(members) |-> Out(m)]
          /\ first = Move(Packed(t, "bundle", length), ByRankOf(t, "host", length))
          /\ last = Move(host, output)
    OBVIOUS
  <2>2. \A m : Plain(In(m)) /\ Plain(Out(m))
    BY ValuesPlain, MovePlain
  <2>3. /\ in = [m \in 1 .. Len(group) |-> in[m]] /\ out = [m \in 1 .. Len(members) |-> out[m]]
        /\ \A m \in 1 .. Len(group) : Plain(in[m])
        /\ \A m \in 1 .. Len(members) : Plain(out[m])
    <3> HIDE DEF In, Out
    <3> QED BY <2>1, <2>2
  <2>4. PlainThread(in) /\ PlainThread(out)
    BY <1>2, <2>3, PlainEach
  <2>5. PlainThread(<<first>>) /\ PlainThread(<<last>>)
    BY <2>1, MovePlain, PlainOne
  <2>6. PICK a, spread : a = <<first>> \o out /\ spread = a \o <<last>>
    OBVIOUS
  <2>7. PlainThread(a)
    BY <2>4, <2>5, <2>6, PlainJoined
  <2>b. PlainThread(spread)
    BY <2>5, <2>6, <2>7, PlainJoined
  <2>8. PlainPhase(Main(in)) /\ PlainPhase(Main(spread))
    BY <2>4, <2>b, AlonePlain
  <2>9. PlainPhase(LeaderAllGatherRing(t, r, length, operation))
    BY LeaderAllGatherPlain
  <2>10. AllGatherHierarchical(t, r, operation, world, length)
           = <<Main(in), LeaderAllGatherRing(t, r, length, operation), Main(spread)>>
    BY <1>1, <1>4, <2>1, <2>6 DEF AllGatherHierarchical
  <2> QED BY <2>8, <2>9, <2>10, ThreePhases
<1> QED
  BY <1>3, <1>4

(* The reduce-scatter of the leaders.                                       *)
LEMMA LeaderReduceScatterPlain ==
  ASSUME NEW t, NEW world \in Nat \ {0}, WellFormedTuning(t, world), t.groups # <<>>,
         NEW r \in 0 .. world - 1, NEW operation, NEW width \in Nat
  PROVE  PlainPhase(LeaderReduceScatterRing(t, r, operation, width))
<1>0. PICK minimum \in Nat : minimum = Min({BundleLength(t, g, width) : g \in 1 .. Len(t.groups)})
  <2>1. PICK S : S = {BundleLength(t, g, width) : g \in 1 .. Len(t.groups)}
    OBVIOUS
  <2>2. S \in SUBSET Nat /\ S # {}
    <3>0. Len(t.groups) \in Nat \ {0} /\ \A g \in 1 .. Len(t.groups) : Len(t.groups[g]) \in Nat
      BY GroupFacts
    <3>1. \A g \in 1 .. Len(t.groups) : BundleLength(t, g, width) \in Nat
      <4> SUFFICES ASSUME NEW g \in 1 .. Len(t.groups) PROVE BundleLength(t, g, width) \in Nat
        OBVIOUS
      <4>1. PICK k \in Nat : k = Len(t.groups[g])
        BY <3>0
      <4>2. k * width \in Nat
        OBVIOUS
      <4> QED BY <4>1, <4>2 DEF BundleLength
    <3>2. 1 \in 1 .. Len(t.groups)
      BY <3>0
    <3> QED BY <2>1, <3>1, <3>2
  <2>3. \E x \in S : \A y \in S : x <= y
    BY <2>2, LeastElement
  <2>4. Min(S) \in S
    BY <2>3 DEF Min
  <2> QED BY <2>1, <2>2, <2>4
<1>1. PICK n \in Nat \ {0} : n = EffectiveRingChannels(t.channels, minimum)
  BY ChannelsRun DEF WellFormedTuning
<1> DEFINE E(c) == LeaderReduceScatterRingChannel(t, r, operation, width, c - 1, n)
<1>2. PICK threads : threads = [c \in 1 .. n |-> E(c)]
  OBVIOUS
<1>3. PICK spans :
           /\ Spans(spans)
           /\ \A p \in 0 .. n - 1 : \A g \in 1 .. Len(t.groups) :
                Range(GroupPiece(t, "packed", g, width, n, p)) \subseteq Own(spans, n, p)
  BY BundleSpans
<1>4. ASSUME NEW c \in 1 .. n PROVE Within(E(c), Own(spans, n, c - 1))
  <2>1. c - 1 \in 0 .. n - 1
    OBVIOUS
  <2>2. PICK S : S = Own(spans, n, c - 1)
    OBVIOUS
  <2>3. PICK piece : piece = [g \in 1 .. Len(t.groups) |-> GroupPiece(t, "packed", g, width, n, c - 1)]
    OBVIOUS
  <2>4. \A g \in 1 .. Len(t.groups) : Range(piece[g]) \subseteq S
    BY <1>3, <2>1, <2>2, <2>3
  <2>5. piece = [g \in 1 .. Len(t.groups) |-> piece[g]]
    BY <2>3
  <2>6. PICK rail, tags, mode, shift : /\ rail = CollectiveRailForChannel(t, c - 1) /\ shift \in Int
                                /\ tags = LeaderTags(t, operation, 8, c - 1) /\ mode = "reduce" /\ shift = -1
    OBVIOUS
  <2>7. Within(Walk(Leaders(t), GroupOf(t, r) - 1, shift, piece, rail, tags, mode), S)
    <3>1. shift \in Int
      BY <2>6
    <3> QED BY <2>4, <2>5, <3>1, BundleWalkWithin
  <2>8. E(c) = Walk(Leaders(t), GroupOf(t, r) - 1, shift, piece, rail, tags, mode)
    BY <2>3, <2>6 DEF LeaderReduceScatterRingChannel
  <2> QED BY <2>2, <2>7, <2>8, Zenon
<1>5. threads = [c \in 1 .. n |-> threads[c]] /\ \A c \in 1 .. n : Within(threads[c], Own(spans, n, c - 1))
  <2> HIDE DEF E
  <2> QED BY <1>2, <1>4
<1>6. PlainPhase(Scope(threads))
  BY <1>3, <1>5, ScopeOwned
<1>7. LeaderReduceScatterRing(t, r, operation, width) = Scope(threads)
  BY <1>0, <1>1, <1>2 DEF LeaderReduceScatterRing
<1> QED
  BY <1>6, <1>7

(* reduce_scatter over the hierarchy.                                       *)
LEMMA ReduceScatterHierarchicalPlain ==
  ASSUME NEW t, NEW world \in Nat \ {0}, WellFormedTuning(t, world), t.groups # <<>>,
         NEW r \in 0 .. world - 1, NEW operation, NEW length \in Nat
  PROVE  PlainProgram(ReduceScatterHierarchical(t, r, operation, world, length))
<1>1. PICK members, g, group, width :
        /\ members = Members(t, r) /\ g = GroupOf(t, r) /\ group = t.groups[g]
        /\ width = length \div world /\ width \in Nat
  BY Division
<1>2. Len(members) \in Nat /\ Len(group) \in Nat \ {0}
  <2>1. Len(Members(t, r)) \in Nat /\ Len(t.groups[GroupOf(t, r)]) \in Nat \ {0}
    BY GroupFacts
  <2> QED BY <1>1, <2>1
<1>3. CASE ~IsLeader(t, r)
  <2>1. PICK up, down, sent, received :
          /\ up = HierarchyDataTag(operation, 7, r) /\ down = HierarchyDataTag(operation, 9, r)
          /\ sent = Cells("input", 0, length) /\ received = Cells("output", 0, width)
    OBVIOUS
  <2>2. ReduceScatterHierarchical(t, r, operation, world, length) = MemberProgram(t, r, up, down, sent, received)
    BY <1>1, <1>3, <2>1 DEF ReduceScatterHierarchical
  <2> QED BY <2>2, MemberPlain
<1>4. CASE IsLeader(t, r)
  <2>1. PlainPhase(ReduceScatterGather(t, r, operation, width, length))
    <3> DEFINE In(m) == ReceiveValues(t, members[m], HierarchyDataTag(operation, 7, members[m]),
                                      Cells("working", 0, length), "reduce")
    <3>1. PICK in, first, last :
            /\ in = [m \in 1 .. Len(members) |-> In(m)]
            /\ first = Move(Cells("input", 0, length), Cells("working", 0, length))
            /\ last = Move(ByRankOf(t, "working", width), Packed(t, "packed", width))
      OBVIOUS
    <3>2. \A m : Plain(In(m))
      BY ValuesPlain
    <3>3. in = [m \in 1 .. Len(members) |-> in[m]] /\ \A m \in 1 .. Len(members) : Plain(in[m])
      <4> HIDE DEF In
      <4> QED BY <3>1, <3>2
    <3>4. PlainThread(in)
      BY <1>2, <3>3, PlainEach
    <3>5. PlainThread(<<first>>) /\ PlainThread(<<last>>)
      BY <3>1, MovePlain, PlainOne
    <3>6. PICK a, gather : a = <<first>> \o in /\ gather = a \o <<last>>
      OBVIOUS
    <3>7. PlainThread(a)
      BY <3>4, <3>5, <3>6, PlainJoined
    <3>8. PlainThread(gather)
      BY <3>5, <3>6, <3>7, PlainJoined
    <3>9. ReduceScatterGather(t, r, operation, width, length) = Main(gather)
      BY <1>1, <3>1, <3>6 DEF ReduceScatterGather
    <3> QED BY <3>8, <3>9, AlonePlain
  <2>2. PlainPhase(ReduceScatterSpread(t, r, operation, width))
    <3> DEFINE Out(m) == SendValues(t, group[m + 1], HierarchyDataTag(operation, 9, group[m + 1]),
                                    Cells("host", m * width, width))
    <3>1. PICK out, first, last, n :
            /\ n = Len(group) - 1
            /\ out = [m \in 1 .. n |-> Out(m)]
            /\ first = Move(Cells("packed", BundleStart(t, g, width), BundleLength(t, g, width)),
                            Cells("host", 0, BundleLength(t, g, width)))
            /\ last = Move(Cells("host", 0, width), Cells("output", 0, width))
      OBVIOUS
    <3>2. \A m : Plain(Out(m))
      BY ValuesPlain
    <3>3. out = [m \in 1 .. n |-> out[m]] /\ \A m \in 1 .. n : Plain(out[m])
      <4> HIDE DEF Out
      <4> QED BY <3>1, <3>2
    <3>n. n \in Nat
      BY <1>2, <3>1
    <3>4. PlainThread(out)
      BY <3>n, <3>3, PlainEach
    <3>5. PlainThread(<<first>>) /\ PlainThread(<<last>>)
      BY <3>1, MovePlain, PlainOne
    <3>6. PICK a, spread : a = <<first>> \o out /\ spread = a \o <<last>>
      OBVIOUS
    <3>7. PlainThread(a)
      BY <3>4, <3>5, <3>6, PlainJoined
    <3>8. PlainThread(spread)
      BY <3>5, <3>6, <3>7, PlainJoined
    <3>9. ReduceScatterSpread(t, r, operation, width) = Main(spread)
      BY <1>1, <3>1, <3>6 DEF ReduceScatterSpread
    <3> QED BY <3>8, <3>9, AlonePlain
  <2>3. PlainPhase(LeaderReduceScatterRing(t, r, operation, width))
    <3>1. width \in Nat
      BY <1>1
    <3> QED BY <3>1, LeaderReduceScatterPlain
  <2>4. ReduceScatterHierarchical(t, r, operation, world, length)
          = <<ReduceScatterGather(t, r, operation, width, length),
              LeaderReduceScatterRing(t, r, operation, width),
              ReduceScatterSpread(t, r, operation, width)>>
    BY <1>1, <1>4 DEF ReduceScatterHierarchical
  <2> QED BY <2>1, <2>2, <2>3, <2>4, ThreePhases
<1> QED
  BY <1>3, <1>4

-----------------------------------------------------------------------------
(* The counts of all_to_all_v.                                              *)

(* The cell c of a memory holds a count.                                    *)
HasCount(m, c) == c \in DOMAIN m /\ m[c] \in Nat

SendsCount(i, d) == i.do = "send" /\ i.elt = "u8" /\ i.cells = Cells("send_counts", d, 1)

TakesCount(i, s) ==
  i.do = "receive" /\ i.elt = "u8" /\ i.mode = "count" /\ i.cells = Cells("receive_counts", s, 1)

(* What is left of the exchange of counts: the counts to send are there,    *)
(* and the count of every other rank is there or still to be received.      *)
CountsThread(world, r, m, thread) ==
  /\ IsList(thread) /\ thread # <<>>
  /\ thread[Len(thread)] = [do |-> "layout", cells |-> <<>>]
  /\ \A n \in 1 .. Len(thread) - 1 : \E d \in 0 .. world - 1 :
       SendsCount(thread[n], d) \/ TakesCount(thread[n], d)
  /\ \A d \in 0 .. world - 1 : HasCount(m, <<"send_counts", d>>)
  /\ \A s \in 0 .. world - 1 :
       \/ s = r \/ HasCount(m, <<"receive_counts", s>>)
       \/ \E n \in 1 .. Len(thread) - 1 : TakesCount(thread[n], s)

CountsProgram(world, r, m, phases) ==
  \E thread : phases = <<Main(thread)>> /\ CountsThread(world, r, m, thread)

(* Quotient and remainder of any integer.                                   *)
LEMMA IntDivision ==
  ASSUME NEW x \in Int, NEW n \in Nat \ {0}
  PROVE  /\ x \div n \in Int /\ x % n \in 0 .. n - 1
         /\ x = n * (x \div n) + (x % n)
OBVIOUS

(* There is one remainder.                                                  *)
LEMMA OneRemainder ==
  ASSUME NEW n \in Nat \ {0}, NEW q \in Int, NEW p \in Int, NEW a \in 0 .. n - 1, NEW b \in 0 .. n - 1,
         n * q + a = n * p + b
  PROVE  a = b
<1>1. n * q \in Int /\ n * p \in Int
  OBVIOUS
<1>2. ASSUME NEW u \in Int, NEW v \in Int, u < v PROVE n * u + n <= n * v
  <2>1. PICK d \in Nat : v = u + 1 + d
    <3>1. v - (u + 1) \in Nat /\ v = u + 1 + (v - (u + 1))
      BY <1>2
    <3> QED BY <3>1
  <2>2. n * v = n * u + n + n * d /\ n * d \in Nat /\ n * u \in Int
    BY <2>1
  <2> QED BY <2>2
<1>3. ~(q < p)
  <2> SUFFICES ASSUME q < p PROVE FALSE
    OBVIOUS
  <2>1. n * q + n <= n * p
    BY <1>2
  <2> QED BY <1>1, <2>1
<1>4. ~(p < q)
  <2> SUFFICES ASSUME p < q PROVE FALSE
    OBVIOUS
  <2>1. n * p + n <= n * q
    BY <1>2
  <2> QED BY <1>1, <2>1
<1>5. p = q
  BY <1>3, <1>4
<1> QED
  BY <1>1, <1>5

(* Once around or less.                                                     *)
LEMMA Remainders ==
  ASSUME NEW n \in Nat \ {0}, NEW a \in 0 .. n - 1
  PROVE  a % n = a /\ (a - n) % n = a
<1>1. a % n = a
  <2>1. PICK q \in Int, b \in 0 .. n - 1 : q = a \div n /\ b = a % n /\ a = n * q + b
    <3>1. a \in Int
      OBVIOUS
    <3> QED BY <3>1, IntDivision
  <2>2. n * 0 + a = n * q + b
    BY <2>1
  <2> QED BY <2>1, <2>2, OneRemainder
<1>2. (a - n) % n = a
  <2>1. PICK q \in Int, b \in 0 .. n - 1 : b = (a - n) % n /\ a - n = n * q + b
    <3>1. a - n \in Int
      OBVIOUS
    <3> QED BY <3>1, IntDivision
  <2>2. n * (-1) + a = n * q + b /\ -1 \in Int
    BY <2>1
  <2> QED BY <2>1, <2>2, OneRemainder
<1> QED
  BY <1>1, <1>2

(* The ring visits every rank.                                              *)
Visits(ring, world) ==
  Len(ring) = world /\ ring \in [1 .. world -> 0 .. world - 1] /\ Range(ring) = 0 .. world - 1

(* Every other rank is the source of a step.                                *)
LEMMA EverySource ==
  ASSUME NEW world \in Nat \ {0}, NEW ring, Visits(ring, world), NEW position \in 0 .. world - 1
  PROVE  \A s \in 0 .. world - 1 :
           s = ring[position + 1] \/ \E k \in 1 .. world - 1 : At(ring, position - k) = s
<1> SUFFICES ASSUME NEW s \in 0 .. world - 1, s # ring[position + 1]
             PROVE  \E k \in 1 .. world - 1 : At(ring, position - k) = s
  OBVIOUS
<1>0. Len(ring) = world /\ ring \in [1 .. world -> 0 .. world - 1] /\ Range(ring) = 0 .. world - 1
  BY DEF Visits
<1>1. PICK i \in 1 .. world : ring[i] = s
  BY <1>0 DEF Range
<1>2. i - 1 # position /\ i - 1 \in 0 .. world - 1
  <2>1. i # position + 1
    BY <1>1
  <2> QED BY <2>1
<1>3. PICK k \in 1 .. world - 1 : (position - k) % world = i - 1
  <2>1. CASE i - 1 < position
    <3>1. position - (i - 1) \in 1 .. world - 1 /\ position - (position - (i - 1)) = i - 1
      BY <1>2, <2>1
    <3>2. (i - 1) % world = i - 1
      BY <1>2, Remainders
    <3> QED BY <3>1, <3>2
  <2>2. CASE position < i - 1
    <3>1. PICK k \in 1 .. world - 1 : k = position - (i - 1) + world
      BY <1>2, <2>2
    <3>2. position - k = (i - 1) - world
      BY <1>2, <3>1
    <3>3. ((i - 1) - world) % world = i - 1
      <4>1. PICK a \in 0 .. world - 1 : a = i - 1
        BY <1>2
      <4>2. (a - world) % world = a
        BY Remainders
      <4> QED BY <4>1, <4>2
    <3> QED BY <3>2, <3>3
  <2> QED BY <1>2, <2>1, <2>2
<1>4. At(ring, position - k) = s
  <2>1. (i - 1) + 1 = i
    OBVIOUS
  <2> QED BY <1>0, <1>1, <1>3, <2>1 DEF At
<1> QED
  BY <1>4

(* ... of the first ring.                                                   *)
LEMMA FirstRingSources ==
  ASSUME NEW t, NEW world \in Nat \ {0}, WellFormedTuning(t, world), NEW r \in 0 .. world - 1,
         NEW s \in 0 .. world - 1, s # r
  PROVE  \E k \in 1 .. world - 1 : At(t.rings[1], RingPosition(t.rings[1], r) - k) = s
<1>1. PICK ring, position : ring = t.rings[1] /\ position = RingPosition(ring, r)
  OBVIOUS
<1>2. /\ ring \in [1 .. world -> 0 .. world - 1] /\ Len(ring) = world /\ position \in 0 .. world - 1
      /\ Range(ring) = 0 .. world - 1 /\ ring[position + 1] = r
  <2>1. /\ t.rings[1] \in [1 .. world -> 0 .. world - 1] /\ Range(t.rings[1]) = 0 .. world - 1
        /\ Len(t.rings[1]) = world
        /\ RingPosition(t.rings[1], r) \in 0 .. world - 1
        /\ t.rings[1][RingPosition(t.rings[1], r) + 1] = r
    BY FirstRing
  <2> QED BY <1>1, <2>1, Zenon
<1>a. Visits(ring, world) /\ position \in 0 .. world - 1
  BY <1>2 DEF Visits
<1>3. \A x \in 0 .. world - 1 :
        x = ring[position + 1] \/ \E k \in 1 .. world - 1 : At(ring, position - k) = x
  BY <1>a, EverySource
<1> QED
  BY <1>1, <1>2, <1>3

(* The thread that exchanges the counts.                                    *)
LEMMA CountsStart ==
  ASSUME NEW t, NEW world \in Nat \ {0}, WellFormedTuning(t, world), NEW r \in 0 .. world - 1,
         NEW operation, NEW m, \A d \in 0 .. world - 1 : HasCount(m, <<"send_counts", d>>)
  PROVE  CountsProgram(world, r, m, AllToAllVCounts(t, r, operation))
<1>1. PICK ring, position, rail : /\ ring = t.rings[1] /\ position = RingPosition(ring, r)
                                  /\ rail = CollectiveRailForChannel(t, 0)
  OBVIOUS
<1>2. /\ ring \in [1 .. world -> 0 .. world - 1] /\ Len(ring) = world /\ position \in 0 .. world - 1
      /\ Range(ring) = 0 .. world - 1 /\ ring[position + 1] = r
  <2>1. /\ t.rings[1] \in [1 .. world -> 0 .. world - 1] /\ Range(t.rings[1]) = 0 .. world - 1
        /\ Len(t.rings[1]) = world
        /\ RingPosition(t.rings[1], r) \in 0 .. world - 1
        /\ t.rings[1][RingPosition(t.rings[1], r) + 1] = r
    BY FirstRing
  <2> QED BY <1>1, <2>1, Zenon
<1> DEFINE destination(s) == At(ring, position + s)
           source(s) == At(ring, position - s)
           tag(s) == RingDataTag(operation, 0, 0, s)
           Out(s) == [Send(destination(s), rail, tag(s), Cells("send_counts", destination(s), 1)) EXCEPT !.elt = "u8"]
           In(s) == Receive(source(s), rail, tag(s), Cells("receive_counts", source(s), 1), "count")
<1>3. PICK n \in Nat : n = Len(ring) - 1
  BY <1>2
<1>4. PICK seqs : seqs = [s \in 1 .. n |-> <<Out(s), In(s)>>]
  OBVIOUS
<1>5. ASSUME NEW s \in 1 .. n
      PROVE  /\ destination(s) \in 0 .. world - 1 /\ source(s) \in 0 .. world - 1
             /\ SendsCount(Out(s), destination(s)) /\ TakesCount(In(s), source(s))
  <2>1. position + s \in Int /\ position - s \in Int
    BY <1>2
  <2>2. destination(s) \in 0 .. world - 1 /\ source(s) \in 0 .. world - 1
    BY <1>2, <2>1, AtRank
  <2> HIDE DEF destination, source, tag
  <2>3. SendsCount(Out(s), destination(s))
    BY DEF SendsCount, Send
  <2>4. TakesCount(In(s), source(s))
    BY DEF TakesCount, Receive
  <2> QED BY <2>2, <2>3, <2>4
<1>6. ASSUME NEW s \in 1 .. n
      PROVE  seqs[s] = <<Out(s), In(s)>> /\ IsList(seqs[s]) /\ Range(seqs[s]) = {Out(s), In(s)}
  <2>1. PICK a, b : a = Out(s) /\ b = In(s)
    OBVIOUS
  <2> HIDE DEF Out, In
  <2>2. seqs[s] = <<a, b>>
    BY <1>4, <2>1
  <2>3. <<a, b>> \in Seq({a, b}) /\ Range(<<a, b>>) = {a, b}
    BY DEF Range
  <2>4. IsList(<<a, b>>)
    BY <2>3, ListOver
  <2> QED BY <2>1, <2>2, <2>3, <2>4
<1> HIDE DEF destination, source, tag, Out, In
<1>7. PICK flat : flat = FlattenSeq(seqs)
  OBVIOUS
<1>8. IsList(flat) /\ Range(flat) = UNION {Range(seqs[s]) : s \in 1 .. n}
  <2>1. seqs = [s \in 1 .. n |-> seqs[s]]
    BY <1>4
  <2> QED BY <1>6, <1>7, <2>1, FlattenList
<1>9. PICK layout, thread, k : /\ layout = [do |-> "layout", cells |-> <<>>] /\ thread = flat \o <<layout>>
                               /\ k = Len(flat)
  OBVIOUS
<1>10. /\ k \in Nat /\ DOMAIN flat = 1 .. k /\ Len(thread) = k + 1 /\ thread[k + 1] = layout
       /\ \A i \in 1 .. k : thread[i] = flat[i]
  <2>1. PICK T : T = Range(flat) \cup {layout}
    OBVIOUS
  <2>2. flat \in Seq(T)
    BY <1>8, <2>1, ListIn
  <2> QED BY <1>9, <2>1, <2>2
<1>11. IsList(thread) /\ thread # <<>>
  <2>1. <<layout>> \in Seq({layout})
    OBVIOUS
  <2>2. IsList(<<layout>>)
    BY <2>1, ListOver
  <2>3. IsList(thread)
    BY <1>8, <1>9, <2>2, JoinedList
  <2> QED BY <1>10, <2>3
<1>12. ASSUME NEW i \in 1 .. k
       PROVE  \E d \in 0 .. world - 1 : SendsCount(thread[i], d) \/ TakesCount(thread[i], d)
  <2>1. thread[i] \in Range(flat)
    BY <1>10 DEF Range
  <2>2. PICK s \in 1 .. n : thread[i] \in Range(seqs[s])
    BY <1>8, <2>1
  <2>3. thread[i] = Out(s) \/ thread[i] = In(s)
    BY <1>6, <2>2
  <2> QED BY <1>5, <2>3
<1>13. ASSUME NEW s \in 0 .. world - 1, s # r
       PROVE  \E i \in 1 .. k : TakesCount(thread[i], s)
  <2>1. PICK q \in 1 .. world - 1 : At(ring, position - q) = s
    BY <1>1, <1>13, FirstRingSources
  <2>2. q \in 1 .. n /\ source(q) = s
    BY <1>2, <1>3, <2>1 DEF source
  <2>3. In(q) \in Range(flat)
    BY <1>6, <1>8, <2>2
  <2>4. PICK i \in 1 .. k : flat[i] = In(q)
    BY <1>10, <2>3 DEF Range
  <2> QED BY <1>5, <1>10, <2>2, <2>4
<1>14. CountsThread(world, r, m, thread)
  <2>1. Len(thread) - 1 = k /\ thread[Len(thread)] = layout
    BY <1>10
  <2> QED BY <1>9, <1>11, <1>12, <1>13, <2>1 DEF CountsThread
<1>15. AllToAllVCounts(t, r, operation) = <<Main(thread)>>
  BY <1>1, <1>3, <1>4, <1>7, <1>9 DEF AllToAllVCounts, destination, source, tag, Out, In
<1> QED
  BY <1>14, <1>15 DEF CountsProgram

-----------------------------------------------------------------------------
(* The phases that are left.                                                *)

(* Joining the finished phases at the front leaves a program.               *)
LEMMA JoinedPlain ==
  ASSUME NEW phases, PlainProgram(phases)
  PROVE  PlainProgram(Joined(phases))
<1>1. PICK live : live = {i \in DOMAIN phases : \E k \in DOMAIN phases[i].threads : phases[i].threads[k] # <<>>}
  OBVIOUS
<1>2. CASE live = {}
  <2>1. Joined(phases) = <<>>
    BY <1>1, <1>2 DEF Joined
  <2> QED BY <2>1, NoPhase
<1>3. CASE live # {}
  <2>1. PICK T : T = Range(phases)
    OBVIOUS
  <2>2. phases \in Seq(T) /\ \A p \in T : PlainPhase(p)
    BY <2>1 DEF PlainProgram, IsList
  <2>3. DOMAIN phases = 1 .. Len(phases) /\ Len(phases) \in Nat
    BY <2>2
  <2>4. live \in SUBSET Nat
    BY <1>1, <2>3
  <2>5. \E x \in live : \A y \in live : x <= y
    BY <1>3, <2>4, LeastElement
  <2>6. PICK m : m = Min(live)
    OBVIOUS
  <2>7. m \in 1 .. Len(phases)
    BY <1>1, <2>3, <2>5, <2>6 DEF Min
  <2>8. PICK c : c = SubSeq(phases, m, Len(phases))
    OBVIOUS
  <2>9. c \in Seq(T)
    BY <2>2, <2>3, <2>7, <2>8
  <2>10. PlainProgram(c)
    BY <2>2, <2>9, ListOver DEF PlainProgram
  <2>11. Joined(phases) = c
    BY <1>1, <1>3, <2>6, <2>8 DEF Joined
  <2> QED BY <2>10, <2>11
<1> QED
  BY <1>2, <1>3

(* The exchange of counts is not finished.                                  *)
LEMMA JoinedCounts ==
  ASSUME NEW thread, thread # <<>>
  PROVE  Joined(<<Main(thread)>>) = <<Main(thread)>>
<1>1. PICK p, phases : p = Main(thread) /\ phases = <<p>>
  OBVIOUS
<1>2. p.threads = <<thread>>
  BY <1>1 DEF Main
<1>3. PICK live : live = {i \in DOMAIN phases : \E k \in DOMAIN phases[i].threads : phases[i].threads[k] # <<>>}
  OBVIOUS
<1>4. live = {1}
  <2>1. DOMAIN phases = {1} /\ phases[1] = p /\ DOMAIN p.threads = {1} /\ p.threads[1] = thread
    BY <1>1, <1>2
  <2> QED BY <1>3, <2>1
<1>5. Min(live) = 1
  BY <1>4 DEF Min
<1>6. SubSeq(phases, 1, Len(phases)) = phases
  <2>1. phases \in Seq({p}) /\ Len(phases) = 1
    BY <1>1
  <2>2. PICK c : c = SubSeq(phases, 1, Len(phases))
    OBVIOUS
  <2>3. c = [i \in 1 .. 1 |-> phases[i]]
    BY <2>1, <2>2
  <2>4. phases = [i \in 1 .. 1 |-> phases[i]]
    BY <2>1
  <2> QED BY <2>2, <2>3, <2>4
<1>7. Joined(phases) = phases
  BY <1>3, <1>4, <1>5, <1>6 DEF Joined
<1> QED
  BY <1>1, <1>7

-----------------------------------------------------------------------------
(* The program and the buffers of a call.                                   *)

(* What the job promises of a call.                                         *)
LEMMA CallFacts ==
  ASSUME job \in Jobs, NEW r \in Ranks, NEW n \in 1 .. Len(job.calls[r])
  PROVE  /\ job.world \in Nat \ {0} /\ WellFormedTuning(job.tuning, job.world)
         /\ WellFormedCall(job.tuning, job.world, job.calls[r][n])
BY JobsAssumption DEF Ranks

(* The counts a rank sends are in its buffers.                              *)
LEMMA BuffersHoldCounts ==
  ASSUME job.world \in Nat \ {0}, NEW c, NEW r, NEW operation, c.kind = "AllToAllV",
         AlgorithmOf(c) = "Pairwise", c.counts \in [0 .. job.world - 1 -> Nat]
  PROVE  \A d \in 0 .. job.world - 1 : HasCount(Buffers(c, r, operation), <<"send_counts", d>>)
<1>1. PICK w, input : /\ w = job.world
                      /\ input = Written(<<>>, Cells("input", 0, c.length), Input(r, operation, 0, c.length))
  OBVIOUS
<1>2. PICK cells, values : cells = Cells("send_counts", 0, w) /\ values = [i \in 1 .. w |-> c.counts[i - 1]]
  OBVIOUS
<1>3. Buffers(c, r, operation) = Written(input, cells, values)
  BY <1>1, <1>2 DEF Buffers
<1>4. w \in Nat /\ DOMAIN cells = 1 .. w /\ \A i \in 1 .. w : cells[i] = <<"send_counts", i - 1>>
  BY <1>1, <1>2 DEF Cells
<1> SUFFICES ASSUME NEW d \in 0 .. w - 1 PROVE HasCount(Written(input, cells, values), <<"send_counts", d>>)
  BY <1>1, <1>3
<1>5. PICK x : x = <<"send_counts", d>>
  OBVIOUS
<1>6. d + 1 \in 1 .. w /\ cells[d + 1] = x
  BY <1>4, <1>5
<1>7. PICK i : i = CHOOSE j \in DOMAIN cells : cells[j] = x
  OBVIOUS
<1>8. i \in 1 .. w /\ cells[i] = x
  BY <1>4, <1>6, <1>7
<1>9. i = d + 1
  BY <1>4, <1>5, <1>8
<1>10. values[i] \in Nat
  BY <1>1, <1>2, <1>8, <1>9
<1>11. x \in Range(cells)
  BY <1>4, <1>6 DEF Range
<1>12. x \in DOMAIN Written(input, cells, values) /\ Written(input, cells, values)[x] = values[i]
  BY <1>7, <1>11 DEF Written
<1> QED
  BY <1>5, <1>10, <1>12 DEF HasCount

(* A call starts with a program whose threads keep apart, or with the       *)
(* exchange of the counts.                                                  *)
LEMMA ProgramGood ==
  ASSUME job \in Jobs, NEW r \in Ranks, NEW n \in 1 .. Len(job.calls[r]), NEW operation,
         NEW c, c = job.calls[r][n]
  PROVE  \/ PlainProgram(Joined(Program(c, r, operation)))
         \/ CountsProgram(job.world, r, Buffers(c, r, operation), Joined(Program(c, r, operation)))
<1>1. PICK t, w : t = job.tuning /\ w = job.world
  OBVIOUS
<1>2. /\ w \in Nat \ {0} /\ WellFormedTuning(t, w) /\ WellFormedCall(t, w, c)
  BY <1>1, CallFacts
<1>3. r \in 0 .. w - 1
  BY <1>1 DEF Ranks
<1>4. PICK a : a = PlanAlgorithm(t, c.kind, c.length)
  OBVIOUS
<1>5. AlgorithmOf(c) = a
  BY <1>1, <1>4 DEF AlgorithmOf
<1>6. /\ c.length \in Nat
      /\ c.kind = "AllToAllV" => c.counts \in [0 .. w - 1 -> Nat]
      /\ \/ a = "Direct"
         \/ c.kind \in {"AllToAll", "AllToAllV"} /\ a = "Pairwise"
         \/ c.kind \in {"AllReduce", "AllGather", "ReduceScatter"} /\ a = "Ring"
         \/ c.kind \in {"AllReduce", "AllGather", "ReduceScatter"} /\ a = "Hierarchical" /\ t.groups # <<>>
  BY <1>2, <1>4 DEF WellFormedCall
<1>7. PICK program : program = Program(c, r, operation)
  OBVIOUS
<1>8. CASE a = "Direct"
  <2>1. program = <<>>
    BY <1>5, <1>7, <1>8 DEF Program
  <2> QED BY <1>7, <2>1, NoPhase, JoinedPlain
<1>9. CASE a = "Pairwise" /\ c.kind = "AllToAll"
  <2>1. program = AllToAllPairwise(t, r, operation, c.length)
    BY <1>1, <1>5, <1>7, <1>9 DEF Program
  <2>2. PlainProgram(program)
    BY <1>2, <1>3, <1>6, <2>1, AllToAllPlain
  <2> QED BY <1>7, <2>2, JoinedPlain
<1>10. CASE a = "Pairwise" /\ c.kind = "AllToAllV"
  <2>1. program = AllToAllVCounts(t, r, operation)
    BY <1>1, <1>5, <1>7, <1>10 DEF Program
  <2>2. PICK m : m = Buffers(c, r, operation)
    OBVIOUS
  <2>3. \A d \in 0 .. w - 1 : HasCount(m, <<"send_counts", d>>)
    BY <1>1, <1>2, <1>5, <1>6, <1>10, <2>2, BuffersHoldCounts
  <2>4. CountsProgram(w, r, m, program)
    BY <1>2, <1>3, <2>1, <2>3, CountsStart
  <2>5. Joined(program) = program
    <3>1. PICK thread : program = <<Main(thread)>> /\ CountsThread(w, r, m, thread)
      BY <2>4 DEF CountsProgram
    <3>2. thread # <<>>
      BY <3>1 DEF CountsThread
    <3> QED BY <3>1, <3>2, JoinedCounts
  <2> QED BY <1>1, <1>7, <2>2, <2>4, <2>5
<1>11. CASE a = "Ring" /\ c.kind \in {"AllReduce", "AllGather", "ReduceScatter"}
  <2>1. program = CASE c.kind = "AllReduce" -> AllReduceRing(t, r, operation, c.length)
               [] c.kind = "AllGather" -> AllGatherRing(t, r, operation, c.length)
               [] c.kind = "ReduceScatter" -> ReduceScatterRing(t, r, operation, c.length)
    BY <1>1, <1>5, <1>7, <1>11 DEF Program
  <2>2. /\ PlainProgram(AllReduceRing(t, r, operation, c.length))
        /\ PlainProgram(AllGatherRing(t, r, operation, c.length))
        /\ PlainProgram(ReduceScatterRing(t, r, operation, c.length))
    BY <1>2, <1>3, <1>6, AllReduceRingPlain, AllGatherRingPlain, ReduceScatterRingPlain
  <2>3. PlainProgram(program)
    BY <1>11, <2>1, <2>2
  <2> QED BY <1>7, <2>3, JoinedPlain
<1>12. CASE a = "Hierarchical" /\ t.groups # <<>> /\ c.kind \in {"AllReduce", "AllGather", "ReduceScatter"}
  <2>1. program = CASE c.kind = "AllReduce" -> AllReduceHierarchical(t, r, operation, c.length)
               [] c.kind = "AllGather" -> AllGatherHierarchical(t, r, operation, w, c.length)
               [] c.kind = "ReduceScatter" -> ReduceScatterHierarchical(t, r, operation, w, c.length)
    BY <1>1, <1>5, <1>7, <1>12 DEF Program
  <2>2. /\ PlainProgram(AllReduceHierarchical(t, r, operation, c.length))
        /\ PlainProgram(AllGatherHierarchical(t, r, operation, w, c.length))
        /\ PlainProgram(ReduceScatterHierarchical(t, r, operation, w, c.length))
    BY <1>2, <1>3, <1>6, <1>12, AllReduceHierarchicalPlain, AllGatherHierarchicalPlain, ReduceScatterHierarchicalPlain
  <2>3. PlainProgram(program)
    BY <1>12, <2>1, <2>2
  <2> QED BY <1>7, <2>3, JoinedPlain
<1> QED
  BY <1>6, <1>8, <1>9, <1>10, <1>11, <1>12

-----------------------------------------------------------------------------
(* What is left when a thread goes on.                                      *)

(* Thread k of the first phase has only `rest' left.                        *)
Left(td, k, rest) == [td EXCEPT ![1].threads[k] = rest]

(* Another rest of thread k of the first phase.                             *)
LEMMA WithPlain ==
  ASSUME NEW td, PlainProgram(td), td # <<>>, NEW k \in DOMAIN td[1].threads, NEW rest,
         Within(rest, Touched(td[1].threads[k]))
  PROVE  /\ PlainProgram(Left(td, k, rest)) /\ Left(td, k, rest) # <<>>
         /\ Left(td, k, rest)[1].threads = [td[1].threads EXCEPT ![k] = rest]
<1>1. PICK T : T = Range(td)
  OBVIOUS
<1>2. td \in Seq(T) /\ \A p \in T : PlainPhase(p)
  BY <1>1 DEF PlainProgram, IsList
<1>3. Len(td) \in Nat \ {0} /\ DOMAIN td = 1 .. Len(td) /\ 1 \in DOMAIN td
  BY <1>2
<1>4. PICK p, th : p = td[1] /\ th = p.threads
  OBVIOUS
<1>5. /\ p \in T /\ p = [scoped |-> p.scoped, threads |-> th] /\ Apart(th)
      /\ \A j \in DOMAIN th : PlainThread(th[j])
  <2>1. p \in T
    BY <1>1, <1>3, <1>4 DEF Range
  <2> QED BY <1>2, <1>4, <2>1 DEF PlainPhase
<1>6. PICK ths, q : ths = [th EXCEPT ![k] = rest] /\ q = [scoped |-> p.scoped, threads |-> ths]
  OBVIOUS
<1>7. PICK new : new = [td EXCEPT ![1].threads[k] = rest]
  OBVIOUS
<1>8. new = [td EXCEPT ![1] = q]
  <2>1. [p EXCEPT !.threads[k] = rest] = q
    BY <1>4, <1>5, <1>6
  <2> QED BY <1>3, <1>4, <1>7, <2>1
<1>9. k \in DOMAIN th /\ DOMAIN ths = DOMAIN th /\ ths[k] = rest /\ \A j \in DOMAIN th : j # k => ths[j] = th[j]
  BY <1>4, <1>6
<1>10. \A j \in DOMAIN th : PlainThread(ths[j]) /\ Touched(ths[j]) \subseteq Touched(th[j])
  <2>1. PlainThread(rest) /\ Touched(rest) \subseteq Touched(th[k])
    BY <1>4 DEF Within
  <2> QED BY <1>5, <1>9, <2>1
<1>11. Apart(ths)
  BY <1>5, <1>9, <1>10 DEF Apart
<1>12. PlainPhase(q)
  <2>1. q.threads = ths /\ q.scoped = p.scoped
    BY <1>6
  <2> QED BY <1>6, <1>9, <1>10, <1>11, <2>1 DEF PlainPhase
<1>13. new \in Seq(T \cup {q}) /\ Len(new) = Len(td) /\ new[1] = q
  BY <1>2, <1>3, <1>8
<1>14. PlainProgram(new)
  BY <1>2, <1>12, <1>13, ListOver DEF PlainProgram
<1>15. new # <<>> /\ new[1].threads = [td[1].threads EXCEPT ![k] = rest]
  <2>1. new # <<>>
    BY <1>3, <1>13
  <2>2. new[1].threads = ths
    BY <1>6, <1>13
  <2> QED BY <1>4, <1>6, <2>1, <2>2
<1> QED
  BY <1>7, <1>14, <1>15, Zenon DEF Left

-----------------------------------------------------------------------------
(* The inductive invariant.                                                 *)

Stages == {"idle", "agreeing", "running", "finished", "failed", "closed"}

(* What rank r is doing: d calls made, o of them with a number, in stage st *)
(* with the phases td left and the memory m.                                *)
RankGood(j, r, d, o, st, td, m) ==
  /\ d \in 0 .. Len(j.calls[r]) /\ o \in Seq(Nat) /\ Len(o) <= d
  /\ st \in Stages /\ (st = "running" <=> td # <<>> /\ st # "agreeing")
  /\ PlainProgram(td) \/ CountsProgram(j.world, r, m, td)

(* A failed thread has nothing left.                                        *)
Shows(td) == \E k \in DOMAIN td[1].threads : td[1].threads[k] = <<>>

(* Messages of bytes hold counts.                                           *)
NetGood ==
  \A link \in DOMAIN net :
    /\ IsList(net[link]) /\ net[link] # <<>>
    /\ \A x \in Range(net[link]) : x.elt = "u8" => x.data \in Seq(Nat)

(* One entry for each rank.                                                 *)
Shape ==
  /\ done = [r \in Ranks |-> done[r]] /\ ops = [r \in Ranks |-> ops[r]]
  /\ stage = [r \in Ranks |-> stage[r]] /\ todo = [r \in Ranks |-> todo[r]]
  /\ mem = [r \in Ranks |-> mem[r]]

RanksGood == \A r \in Ranks : RankGood(job, r, done[r], ops[r], stage[r], todo[r], mem[r])

FailuresShow == failing \subseteq Ranks /\ \A r \in failing : stage[r] = "running" /\ Shows(todo[r])

CollectiveInv ==
  /\ job \in Jobs /\ Shape /\ RanksGood /\ FailuresShow /\ NetGood
  /\ broken \subseteq Ranks /\ faults \in 0 .. job.faults

(* A job has ranks and a bound on its faults.                               *)
LEMMA JobFacts ==
  ASSUME job \in Jobs
  PROVE  /\ job.world \in Nat \ {0} /\ job.faults \in Nat /\ Ranks = 0 .. job.world - 1
         /\ \A r \in Ranks : Len(job.calls[r]) \in Nat
BY JobsAssumption DEF Ranks

(* A program is a list.                                                     *)
LEMMA FirstPhase ==
  ASSUME NEW td, PlainProgram(td), td # <<>>
  PROVE  PlainPhase(td[1])
<1>1. PICK T : T = Range(td)
  OBVIOUS
<1>2. td \in Seq(T) /\ \A p \in T : PlainPhase(p)
  BY <1>1 DEF PlainProgram, IsList
<1>3. td[1] \in T
  BY <1>2
<1> QED
  BY <1>2, <1>3

(* The invariant implies the property.                                      *)
LEMMA InvConsistent == CollectiveInv => Consistent
<1> SUFFICES ASSUME CollectiveInv PROVE Consistent
  OBVIOUS
<1>0. job \in Jobs /\ RanksGood /\ FailuresShow /\ NetGood /\ broken \subseteq Ranks /\ faults \in 0 .. job.faults
  BY DEF CollectiveInv
<1>1. ASSUME NEW r \in Ranks
      PROVE  /\ done[r] \in 0 .. Len(job.calls[r]) /\ Len(ops[r]) <= done[r]
             /\ stage[r] \in {"idle", "agreeing", "running", "finished", "failed", "closed"}
             /\ (stage[r] = "running") = (todo[r] # <<>> /\ stage[r] # "agreeing")
             /\ PlainProgram(todo[r]) \/ CountsProgram(job.world, r, mem[r], todo[r])
  <2>1. RankGood(job, r, done[r], ops[r], stage[r], todo[r], mem[r])
    BY <1>0 DEF RanksGood
  <2> QED BY <2>1 DEF RankGood, Stages
<1>2. TypeOK
  <2>1. failing \subseteq {r \in Ranks : stage[r] = "running"}
    BY <1>0 DEF FailuresShow
  <2>2. \A link \in DOMAIN net : net[link] # <<>>
    BY <1>0 DEF NetGood
  <2> QED BY <1>0, <1>1, <2>1, <2>2 DEF TypeOK
<1>3. ThreadsDisjoint
  <2> SUFFICES ASSUME NEW r \in Ranks, NEW j \in Threads(r), NEW k \in Threads(r), j # k
               PROVE  Touched(todo[r][1].threads[j]) \cap Touched(todo[r][1].threads[k]) = {}
    BY DEF ThreadsDisjoint
  <2>1. stage[r] = "running" /\ j \in DOMAIN todo[r][1].threads /\ k \in DOMAIN todo[r][1].threads
    BY DEF Threads
  <2>2. todo[r] # <<>>
    BY <1>1, <2>1
  <2>3. CASE PlainProgram(todo[r])
    <3>1. PlainPhase(todo[r][1])
      BY <2>2, <2>3, FirstPhase
    <3>2. Apart(todo[r][1].threads)
      BY <3>1 DEF PlainPhase
    <3> QED BY <2>1, <3>2 DEF Apart
  <2>4. CASE CountsProgram(job.world, r, mem[r], todo[r])
    <3>1. PICK thread : todo[r] = <<Main(thread)>>
      BY <2>4 DEF CountsProgram
    <3>2. todo[r][1].threads = <<thread>>
      BY <3>1 DEF Main
    <3>3. DOMAIN todo[r][1].threads = {1}
      BY <3>2
    <3> QED BY <2>1, <3>3
  <2> QED BY <1>1, <2>3, <2>4
<1> QED
  BY <1>2, <1>3 DEF Consistent

(* Nothing has happened yet.                                                *)
LEMMA InitInv == Init => CollectiveInv
<1> SUFFICES ASSUME Init PROVE CollectiveInv
  OBVIOUS
<1>1. /\ job \in Jobs /\ done = [r \in Ranks |-> 0] /\ ops = [r \in Ranks |-> <<>>]
      /\ stage = [r \in Ranks |-> "idle"] /\ todo = [r \in Ranks |-> <<>>] /\ mem = [r \in Ranks |-> <<>>]
      /\ failing = {} /\ net = <<>> /\ broken = {} /\ faults = 0
  BY DEF Init
<1>2. Shape
  BY <1>1 DEF Shape
<1>3. RanksGood
  <2> SUFFICES ASSUME NEW r \in Ranks PROVE RankGood(job, r, done[r], ops[r], stage[r], todo[r], mem[r])
    BY DEF RanksGood
  <2>1. done[r] = 0 /\ ops[r] = <<>> /\ stage[r] = "idle" /\ todo[r] = <<>>
    BY <1>1
  <2>2. 0 \in 0 .. Len(job.calls[r])
    BY <1>1, JobFacts
  <2>3. <<>> \in Seq(Nat) /\ Len(<<>>) = 0
    OBVIOUS
  <2> QED BY <2>1, <2>2, <2>3, NoPhase DEF RankGood, Stages
<1>4. FailuresShow /\ NetGood
  BY <1>1 DEF FailuresShow, NetGood
<1>5. faults \in 0 .. job.faults
  BY <1>1, JobFacts
<1> QED
  BY <1>1, <1>2, <1>3, <1>4, <1>5 DEF CollectiveInv

(* A step of rank r.                                                        *)
LEMMA RankStep ==
  ASSUME CollectiveInv, NEW r \in Ranks, job' = job, Shape',
         \A q \in Ranks \ {r} : /\ done'[q] = done[q] /\ ops'[q] = ops[q] /\ stage'[q] = stage[q]
                                /\ todo'[q] = todo[q] /\ mem'[q] = mem[q],
         failing' \subseteq failing \cup {r},
         RankGood(job, r, done'[r], ops'[r], stage'[r], todo'[r], mem'[r]),
         r \in failing' => stage'[r] = "running" /\ Shows(todo'[r]),
         NetGood', broken' \subseteq Ranks, faults' \in 0 .. job.faults
  PROVE  CollectiveInv'
<1>1. Ranks' = Ranks
  BY DEF Ranks
<1>2. job \in Jobs /\ RanksGood /\ FailuresShow
  BY DEF CollectiveInv
<1>3. RanksGood'
  <2> SUFFICES ASSUME NEW q \in Ranks PROVE RankGood(job, q, done'[q], ops'[q], stage'[q], todo'[q], mem'[q])
    BY <1>1 DEF RanksGood
  <2>1. CASE q = r
    BY <2>1
  <2>2. CASE q # r
    <3>1. RankGood(job, q, done[q], ops[q], stage[q], todo[q], mem[q])
      BY <1>2 DEF RanksGood
    <3>2. /\ done'[q] = done[q] /\ ops'[q] = ops[q] /\ stage'[q] = stage[q]
          /\ todo'[q] = todo[q] /\ mem'[q] = mem[q]
      BY <2>2
    <3> QED BY <3>1, <3>2
  <2> QED BY <2>1, <2>2
<1>4. FailuresShow'
  <2>1. failing' \subseteq Ranks
    BY <1>2 DEF FailuresShow
  <2>2. ASSUME NEW q \in failing' PROVE stage'[q] = "running" /\ Shows(todo'[q])
    <3>1. CASE q = r
      BY <2>2, <3>1
    <3>2. CASE q # r
      <4>1. q \in failing /\ q \in Ranks \ {r}
        BY <2>1, <2>2, <3>2
      <4>2. stage[q] = "running" /\ Shows(todo[q])
        BY <1>2, <4>1 DEF FailuresShow
      <4>3. stage'[q] = stage[q] /\ todo'[q] = todo[q]
        BY <4>1
      <4> QED BY <4>2, <4>3
    <3> QED BY <3>1, <3>2
  <2> QED BY <1>1, <2>1, <2>2 DEF FailuresShow
<1> QED
  BY <1>1, <1>2, <1>3, <1>4 DEF CollectiveInv

-----------------------------------------------------------------------------
(* A thread goes on.                                                        *)

(* The phases of r, its stage and its failures have moved on together, and  *)
(* nothing else has.                                                        *)
Goes(r) ==
  /\ todo' = [q \in Ranks |-> todo'[q]] /\ stage' = [q \in Ranks |-> stage'[q]]
  /\ \A q \in Ranks \ {r} : todo'[q] = todo[q] /\ stage'[q] = stage[q]
  /\ failing' \subseteq failing \cup {r}
  /\ stage'[r] \in {"running", "finished", "failed"}
  /\ stage'[r] = "running" <=> todo'[r] # <<>>
  /\ r \in failing' => stage'[r] = "running" /\ Shows(todo'[r])

(* The four ways a thread goes on: its scope is joined or not, with a       *)
(* failure or without.                                                      *)
Outcome(r, scope, failed) ==
  LET joined == \A j \in Threads(r) : scope[1].threads[j] = <<>>
      bad == failed \/ r \in failing
  IN \/ joined /\ bad /\ todo'[r] = <<>> /\ stage'[r] = "failed" /\ r \notin failing'
     \/ /\ joined /\ ~bad /\ todo'[r] = Joined(scope) /\ r \notin failing'
        /\ stage'[r] = IF Joined(scope) = <<>> THEN "finished" ELSE "running"
     \/ ~joined /\ bad /\ todo'[r] = scope /\ stage'[r] = "running"
     \/ /\ ~joined /\ ~bad /\ todo'[r] = scope /\ r \notin failing'
        /\ stage'[r] = IF scope = <<>> THEN "finished" ELSE "running"

(* A thread that goes on does so in one of these ways.                      *)
LEMMA ContinueCases ==
  ASSUME Shape, NEW r \in Ranks, NEW k, NEW rest, NEW failed \in BOOLEAN, Continue(r, k, rest, failed),
         NEW scope, scope = With(r, k, rest)
  PROVE  /\ todo' = [q \in Ranks |-> todo'[q]] /\ stage' = [q \in Ranks |-> stage'[q]]
         /\ \A q \in Ranks \ {r} : todo'[q] = todo[q] /\ stage'[q] = stage[q]
         /\ failing' \subseteq failing \cup {r}
         /\ Outcome(r, scope, failed)
<1> DEFINE joined == \A j \in Threads(r) : scope[1].threads[j] = <<>>
           bad == failed \/ r \in failing
           left == IF joined THEN Joined(scope) ELSE scope
<1>1. /\ todo' = [todo EXCEPT ![r] = IF joined /\ bad THEN <<>> ELSE left]
      /\ failing' = IF joined \/ ~bad THEN failing \ {r} ELSE failing \cup {r}
      /\ stage' = [stage EXCEPT ![r] = CASE joined /\ bad -> "failed"
                                         [] left = <<>> /\ ~bad -> "finished"
                                         [] OTHER -> "running"]
  BY Zenon DEF Continue
<1>2. /\ todo = [q \in Ranks |-> todo[q]] /\ stage = [q \in Ranks |-> stage[q]]
  BY DEF Shape
<1>3. CASE joined /\ bad
  <2>1. todo' = [todo EXCEPT ![r] = <<>>] /\ stage' = [stage EXCEPT ![r] = "failed"] /\ failing' = failing \ {r}
    <3> HIDE DEF joined, bad, left
    <3> QED BY <1>1, <1>3
  <2> HIDE DEF left
  <2> QED BY <1>2, <1>3, <2>1 DEF Outcome
<1>4. CASE joined /\ ~bad
  <2>1. /\ todo' = [todo EXCEPT ![r] = Joined(scope)] /\ failing' = failing \ {r}
        /\ stage' = [stage EXCEPT ![r] = IF Joined(scope) = <<>> THEN "finished" ELSE "running"]
    <3>1. left = Joined(scope)
      BY <1>4
    <3> HIDE DEF joined, bad, left
    <3> QED BY <1>1, <1>4, <3>1
  <2> HIDE DEF left
  <2> QED BY <1>2, <1>4, <2>1 DEF Outcome
<1>5. CASE ~joined /\ bad
  <2>1. /\ todo' = [todo EXCEPT ![r] = scope] /\ failing' = failing \cup {r}
        /\ stage' = [stage EXCEPT ![r] = "running"]
    <3>1. left = scope
      BY <1>5
    <3> HIDE DEF joined, bad, left
    <3> QED BY <1>1, <1>5, <3>1
  <2> HIDE DEF left
  <2> QED BY <1>2, <1>5, <2>1 DEF Outcome
<1>6. CASE ~joined /\ ~bad
  <2>1. /\ todo' = [todo EXCEPT ![r] = scope] /\ failing' = failing \ {r}
        /\ stage' = [stage EXCEPT ![r] = IF scope = <<>> THEN "finished" ELSE "running"]
    <3>1. left = scope
      BY <1>6
    <3> HIDE DEF joined, bad, left
    <3> QED BY <1>1, <1>6, <3>1
  <2> HIDE DEF left
  <2> QED BY <1>2, <1>6, <2>1 DEF Outcome
<1> HIDE DEF joined, bad, left
<1> QED
  BY <1>3, <1>4, <1>5, <1>6

(* The only thread of a call has another rest.                              *)
LEMMA WithMain ==
  ASSUME NEW a, NEW b
  PROVE  [<<Main(a)>> EXCEPT ![1].threads[1] = b] = <<Main(b)>>
<1>1. PICK p, th, q : p = Main(a) /\ th = <<a>> /\ q = Main(b)
  OBVIOUS
<1>2. p = [scoped |-> p.scoped, threads |-> th] /\ th = p.threads /\ p.scoped = FALSE
  BY <1>1 DEF Main
<1>3. PICK new : new = [th EXCEPT ![1] = b]
  OBVIOUS
<1>4. new = <<b>>
  BY <1>1, <1>3
<1>5. [p EXCEPT !.threads[1] = b] = [scoped |-> p.scoped, threads |-> new]
  BY <1>2, <1>3
<1>6. [p EXCEPT !.threads[1] = b] = q
  BY <1>1, <1>2, <1>4, <1>5 DEF Main
<1>7. [<<p>> EXCEPT ![1].threads[1] = b] = <<q>>
  BY <1>6
<1> QED
  BY <1>1, <1>7, Zenon

(* In a program of data: what is left is a program of data.                 *)
LEMMA ContinuePlain ==
  ASSUME CollectiveInv, NEW r \in Ranks, NEW k \in DOMAIN todo[r][1].threads,
         stage[r] = "running", PlainProgram(todo[r]), todo[r] # <<>>, todo[r][1].threads[k] # <<>>,
         NEW rest, rest = Tail(todo[r][1].threads[k]) \/ rest = <<>>,
         NEW failed \in BOOLEAN, failed => rest = <<>>, Continue(r, k, rest, failed)
  PROVE  Goes(r) /\ PlainProgram(todo'[r])
<1>1. PICK td, th : td = todo[r] /\ th = td[1].threads
  OBVIOUS
<1>2. PICK scope : scope = With(r, k, rest)
  OBVIOUS
<1>3. Within(rest, Touched(th[k]))
  <2>1. PlainThread(th[k])
    BY <1>1, FirstPhase DEF PlainPhase
  <2>2. Within(th[k], Touched(th[k]))
    BY <2>1 DEF Within
  <2>3. Within(Tail(th[k]), Touched(th[k])) /\ Within(<<>>, Touched(th[k]))
    BY <1>1, <2>2, WithinTail, WithinNone
  <2> QED BY <1>1, <2>3
<1>4. scope = Left(td, k, rest)
  BY <1>1, <1>2 DEF With, Left
<1>5. PlainProgram(scope) /\ scope # <<>> /\ scope[1].threads = [th EXCEPT ![k] = rest]
  <2>1. PlainProgram(td) /\ td # <<>> /\ k \in DOMAIN td[1].threads /\ Within(rest, Touched(td[1].threads[k]))
    BY <1>1, <1>3
  <2>2. PlainProgram(scope) /\ scope # <<>> /\ scope[1].threads = [td[1].threads EXCEPT ![k] = rest]
    BY <1>4, <2>1, WithPlain
  <2> QED BY <1>1, <2>2, Zenon
<1>6. k \in DOMAIN th /\ th[k] # <<>>
  BY <1>1
<1>7. r \in failing => \E j \in DOMAIN th : th[j] = <<>>
  BY <1>1 DEF CollectiveInv, FailuresShow, Shows
<1>8. failed \/ r \in failing => Shows(scope)
  <2>1. CASE failed
    BY <1>5, <1>6, <2>1 DEF Shows
  <2>2. CASE r \in failing
    <3>1. PICK j \in DOMAIN th : th[j] = <<>>
      BY <1>7, <2>2
    <3>2. j # k
      BY <1>6, <3>1
    <3>3. scope[1].threads[j] = <<>> /\ j \in DOMAIN scope[1].threads
      BY <1>5, <3>1, <3>2
    <3> QED BY <3>3 DEF Shows
  <2> QED BY <2>1, <2>2
<1>9. PlainProgram(Joined(scope)) /\ PlainProgram(<<>>)
  BY <1>5, JoinedPlain, NoPhase
<1>10. Shape
  BY DEF CollectiveInv
<1>11. /\ todo' = [q \in Ranks |-> todo'[q]] /\ stage' = [q \in Ranks |-> stage'[q]]
       /\ \A q \in Ranks \ {r} : todo'[q] = todo[q] /\ stage'[q] = stage[q]
       /\ failing' \subseteq failing \cup {r}
  BY <1>2, <1>10, ContinueCases
<1>12. \/ todo'[r] = <<>> /\ stage'[r] = "failed" /\ r \notin failing'
       \/ todo'[r] = Joined(scope) /\ r \notin failing'
            /\ stage'[r] = IF Joined(scope) = <<>> THEN "finished" ELSE "running"
       \/ (failed \/ r \in failing) /\ todo'[r] = scope /\ stage'[r] = "running"
       \/ todo'[r] = scope /\ r \notin failing' /\ stage'[r] = IF scope = <<>> THEN "finished" ELSE "running"
  <2>1. Outcome(r, scope, failed)
    BY <1>2, <1>10, ContinueCases
  <2> QED BY <2>1 DEF Outcome
<1> QED
  BY <1>5, <1>8, <1>9, <1>11, <1>12 DEF Goes

(* In the exchange of counts: a failure ends the call.                      *)
LEMMA ContinueFails ==
  ASSUME CollectiveInv, NEW r \in Ranks, NEW k \in DOMAIN todo[r][1].threads, NEW thread,
         stage[r] = "running", todo[r] = <<Main(thread)>>, Continue(r, k, <<>>, TRUE)
  PROVE  Goes(r) /\ todo'[r] = <<>>
<1>1. PICK td : td = todo[r]
  OBVIOUS
<1>2. PICK scope : scope = With(r, k, <<>>)
  OBVIOUS
<1>3. td = << [scoped |-> FALSE, threads |-> <<thread>>] >> /\ k = 1
  BY <1>1 DEF Main
<1>4. scope = [td EXCEPT ![1].threads[1] = <<>>]
  BY <1>1, <1>2, <1>3 DEF With
<1>5. scope[1].threads[1] = <<>>
  BY <1>3, <1>4
<1>6. Threads(r) = {1}
  BY <1>1, <1>3 DEF Threads
<1>7. Shape
  BY DEF CollectiveInv
<1>8. \A j \in Threads(r) : scope[1].threads[j] = <<>>
  BY <1>5, <1>6
<1>9. /\ todo' = [q \in Ranks |-> todo'[q]] /\ stage' = [q \in Ranks |-> stage'[q]]
      /\ \A q \in Ranks \ {r} : todo'[q] = todo[q] /\ stage'[q] = stage[q]
      /\ failing' \subseteq failing \cup {r}
      /\ todo'[r] = <<>> /\ stage'[r] = "failed" /\ r \notin failing'
  <2>1. PICK failed \in BOOLEAN : failed /\ Continue(r, k, <<>>, failed)
    BY Zenon
  <2>2. PICK rest : rest = <<>> /\ Continue(r, k, rest, failed) /\ scope = With(r, k, rest)
    BY <1>2, <2>1, Zenon
  <2>3. Continue(r, k, rest, failed) /\ scope = With(r, k, rest)
    BY <2>2, Zenon
  <2>4. /\ todo' = [q \in Ranks |-> todo'[q]] /\ stage' = [q \in Ranks |-> stage'[q]]
        /\ \A q \in Ranks \ {r} : todo'[q] = todo[q] /\ stage'[q] = stage[q]
        /\ failing' \subseteq failing \cup {r}
        /\ Outcome(r, scope, failed)
    BY <1>7, <2>3, ContinueCases
  <2>5. todo'[r] = <<>> /\ stage'[r] = "failed" /\ r \notin failing'
    BY <1>8, <2>1, <2>4 DEF Outcome
  <2> QED BY <2>4, <2>5
<1> QED
  BY <1>9 DEF Goes

(* ... and otherwise it goes on.                                            *)
LEMMA ContinueCounts ==
  ASSUME CollectiveInv, NEW r \in Ranks, NEW k \in DOMAIN todo[r][1].threads, NEW thread,
         stage[r] = "running", todo[r] = <<Main(thread)>>, thread # <<>>, NEW rest, rest # <<>>,
         Continue(r, k, rest, FALSE)
  PROVE  Goes(r) /\ todo'[r] = <<Main(rest)>>
<1>1. PICK td : td = todo[r]
  OBVIOUS
<1>2. PICK scope : scope = With(r, k, rest)
  OBVIOUS
<1>3. td = << [scoped |-> FALSE, threads |-> <<thread>>] >> /\ k = 1
  BY <1>1 DEF Main
<1>4. scope = [<<Main(thread)>> EXCEPT ![1].threads[1] = rest]
  BY <1>2, <1>3, Zenon DEF With
<1>5. scope = << [scoped |-> FALSE, threads |-> <<rest>>] >>
  <2>1. scope = <<Main(rest)>>
    BY <1>4, WithMain, Zenon
  <2> QED BY <2>1 DEF Main
<1>6. Threads(r) = {1}
  BY <1>1, <1>3 DEF Threads
<1>7. Shape /\ r \notin failing
  <2>1. td[1].threads = <<thread>>
    BY <1>3
  <2>2. ~Shows(td)
    BY <2>1 DEF Shows
  <2> QED BY <1>1, <2>2 DEF CollectiveInv, FailuresShow
<1>8. ~ \A j \in Threads(r) : scope[1].threads[j] = <<>>
  BY <1>5, <1>6
<1>9. scope # <<>>
  BY <1>5
<1>10. /\ todo' = [q \in Ranks |-> todo'[q]] /\ stage' = [q \in Ranks |-> stage'[q]]
       /\ \A q \in Ranks \ {r} : todo'[q] = todo[q] /\ stage'[q] = stage[q]
       /\ failing' \subseteq failing \cup {r}
       /\ todo'[r] = scope /\ stage'[r] = "running" /\ r \notin failing'
  <2>1. PICK failed \in BOOLEAN : ~failed /\ Continue(r, k, rest, failed)
    BY Zenon
  <2>2. /\ todo' = [q \in Ranks |-> todo'[q]] /\ stage' = [q \in Ranks |-> stage'[q]]
        /\ \A q \in Ranks \ {r} : todo'[q] = todo[q] /\ stage'[q] = stage[q]
        /\ failing' \subseteq failing \cup {r}
        /\ Outcome(r, scope, failed)
    BY <1>2, <1>7, <2>1, ContinueCases
  <2>3. todo'[r] = scope /\ stage'[r] = "running" /\ r \notin failing'
    BY <1>7, <1>8, <1>9, <2>1, <2>2 DEF Outcome
  <2> QED BY <2>2, <2>3
<1>11. todo'[r] = <<Main(rest)>>
  BY <1>5, <1>10 DEF Main
<1> QED
  BY <1>9, <1>10, <1>11 DEF Goes

-----------------------------------------------------------------------------
(* Steps of a thread.                                                       *)

(* What a step of a thread of r leaves as it should be, besides the phases  *)
(* of r and its stage.                                                      *)
Elsewhere(r) ==
  /\ job' = job /\ done' = done /\ ops' = ops
  /\ mem' = [q \in Ranks |-> mem'[q]] /\ \A q \in Ranks \ {r} : mem'[q] = mem[q]
  /\ NetGood' /\ broken' \subseteq Ranks /\ faults' \in 0 .. job.faults

(* A thread of r has gone on, and its program is good.                      *)
LEMMA ThreadStep ==
  ASSUME CollectiveInv, NEW r \in Ranks, stage[r] = "running", Goes(r), Elsewhere(r),
         PlainProgram(todo'[r]) \/ CountsProgram(job.world, r, mem'[r], todo'[r])
  PROVE  CollectiveInv'
<1>1. Ranks' = Ranks /\ job' = job /\ done' = done /\ ops' = ops
  BY DEF Ranks, Elsewhere
<1>2. /\ todo' = [q \in Ranks |-> todo'[q]] /\ stage' = [q \in Ranks |-> stage'[q]]
      /\ \A q \in Ranks \ {r} : todo'[q] = todo[q] /\ stage'[q] = stage[q]
      /\ failing' \subseteq failing \cup {r}
      /\ stage'[r] \in {"running", "finished", "failed"}
      /\ stage'[r] = "running" <=> todo'[r] # <<>>
      /\ r \in failing' => stage'[r] = "running" /\ Shows(todo'[r])
  BY DEF Goes
<1>3. Shape /\ RanksGood
  BY DEF CollectiveInv
<1>4. Shape'
  <2>1. done' = [q \in Ranks |-> done'[q]] /\ ops' = [q \in Ranks |-> ops'[q]]
    BY <1>1, <1>3 DEF Shape
  <2>2. mem' = [q \in Ranks |-> mem'[q]]
    BY DEF Elsewhere
  <2> QED BY <1>1, <1>2, <2>1, <2>2 DEF Shape
<1>5. RankGood(job, r, done'[r], ops'[r], stage'[r], todo'[r], mem'[r])
  <2>1. RankGood(job, r, done[r], ops[r], stage[r], todo[r], mem[r])
    BY <1>3 DEF RanksGood
  <2>2. done'[r] = done[r] /\ ops'[r] = ops[r]
    BY <1>1
  <2>3. done'[r] \in 0 .. Len(job.calls[r]) /\ ops'[r] \in Seq(Nat) /\ Len(ops'[r]) <= done'[r]
    BY <2>1, <2>2 DEF RankGood
  <2>4. stage'[r] \in Stages /\ (stage'[r] = "running" <=> todo'[r] # <<>> /\ stage'[r] # "agreeing")
    BY <1>2 DEF Stages
  <2> QED BY <2>3, <2>4 DEF RankGood
<1>6. \A q \in Ranks \ {r} : /\ done'[q] = done[q] /\ ops'[q] = ops[q] /\ stage'[q] = stage[q]
                             /\ todo'[q] = todo[q] /\ mem'[q] = mem[q]
  BY <1>1, <1>2 DEF Elsewhere
<1>7. NetGood' /\ broken' \subseteq Ranks /\ faults' \in 0 .. job.faults
  BY DEF Elsewhere
<1> QED
  BY <1>1, <1>2, <1>4, <1>5, <1>6, <1>7, RankStep

(* A rank with threads has a program.                                       *)
LEMMA Running ==
  ASSUME CollectiveInv, NEW r \in Ranks, NEW k \in Threads(r)
  PROVE  /\ stage[r] = "running" /\ todo[r] # <<>> /\ k \in DOMAIN todo[r][1].threads
         /\ PlainProgram(todo[r]) \/ CountsProgram(job.world, r, mem[r], todo[r])
<1>1. stage[r] = "running" /\ k \in DOMAIN todo[r][1].threads
  BY DEF Threads
<1>2. RankGood(job, r, done[r], ops[r], stage[r], todo[r], mem[r])
  BY DEF CollectiveInv, RanksGood
<1> QED
  BY <1>1, <1>2 DEF RankGood

(* A thread fails.                                                          *)
LEMMA FailStep ==
  ASSUME CollectiveInv, NEW r \in Ranks, NEW k \in Threads(r), todo[r][1].threads[k] # <<>>,
         Continue(r, k, <<>>, TRUE), Elsewhere(r)
  PROVE  CollectiveInv'
<1>1. /\ stage[r] = "running" /\ todo[r] # <<>> /\ k \in DOMAIN todo[r][1].threads
      /\ PlainProgram(todo[r]) \/ CountsProgram(job.world, r, mem[r], todo[r])
  BY Running
<1>2. CASE PlainProgram(todo[r])
  <2>1. PICK failed \in BOOLEAN : failed /\ Continue(r, k, <<>>, failed)
    BY Zenon
  <2>2. PICK rest : rest = <<>> /\ Continue(r, k, rest, failed)
    BY <2>1, Zenon
  <2>3. (rest = Tail(todo[r][1].threads[k]) \/ rest = <<>>) /\ (failed => rest = <<>>)
    BY <2>2, Zenon
  <2>4. Continue(r, k, rest, failed)
    BY <2>2, Zenon
  <2>5. Goes(r) /\ PlainProgram(todo'[r])
    BY <1>1, <1>2, <2>3, <2>4, ContinuePlain
  <2> QED BY <1>1, <2>5, ThreadStep
<1>3. CASE CountsProgram(job.world, r, mem[r], todo[r])
  <2>1. PICK thread : todo[r] = <<Main(thread)>>
    BY <1>3 DEF CountsProgram
  <2>2. Goes(r) /\ todo'[r] = <<>>
    BY <1>1, <2>1, ContinueFails
  <2>3. PlainProgram(todo'[r])
    BY <2>2, NoPhase
  <2> QED BY <1>1, <2>2, <2>3, ThreadStep
<1> QED
  BY <1>1, <1>2, <1>3

(* A thread that moves data goes on.                                        *)
LEMMA PlainStep ==
  ASSUME CollectiveInv, NEW r \in Ranks, NEW k \in Threads(r), todo[r][1].threads[k] # <<>>,
         PlainProgram(todo[r]), Continue(r, k, Rest(r, k), FALSE), Elsewhere(r)
  PROVE  CollectiveInv'
<1>1. stage[r] = "running" /\ todo[r] # <<>> /\ k \in DOMAIN todo[r][1].threads
  BY Running
<1>2. PICK failed \in BOOLEAN : ~failed /\ Continue(r, k, Rest(r, k), failed)
  BY Zenon
<1>3. PICK rest : rest = Rest(r, k) /\ Continue(r, k, rest, failed)
  BY <1>2, Zenon
<1>4. (rest = Tail(todo[r][1].threads[k]) \/ rest = <<>>) /\ (failed => rest = <<>>)
  BY <1>2, <1>3, Zenon DEF Rest
<1>5. Continue(r, k, rest, failed)
  BY <1>3, Zenon
<1>6. Goes(r) /\ PlainProgram(todo'[r])
  BY <1>1, <1>4, <1>5, ContinuePlain
<1> QED
  BY <1>1, <1>6, ThreadStep

(* What is left of the exchange of counts after one message.                *)
LEMMA CountsTail ==
  ASSUME NEW world \in Nat, NEW r, NEW m, NEW new, NEW thread, CountsThread(world, r, m, thread),
         Head(thread).do # "layout",
         \A c : HasCount(m, c) => HasCount(new, c),
         \A s \in 0 .. world - 1 : TakesCount(Head(thread), s) => HasCount(new, <<"receive_counts", s>>)
  PROVE  CountsThread(world, r, new, Tail(thread)) /\ Tail(thread) # <<>>
<1>1. PICK rest, n : rest = Tail(thread) /\ n = Len(thread)
  OBVIOUS
<1>2. PICK h : h = Head(thread)
  OBVIOUS
<1>3. /\ IsList(thread) /\ thread # <<>>
      /\ thread[n] = [do |-> "layout", cells |-> <<>>]
      /\ \A i \in 1 .. n - 1 : \E d \in 0 .. world - 1 : SendsCount(thread[i], d) \/ TakesCount(thread[i], d)
      /\ \A d \in 0 .. world - 1 : HasCount(m, <<"send_counts", d>>)
      /\ \A s \in 0 .. world - 1 :
           \/ s = r \/ HasCount(m, <<"receive_counts", s>>)
           \/ \E i \in 1 .. n - 1 : TakesCount(thread[i], s)
  BY <1>1 DEF CountsThread
<1>4. /\ IsList(rest) /\ Len(rest) = n - 1 /\ n \in Nat \ {0}
      /\ \A i \in 1 .. n - 1 : rest[i] = thread[i + 1]
  BY <1>1, <1>3, TailList
<1>5. h = thread[1]
  BY <1>2, <1>3 DEF IsList
<1>6. n # 1
  BY <1>2, <1>3, <1>5
<1>7. rest # <<>> /\ Len(rest) \in Nat /\ n - 1 \in 1 .. n - 1
  BY <1>4, <1>6
<1>8. rest[Len(rest)] = [do |-> "layout", cells |-> <<>>]
  <2>1. rest[n - 1] = thread[(n - 1) + 1] /\ (n - 1) + 1 = n
    BY <1>4, <1>7
  <2> QED BY <1>3, <1>4, <2>1
<1>9. ASSUME NEW i \in 1 .. Len(rest) - 1
      PROVE  \E d \in 0 .. world - 1 : SendsCount(rest[i], d) \/ TakesCount(rest[i], d)
  <2>1. i + 1 \in 1 .. n - 1 /\ rest[i] = thread[i + 1]
    BY <1>4, <1>6
  <2> QED BY <1>3, <2>1
<1>10. \A d \in 0 .. world - 1 : HasCount(new, <<"send_counts", d>>)
  BY <1>3
<1>11. ASSUME NEW s \in 0 .. world - 1
       PROVE  \/ s = r \/ HasCount(new, <<"receive_counts", s>>)
              \/ \E i \in 1 .. Len(rest) - 1 : TakesCount(rest[i], s)
  <2>1. CASE s = r \/ HasCount(m, <<"receive_counts", s>>)
    BY <2>1
  <2>2. CASE \E i \in 1 .. n - 1 : TakesCount(thread[i], s)
    <3>1. PICK i \in 1 .. n - 1 : TakesCount(thread[i], s)
      BY <2>2
    <3>2. CASE i = 1
      BY <1>2, <1>5, <3>1, <3>2
    <3>3. CASE i # 1
      <4>1. PICK j : j = i - 1
        OBVIOUS
      <4>2. j \in 1 .. Len(rest) - 1 /\ j \in 1 .. n - 1 /\ j + 1 = i
        BY <1>4, <3>1, <3>3, <4>1
      <4>3. rest[j] = thread[i]
        BY <1>4, <4>2
      <4> QED BY <3>1, <4>2, <4>3
    <3> QED BY <3>2, <3>3
  <2> QED BY <1>3, <2>1, <2>2
<1>12. CountsThread(world, r, new, rest)
  BY <1>4, <1>7, <1>8, <1>9, <1>10, <1>11 DEF CountsThread
<1> QED
  BY <1>1, <1>7, <1>12

(* The thread that exchanges counts goes on.                                *)
LEMMA CountsStep ==
  ASSUME CollectiveInv, NEW r \in Ranks, NEW k \in Threads(r), NEW thread, todo[r] = <<Main(thread)>>,
         CountsThread(job.world, r, mem[r], thread), Next1(r, k).do # "layout",
         Continue(r, k, Rest(r, k), FALSE), Elsewhere(r),
         \A c : HasCount(mem[r], c) => HasCount(mem'[r], c),
         \A s \in Ranks : TakesCount(Next1(r, k), s) => HasCount(mem'[r], <<"receive_counts", s>>)
  PROVE  CollectiveInv'
<1>1. stage[r] = "running" /\ todo[r] # <<>> /\ k \in DOMAIN todo[r][1].threads
  BY Running
<1>2. todo[r][1].threads[k] = thread
  <2>1. todo[r][1].threads = <<thread>>
    BY DEF Main
  <2> QED BY <1>1, <2>1
<1>3. Next1(r, k) = Head(thread) /\ Rest(r, k) = Tail(thread)
  BY <1>2, Zenon DEF Next1, Rest
<1>4. PICK w, m, new : w = job.world /\ m = mem[r] /\ new = mem'[r]
  OBVIOUS
<1>5. w \in Nat /\ Ranks = 0 .. w - 1
  BY <1>4, JobFacts DEF CollectiveInv
<1>6. /\ CountsThread(w, r, m, thread) /\ Head(thread).do # "layout"
      /\ \A c : HasCount(m, c) => HasCount(new, c)
      /\ \A s \in 0 .. w - 1 : TakesCount(Head(thread), s) => HasCount(new, <<"receive_counts", s>>)
  BY <1>3, <1>4, <1>5
<1>7. PICK rest : rest = Tail(thread)
  OBVIOUS
<1>8. CountsThread(w, r, new, rest) /\ rest # <<>>
  BY <1>5, <1>6, <1>7, CountsTail
<1>9. Continue(r, k, rest, FALSE)
  BY <1>3, <1>7, Zenon
<1>10. thread # <<>>
  BY DEF CountsThread
<1>11. Goes(r) /\ todo'[r] = <<Main(rest)>>
  BY <1>1, <1>8, <1>9, <1>10, ContinueCounts
<1>12. CountsProgram(job.world, r, mem'[r], todo'[r])
  BY <1>4, <1>8, <1>11 DEF CountsProgram
<1> QED
  BY <1>1, <1>11, <1>12, ThreadStep

-----------------------------------------------------------------------------
(* Messages.                                                                *)

(* A message is sent.                                                       *)
LEMMA NetSend ==
  ASSUME NetGood, NEW link, NEW message, message.elt = "u8" => message.data \in Seq(Nat),
         net' = [l \in DOMAIN net \cup {link} |->
                   IF l # link THEN net[l]
                   ELSE Append(IF link \in DOMAIN net THEN net[link] ELSE <<>>, message)]
  PROVE  NetGood'
<1>1. PICK queue : queue = IF link \in DOMAIN net THEN net[link] ELSE <<>>
  OBVIOUS
<1>2. IsList(queue) /\ \A x \in Range(queue) : x.elt = "u8" => x.data \in Seq(Nat)
  <2>1. CASE link \in DOMAIN net
    BY <1>1, <2>1 DEF NetGood
  <2>2. CASE link \notin DOMAIN net
    <3>1. queue = <<>>
      BY <1>1, <2>2
    <3>2. IsList(queue) /\ Range(queue) = {}
      BY <3>1 DEF IsList, Range
    <3> QED BY <3>2
  <2> QED BY <2>1, <2>2
<1>3. PICK T : T = Range(queue) \cup {message}
  OBVIOUS
<1>4. queue \in Seq(T) /\ message \in T
  BY <1>2, <1>3, ListIn
<1>5. PICK longer : longer = Append(queue, message)
  OBVIOUS
<1>6. longer \in Seq(T) /\ longer # <<>>
  BY <1>4, <1>5
<1>7. IsList(longer) /\ Range(longer) \subseteq T
  BY <1>6, ListOver
<1>8. DOMAIN net' = DOMAIN net \cup {link} /\ net'[link] = longer /\ \A l \in DOMAIN net : l # link => net'[l] = net[l]
  BY <1>1, <1>5
<1>9. ASSUME NEW l \in DOMAIN net'
      PROVE  IsList(net'[l]) /\ net'[l] # <<>> /\ \A x \in Range(net'[l]) : x.elt = "u8" => x.data \in Seq(Nat)
  <2>1. CASE l = link
    BY <1>2, <1>3, <1>6, <1>7, <1>8, <2>1
  <2>2. CASE l # link
    <3>1. l \in DOMAIN net /\ net'[l] = net[l]
      BY <1>8, <2>2
    <3> QED BY <3>1 DEF NetGood
  <2> QED BY <2>1, <2>2
<1> QED
  BY <1>9 DEF NetGood

(* A message is taken.                                                      *)
LEMMA NetTook ==
  ASSUME NetGood, NEW link \in DOMAIN net, net' = Took(link)
  PROVE  NetGood' /\ (Head(net[link]).elt = "u8" => Head(net[link]).data \in Seq(Nat))
<1>1. PICK queue : queue = net[link]
  OBVIOUS
<1>2. IsList(queue) /\ queue # <<>> /\ \A x \in Range(queue) : x.elt = "u8" => x.data \in Seq(Nat)
  BY <1>1 DEF NetGood
<1>3. PICK rest, n : rest = Tail(queue) /\ n = Len(queue)
  OBVIOUS
<1>4. /\ IsList(rest) /\ Range(rest) \subseteq Range(queue) /\ Head(queue) \in Range(queue)
      /\ Len(rest) = n - 1 /\ n \in Nat \ {0}
  BY <1>2, <1>3, TailList
<1>5. CASE n = 1
  <2>1. net' = [l \in DOMAIN net \ {link} |-> net[l]]
    BY <1>1, <1>3, <1>5 DEF Took
  <2>2. DOMAIN net' \subseteq DOMAIN net /\ \A l \in DOMAIN net' : net'[l] = net[l]
    BY <2>1
  <2> QED BY <1>1, <1>2, <1>4, <2>2 DEF NetGood
<1>6. CASE n # 1
  <2>1. net' = [net EXCEPT ![link] = rest]
    BY <1>1, <1>3, <1>6 DEF Took
  <2>2. DOMAIN net' = DOMAIN net /\ net'[link] = rest /\ \A l \in DOMAIN net : l # link => net'[l] = net[l]
    BY <2>1
  <2>3. rest # <<>>
    BY <1>4, <1>6
  <2>4. ASSUME NEW l \in DOMAIN net'
        PROVE  IsList(net'[l]) /\ net'[l] # <<>> /\ \A x \in Range(net'[l]) : x.elt = "u8" => x.data \in Seq(Nat)
    <3>1. CASE l = link
      BY <1>2, <1>4, <2>2, <2>3, <3>1
    <3>2. CASE l # link
      <4>1. l \in DOMAIN net /\ net'[l] = net[l]
        BY <2>2, <3>2
      <4> QED BY <4>1 DEF NetGood
    <3> QED BY <3>1, <3>2
  <2>5. NetGood'
    BY <2>4 DEF NetGood
  <2> QED BY <1>1, <1>2, <1>4, <2>5
<1> QED
  BY <1>5, <1>6

(* The next instruction of a program of data.                               *)
LEMMA PlainNext ==
  ASSUME NEW r, NEW k \in DOMAIN todo[r][1].threads, todo[r] # <<>>, PlainProgram(todo[r]),
         todo[r][1].threads[k] # <<>>
  PROVE  Plain(Next1(r, k))
<1>1. PICK td, th : td = todo[r] /\ th = td[1].threads[k]
  OBVIOUS
<1>2. PlainThread(th)
  <2>1. PlainPhase(td[1])
    BY <1>1, FirstPhase
  <2> QED BY <1>1, <2>1 DEF PlainPhase
<1>3. Head(th) \in Range(th)
  BY <1>1, <1>2, TailList DEF PlainThread
<1> QED
  BY <1>1, <1>2, <1>3 DEF PlainThread, Next1

(* The next instruction of the exchange of counts.                          *)
LEMMA CountsNext ==
  ASSUME CollectiveInv, NEW r \in Ranks, NEW k \in Threads(r),
         CountsProgram(job.world, r, mem[r], todo[r])
  PROVE  \E thread : /\ todo[r] = <<Main(thread)>> /\ CountsThread(job.world, r, mem[r], thread)
                     /\ \/ Len(thread) = 1 /\ Next1(r, k).do = "layout"
                        \/ \E d \in Ranks : SendsCount(Next1(r, k), d) \/ TakesCount(Next1(r, k), d)
<1>1. PICK thread : todo[r] = <<Main(thread)>> /\ CountsThread(job.world, r, mem[r], thread)
  BY DEF CountsProgram
<1>2. todo[r][1].threads[k] = thread
  <2>1. todo[r][1].threads = <<thread>>
    BY <1>1 DEF Main
  <2>2. k \in DOMAIN todo[r][1].threads
    BY Running
  <2> QED BY <2>1, <2>2
<1>3. PICK w, m, n, T : w = job.world /\ m = mem[r] /\ n = Len(thread) /\ T = Range(thread)
  OBVIOUS
<1>4. Ranks = 0 .. w - 1
  BY <1>3 DEF Ranks
<1>5. /\ IsList(thread) /\ thread # <<>>
      /\ thread[n] = [do |-> "layout", cells |-> <<>>]
      /\ \A i \in 1 .. n - 1 : \E d \in Ranks : SendsCount(thread[i], d) \/ TakesCount(thread[i], d)
  BY <1>1, <1>3, <1>4 DEF CountsThread
<1>6. thread \in Seq(T) /\ n \in Nat \ {0}
  BY <1>3, <1>5 DEF IsList
<1>7. PICK h : h = Next1(r, k)
  OBVIOUS
<1>8. h = thread[1]
  BY <1>2, <1>5, <1>6, <1>7 DEF Next1
<1>9. CASE n = 1
  <2>1. Len(thread) = 1
    BY <1>3, <1>9
  <2>2. h.do = "layout"
    BY <1>5, <1>8, <1>9
  <2> QED BY <1>1, <1>7, <2>1, <2>2
<1>10. CASE n # 1
  <2>1. 1 \in 1 .. n - 1
    BY <1>6, <1>10
  <2>2. \E d \in Ranks : SendsCount(h, d) \/ TakesCount(h, d)
    BY <1>5, <1>8, <2>1
  <2> QED BY <1>1, <1>7, <2>2
<1> QED
  BY <1>9, <1>10

(* The count that is sent.                                                  *)
LEMMA PeekCount ==
  ASSUME NEW m, NEW d \in Nat, HasCount(m, <<"send_counts", d>>)
  PROVE  Peek(m, Cells("send_counts", d, 1)) \in Seq(Nat)
<1>1. PICK cells : cells = Cells("send_counts", d, 1)
  OBVIOUS
<1>2. DOMAIN cells = 1 .. 1 /\ cells[1] = <<"send_counts", d>>
  BY <1>1 DEF Cells
<1>3. PICK data : data = Peek(m, cells)
  OBVIOUS
<1>4. data = [i \in 1 .. 1 |-> IF cells[i] \in DOMAIN m THEN m[cells[i]] ELSE Garbage]
  BY <1>2, <1>3 DEF Peek
<1>5. \A i \in 1 .. 1 : cells[i] \in DOMAIN m /\ m[cells[i]] \in Nat
  BY <1>2 DEF HasCount
<1>6. data \in [1 .. 1 -> Nat]
  BY <1>4, <1>5
<1>7. data \in Seq(Nat)
  BY <1>6
<1> QED
  BY <1>1, <1>3, <1>7

(* A count that is received is there, and no other count is lost.           *)
LEMMA WrittenCount ==
  ASSUME NEW m, NEW s \in Nat, NEW data \in Seq(Nat), Len(data) = 1
  PROVE  LET new == Written(m, Cells("receive_counts", s, 1), data)
         IN HasCount(new, <<"receive_counts", s>>) /\ \A c : HasCount(m, c) => HasCount(new, c)
<1>1. PICK cells, new, x : /\ cells = Cells("receive_counts", s, 1) /\ new = Written(m, cells, data)
                           /\ x = <<"receive_counts", s>>
  OBVIOUS
<1>2. DOMAIN cells = 1 .. 1 /\ cells[1] = x /\ Range(cells) = {x}
  BY <1>1 DEF Cells, Range
<1>3. DOMAIN data = 1 .. 1 /\ data[1] \in Nat
  <2>1. DOMAIN data = 1 .. Len(data)
    OBVIOUS
  <2>2. \A i \in DOMAIN data : data[i] \in Nat
    OBVIOUS
  <2>3. DOMAIN data = 1 .. 1
    BY <2>1, Zenon
  <2>4. 1 \in DOMAIN data
    BY <2>3
  <2> QED BY <2>2, <2>3, <2>4, Zenon
<1>4. (CHOOSE i \in DOMAIN cells : cells[i] = x) = 1
  BY <1>2
<1>5. new = [c \in {x} \cup DOMAIN m |->
               IF c \in {x} THEN data[CHOOSE i \in DOMAIN cells : cells[i] = c] ELSE m[c]]
  BY <1>1, <1>2 DEF Written
<1>6. DOMAIN new = {x} \cup DOMAIN m /\ new[x] = data[1] /\ \A c \in DOMAIN m : c # x => new[c] = m[c]
  BY <1>4, <1>5
<1>7. HasCount(new, x)
  BY <1>3, <1>6 DEF HasCount
<1>8. \A c : HasCount(m, c) => HasCount(new, c)
  BY <1>6, <1>7 DEF HasCount
<1> QED
  BY <1>1, <1>7, <1>8

-----------------------------------------------------------------------------
(* The actions of a thread.                                                 *)

(* A step that leaves the memory alone.                                     *)
LEMMA MemorySame ==
  ASSUME CollectiveInv, mem' = mem
  PROVE  mem' = [q \in Ranks |-> mem'[q]] /\ \A r : \A q \in Ranks \ {r} : mem'[q] = mem[q]
BY DEF CollectiveInv, Shape

(* A step that writes the memory of r.                                      *)
LEMMA MemoryWritten ==
  ASSUME CollectiveInv, NEW r \in Ranks, NEW m, mem' = [mem EXCEPT ![r] = m]
  PROVE  /\ mem' = [q \in Ranks |-> mem'[q]] /\ \A q \in Ranks \ {r} : mem'[q] = mem[q]
         /\ mem'[r] = m
<1>1. mem = [q \in Ranks |-> mem[q]]
  BY DEF CollectiveInv, Shape
<1> QED
  BY <1>1

(* DoSend keeps the invariant.                                              *)
LEMMA SendInv ==
  ASSUME CollectiveInv, NEW r \in Ranks, NEW k \in Threads(r), DoSend(r, k)
  PROVE  CollectiveInv'
<1>1. /\ todo[r][1].threads[k] # <<>> /\ Next1(r, k).do = "send"
      /\ Continue(r, k, Rest(r, k), FALSE)
      /\ job' = job /\ done' = done /\ ops' = ops /\ mem' = mem /\ broken' = broken /\ faults' = faults
  BY DEF DoSend, Ready
<1>2. PICK i, link, message :
        /\ i = Next1(r, k) /\ link = <<r, i.peer, i.rail, i.tag>>
        /\ message = [op |-> Operation(r), elt |-> i.elt, data |-> Peek(mem[r], i.cells)]
  OBVIOUS
<1>3. net' = [l \in DOMAIN net \cup {link} |->
                IF l # link THEN net[l]
                ELSE Append(IF link \in DOMAIN net THEN net[link] ELSE <<>>, message)]
  BY <1>2, Zenon DEF DoSend
<1>4. message.elt = i.elt /\ message.data = Peek(mem[r], i.cells)
  BY <1>2
<1>5. NetGood /\ broken \subseteq Ranks /\ faults \in 0 .. job.faults /\ job \in Jobs
  BY DEF CollectiveInv
<1>6. /\ stage[r] = "running" /\ todo[r] # <<>> /\ k \in DOMAIN todo[r][1].threads
      /\ PlainProgram(todo[r]) \/ CountsProgram(job.world, r, mem[r], todo[r])
  BY Running
<1>7. ASSUME NetGood' PROVE Elsewhere(r)
  BY <1>1, <1>5, <1>7, MemorySame DEF Elsewhere
<1>8. CASE PlainProgram(todo[r])
  <2>1. Plain(i)
    BY <1>1, <1>2, <1>6, <1>8, PlainNext
  <2>2. message.elt # "u8"
    BY <1>1, <1>2, <1>4, <2>1 DEF Plain
  <2>3. NetGood'
    BY <1>3, <1>5, <2>2, NetSend
  <2> QED BY <1>1, <1>7, <1>8, <2>3, PlainStep
<1>9. CASE CountsProgram(job.world, r, mem[r], todo[r])
  <2>1. PICK thread : /\ todo[r] = <<Main(thread)>> /\ CountsThread(job.world, r, mem[r], thread)
                      /\ \/ i.do = "layout"
                         \/ \E d \in Ranks : SendsCount(i, d) \/ TakesCount(i, d)
    BY <1>2, <1>9, CountsNext
  <2>2. PICK d \in Ranks : SendsCount(i, d)
    BY <1>1, <1>2, <2>1 DEF TakesCount
  <2>3. d \in Nat
    BY <1>5, JobFacts
  <2>4. HasCount(mem[r], <<"send_counts", d>>)
    BY <2>1 DEF CountsThread, Ranks
  <2>5. message.data \in Seq(Nat)
    BY <1>4, <2>2, <2>3, <2>4, PeekCount DEF SendsCount
  <2>6. NetGood'
    BY <1>3, <1>5, <2>5, NetSend
  <2>7. Next1(r, k).do # "layout" /\ \A s \in Ranks : ~TakesCount(Next1(r, k), s)
    BY <1>1 DEF TakesCount
  <2>8. mem'[r] = mem[r]
    BY <1>1
  <2>9. /\ \A c : HasCount(mem[r], c) => HasCount(mem'[r], c)
        /\ \A s \in Ranks : TakesCount(Next1(r, k), s) => HasCount(mem'[r], <<"receive_counts", s>>)
    BY <2>7, <2>8
  <2> QED BY <1>1, <1>7, <2>1, <2>6, <2>7, <2>9, CountsStep
<1> QED
  BY <1>6, <1>8, <1>9

(* DoReceive keeps the invariant.                                           *)
LEMMA ReceiveInv ==
  ASSUME CollectiveInv, NEW r \in Ranks, NEW k \in Threads(r), DoReceive(r, k)
  PROVE  CollectiveInv'
<1>1. PICK i, link, message :
        i = Next1(r, k) /\ link = Link(r, k) /\ message = Head(net[link])
  OBVIOUS
<1>2. PICK expected \in BOOLEAN : expected <=> message.elt = i.elt /\ Len(message.data) = Len(i.cells)
  OBVIOUS
<1>3. /\ todo[r][1].threads[k] # <<>> /\ i.do = "receive" /\ link \in DOMAIN net /\ net' = Took(link)
      /\ job' = job /\ done' = done /\ ops' = ops /\ faults' = faults
  BY <1>1 DEF DoReceive, Ready
<1>5. NetGood /\ broken \subseteq Ranks /\ faults \in 0 .. job.faults /\ job \in Jobs
  BY DEF CollectiveInv
<1>6. NetGood' /\ (message.elt = "u8" => message.data \in Seq(Nat))
  BY <1>1, <1>3, <1>5, NetTook
<1>7. /\ stage[r] = "running" /\ todo[r] # <<>> /\ k \in DOMAIN todo[r][1].threads
      /\ PlainProgram(todo[r]) \/ CountsProgram(job.world, r, mem[r], todo[r])
  BY Running
<1>8. CASE ~expected
  <2>1. mem' = mem /\ broken' = broken \cup {r} /\ Continue(r, k, <<>>, TRUE)
    <3>1. ~(message.elt = i.elt /\ Len(message.data) = Len(i.cells))
      BY <1>2, <1>8
    <3> QED BY <1>1, <3>1 DEF DoReceive
  <2>2. Elsewhere(r)
    BY <1>3, <1>5, <1>6, <2>1, MemorySame DEF Elsewhere
  <2> QED BY <1>3, <2>1, <2>2, FailStep
<1>9. CASE expected
  <2>0. message.elt = i.elt /\ Len(message.data) = Len(i.cells)
    BY <1>2, <1>9
  <2>1. PICK new : new = Stored(mem[r], i, message.data)
    OBVIOUS
  <2>2. mem' = [mem EXCEPT ![r] = new] /\ broken' = broken /\ Continue(r, k, Rest(r, k), FALSE)
    BY <1>1, <2>0, <2>1 DEF DoReceive
  <2>3. /\ mem' = [q \in Ranks |-> mem'[q]] /\ \A q \in Ranks \ {r} : mem'[q] = mem[q]
        /\ mem'[r] = new
    BY <2>2, MemoryWritten
  <2>4. Elsewhere(r)
    BY <1>3, <1>5, <1>6, <2>2, <2>3 DEF Elsewhere
  <2>5. CASE PlainProgram(todo[r])
    BY <1>3, <2>2, <2>4, <2>5, PlainStep
  <2>6. CASE CountsProgram(job.world, r, mem[r], todo[r])
    <3>1. PICK thread : /\ todo[r] = <<Main(thread)>> /\ CountsThread(job.world, r, mem[r], thread)
                        /\ \/ i.do = "layout"
                           \/ \E d \in Ranks : SendsCount(i, d) \/ TakesCount(i, d)
      BY <1>1, <2>6, CountsNext
    <3>2. PICK s \in Ranks : TakesCount(i, s)
      BY <1>3, <3>1 DEF SendsCount
    <3>3. s \in Nat
      BY <1>5, JobFacts
    <3>4. PICK data, cells : data = message.data /\ cells = Cells("receive_counts", s, 1)
      OBVIOUS
    <3>5. i.elt = "u8" /\ i.mode = "count" /\ i.cells = cells
      BY <3>2, <3>4 DEF TakesCount
    <3>6. Len(cells) = 1 /\ cells[1] = <<"receive_counts", s>>
      <4>1. cells = [j \in 1 .. 1 |-> <<"receive_counts", s + j - 1>>]
        BY <3>4 DEF Cells
      <4>2. s + 1 - 1 = s
        BY <3>3
      <4>3. cells[1] = <<"receive_counts", s>>
        BY <4>1, <4>2
      <4>4. Len(cells) = 1
        BY <4>1
      <4> QED BY <4>3, <4>4
    <3>7. data \in Seq(Nat) /\ Len(data) = 1
      BY <1>6, <2>0, <3>4, <3>5, <3>6
    <3>8. new = Written(mem[r], cells, data)
      BY <2>1, <3>4, <3>5 DEF Stored
    <3>9. HasCount(new, <<"receive_counts", s>>) /\ \A c : HasCount(mem[r], c) => HasCount(new, c)
      BY <3>3, <3>4, <3>7, <3>8, WrittenCount
    <3>10. ASSUME NEW q \in Ranks, TakesCount(i, q) PROVE HasCount(new, <<"receive_counts", q>>)
      <4>1. Cells("receive_counts", q, 1) = cells
        BY <3>5, <3>10 DEF TakesCount
      <4>2. cells[1] = <<"receive_counts", q>>
        <5>1. q \in Int
          BY <1>5, JobFacts
        <5> QED BY <4>1, <5>1 DEF Cells
      <4> QED BY <3>6, <3>9, <4>2
    <3>11. /\ \A c : HasCount(mem[r], c) => HasCount(mem'[r], c)
           /\ \A q \in Ranks : TakesCount(Next1(r, k), q) => HasCount(mem'[r], <<"receive_counts", q>>)
           /\ Next1(r, k).do # "layout"
      BY <1>1, <1>3, <2>3, <3>9, <3>10
    <3> QED BY <2>2, <2>4, <3>1, <3>11, CountsStep
  <2> QED BY <1>7, <2>5, <2>6
<1> QED
  BY <1>8, <1>9

(* DoMove keeps the invariant.                                              *)
LEMMA MoveInv ==
  ASSUME CollectiveInv, NEW r \in Ranks, NEW k \in Threads(r), DoMove(r, k)
  PROVE  CollectiveInv'
<1>1. PICK i, new : i = Next1(r, k) /\ new = Written(mem[r], i.cells, Peek(mem[r], i.from))
  OBVIOUS
<1>2. /\ todo[r][1].threads[k] # <<>> /\ i.do = "move" /\ Continue(r, k, Rest(r, k), FALSE)
      /\ mem' = [mem EXCEPT ![r] = new]
      /\ job' = job /\ done' = done /\ ops' = ops /\ net' = net /\ broken' = broken /\ faults' = faults
  BY <1>1 DEF DoMove, Ready
<1>3. /\ mem' = [q \in Ranks |-> mem'[q]] /\ \A q \in Ranks \ {r} : mem'[q] = mem[q]
  BY <1>2, MemoryWritten
<1>4. NetGood' /\ broken \subseteq Ranks /\ faults \in 0 .. job.faults
  BY <1>2 DEF CollectiveInv, NetGood
<1>5. Elsewhere(r)
  BY <1>2, <1>3, <1>4 DEF Elsewhere
<1>6. PlainProgram(todo[r]) \/ CountsProgram(job.world, r, mem[r], todo[r])
  BY Running
<1>7. ~CountsProgram(job.world, r, mem[r], todo[r])
  <2> SUFFICES ASSUME CountsProgram(job.world, r, mem[r], todo[r]) PROVE FALSE
    OBVIOUS
  <2>1. i.do = "layout" \/ \E d \in Ranks : SendsCount(i, d) \/ TakesCount(i, d)
    BY <1>1, CountsNext
  <2> QED BY <1>2, <2>1 DEF SendsCount, TakesCount
<1> QED
  BY <1>2, <1>5, <1>6, <1>7, PlainStep

(* DoLayout keeps the invariant: the counts are all there.                  *)
LEMMA LayoutInv ==
  ASSUME CollectiveInv, NEW r \in Ranks, NEW k \in Threads(r), DoLayout(r, k)
  PROVE  CollectiveInv'
<1>1. PICK m, send : m = mem[r] /\ send = [d \in Ranks |-> m[<<"send_counts", d>>]]
  OBVIOUS
<1>2. PICK receive : receive = [s \in Ranks |-> IF s = r THEN send[r] ELSE m[<<"receive_counts", s>>]]
  OBVIOUS
<1>3. PICK data : data = Joined(AllToAllVData(job.tuning, r, Operation(r), send, receive))
  OBVIOUS
<1>4. /\ todo[r][1].threads[k] # <<>> /\ Next1(r, k).do = "layout"
      /\ todo' = [todo EXCEPT ![r] = data]
      /\ stage' = [stage EXCEPT ![r] = IF data = <<>> THEN "finished" ELSE "running"]
      /\ job' = job /\ done' = done /\ ops' = ops /\ failing' = failing /\ mem' = mem /\ net' = net
      /\ broken' = broken /\ faults' = faults
  BY <1>1, <1>2, <1>3 DEF DoLayout, Ready
<1>5. job \in Jobs /\ Shape /\ FailuresShow /\ NetGood /\ broken \subseteq Ranks /\ faults \in 0 .. job.faults
  BY DEF CollectiveInv
<1>6. /\ stage[r] = "running" /\ todo[r] # <<>> /\ k \in DOMAIN todo[r][1].threads
      /\ PlainProgram(todo[r]) \/ CountsProgram(job.world, r, mem[r], todo[r])
  BY Running
<1>7. ~PlainProgram(todo[r])
  <2> SUFFICES ASSUME PlainProgram(todo[r]) PROVE FALSE
    OBVIOUS
  <2>1. Plain(Next1(r, k))
    BY <1>4, <1>6, PlainNext
  <2> QED BY <1>4, <2>1 DEF Plain
<1>8. PICK thread : /\ todo[r] = <<Main(thread)>> /\ CountsThread(job.world, r, mem[r], thread)
                    /\ Len(thread) = 1
  <2>1. PICK thread : /\ todo[r] = <<Main(thread)>> /\ CountsThread(job.world, r, mem[r], thread)
                      /\ \/ Len(thread) = 1
                         \/ \E d \in Ranks : SendsCount(Next1(r, k), d) \/ TakesCount(Next1(r, k), d)
    BY <1>6, <1>7, CountsNext
  <2>2. ~ \E d \in Ranks : SendsCount(Next1(r, k), d) \/ TakesCount(Next1(r, k), d)
    BY <1>4 DEF SendsCount, TakesCount
  <2> QED BY <2>1, <2>2
<1>9. PICK w, t : w = job.world /\ t = job.tuning
  OBVIOUS
<1>10. w \in Nat \ {0} /\ Ranks = 0 .. w - 1 /\ WellFormedTuning(t, w)
  BY <1>5, <1>9, JobFacts, JobsAssumption
<1>11. ASSUME NEW d \in 0 .. w - 1
       PROVE  HasCount(m, <<"send_counts", d>>) /\ (d = r \/ HasCount(m, <<"receive_counts", d>>))
  <2>1. CountsThread(w, r, m, thread)
    BY <1>1, <1>8, <1>9
  <2>2. \A n : n \notin 1 .. Len(thread) - 1
    BY <1>8
  <2> QED BY <2>1, <2>2 DEF CountsThread
<1>12. \A d \in 0 .. w - 1 : send[d] \in Nat /\ receive[d] \in Nat
  <2> SUFFICES ASSUME NEW d \in 0 .. w - 1 PROVE send[d] \in Nat /\ receive[d] \in Nat
    OBVIOUS
  <2>1. send[d] = m[<<"send_counts", d>>] /\ send[r] = m[<<"send_counts", r>>]
    BY <1>1, <1>10
  <2>2. receive[d] = IF d = r THEN send[r] ELSE m[<<"receive_counts", d>>]
    BY <1>2, <1>10
  <2>3. send[d] \in Nat
    BY <1>11, <2>1 DEF HasCount
  <2>4. receive[d] \in Nat
    BY <1>11, <2>2, <2>3 DEF HasCount
  <2> QED BY <2>3, <2>4
<1>13. PlainProgram(data)
  <2>1. PICK operation : operation = Operation(r)
    OBVIOUS
  <2>2. PlainProgram(AllToAllVData(t, r, operation, send, receive))
    BY <1>10, <1>12, AllToAllVDataPlain
  <2> QED BY <1>3, <1>9, <2>1, <2>2, JoinedPlain
<1>14. todo'[r] = data /\ stage'[r] = IF data = <<>> THEN "finished" ELSE "running"
  BY <1>4, <1>5 DEF Shape
<1>15. r \notin failing
  <2>1. todo[r][1].threads = <<thread>>
    BY <1>8 DEF Main
  <2>2. thread # <<>>
    BY <1>8 DEF CountsThread
  <2>3. ~Shows(todo[r])
    BY <2>1, <2>2 DEF Shows
  <2> QED BY <1>5, <2>3 DEF FailuresShow
<1>16. Goes(r)
  <2>1. /\ todo' = [q \in Ranks |-> todo'[q]] /\ stage' = [q \in Ranks |-> stage'[q]]
        /\ \A q \in Ranks \ {r} : todo'[q] = todo[q] /\ stage'[q] = stage[q]
    BY <1>4, <1>5 DEF Shape
  <2> QED BY <1>4, <1>14, <1>15, <2>1 DEF Goes
<1>17. Elsewhere(r)
  <2>1. NetGood'
    BY <1>4, <1>5 DEF NetGood
  <2> QED BY <1>4, <1>5, <2>1, MemorySame DEF Elsewhere
<1>18. PlainProgram(todo'[r])
  BY <1>13, <1>14
<1> QED
  BY <1>6, <1>16, <1>17, <1>18, ThreadStep

(* The failures of a thread keep the invariant.                             *)
LEMMA ThreadFailures ==
  ASSUME CollectiveInv, NEW r \in Ranks, NEW k \in Threads(r),
         DeviceFault(r, k) \/ ReceiveTimesOut(r, k) \/ ThreadFails(r, k)
  PROVE  CollectiveInv'
<1>1. job \in Jobs /\ NetGood /\ broken \subseteq Ranks /\ faults \in 0 .. job.faults
  BY DEF CollectiveInv
<1>2. job.faults \in Nat
  BY <1>1, JobFacts
<1>3. CASE DeviceFault(r, k)
  <2>1. /\ todo[r][1].threads[k] # <<>> /\ Continue(r, k, <<>>, TRUE)
        /\ job' = job /\ done' = done /\ ops' = ops /\ mem' = mem
        /\ faults < job.faults /\ faults' = faults + 1 /\ broken' \subseteq broken \cup {r}
    BY <1>3 DEF DeviceFault, Ready, PropagateChannelFailure
  <2>2. NetGood'
    <3>1. CASE Next1(r, k).do = "receive"
      <4>1. PICK link \in DOMAIN net : net' = Took(link)
        BY <1>3, <3>1 DEF DeviceFault
      <4> QED BY <1>1, <4>1, NetTook
    <3>2. CASE Next1(r, k).do # "receive"
      <4>1. net' = net
        BY <1>3, <3>2 DEF DeviceFault
      <4> QED BY <1>1, <4>1 DEF NetGood
    <3> QED BY <3>1, <3>2
  <2>3. faults' \in 0 .. job.faults /\ broken' \subseteq Ranks
    BY <1>1, <1>2, <2>1
  <2>4. Elsewhere(r)
    BY <2>1, <2>2, <2>3, MemorySame DEF Elsewhere
  <2> QED BY <2>1, <2>4, FailStep
<1>4. CASE ReceiveTimesOut(r, k)
  <2>1. /\ todo[r][1].threads[k] # <<>> /\ Continue(r, k, <<>>, TRUE)
        /\ job' = job /\ done' = done /\ ops' = ops /\ mem' = mem /\ net' = net
        /\ broken' = broken \cup {r}
    BY <1>4 DEF ReceiveTimesOut, Ready
  <2>2. faults' \in 0 .. job.faults
    <3>1. faults' = faults \/ (faults < job.faults /\ faults' = faults + 1)
      BY <1>4 DEF ReceiveTimesOut
    <3> QED BY <1>1, <1>2, <3>1
  <2>3. NetGood'
    BY <1>1, <2>1 DEF NetGood
  <2>4. Elsewhere(r)
    BY <1>1, <2>1, <2>2, <2>3, MemorySame DEF Elsewhere
  <2> QED BY <2>1, <2>4, FailStep
<1>5. CASE ThreadFails(r, k)
  <2>1. /\ todo[r][1].threads[k] # <<>> /\ Continue(r, k, <<>>, TRUE)
        /\ job' = job /\ done' = done /\ ops' = ops /\ mem' = mem /\ net' = net
        /\ broken' = broken /\ faults' = faults
    BY <1>5 DEF ThreadFails
  <2>2. NetGood'
    BY <1>1, <2>1 DEF NetGood
  <2>3. Elsewhere(r)
    BY <1>1, <2>1, <2>2, MemorySame DEF Elsewhere
  <2> QED BY <2>1, <2>3, FailStep
<1> QED
  BY <1>3, <1>4, <1>5

-----------------------------------------------------------------------------
(* The actions of a rank.                                                   *)

(* The parts of the invariant.                                              *)
LEMMA InvParts ==
  ASSUME CollectiveInv
  PROVE  /\ job \in Jobs /\ job.faults \in Nat
         /\ done = [q \in Ranks |-> done[q]] /\ ops = [q \in Ranks |-> ops[q]]
         /\ stage = [q \in Ranks |-> stage[q]] /\ todo = [q \in Ranks |-> todo[q]]
         /\ mem = [q \in Ranks |-> mem[q]]
         /\ \A r \in Ranks : RankGood(job, r, done[r], ops[r], stage[r], todo[r], mem[r])
         /\ failing \subseteq Ranks /\ \A r \in failing : stage[r] = "running" /\ Shows(todo[r])
         /\ NetGood /\ broken \subseteq Ranks /\ faults \in 0 .. job.faults
<1>1. job \in Jobs /\ Shape /\ RanksGood /\ FailuresShow
  BY DEF CollectiveInv
<1>2. job.faults \in Nat
  BY <1>1, JobFacts
<1> QED
  BY <1>1, <1>2 DEF CollectiveInv, Shape, RanksGood, FailuresShow

(* Begin keeps the invariant.                                               *)
LEMMA BeginInv ==
  ASSUME CollectiveInv, NEW r \in Ranks, Begin(r)
  PROVE  CollectiveInv'
<1>1. PICK n, o, c, operation : /\ n = done[r] + 1 /\ o = ops[r] /\ c = job.calls[r][n]
                                /\ operation = Len(ops[r])
  OBVIOUS
<1>2. PICK td, m : td = Joined(Program(c, r, operation)) /\ m = Buffers(c, r, operation)
  OBVIOUS
<1>3. /\ stage[r] = "idle" /\ done[r] < Len(job.calls[r])
      /\ done' = [done EXCEPT ![r] = n]
      /\ ops' = ops \/ ops' = [ops EXCEPT ![r] = Append(o, n)]
      /\ stage' = [stage EXCEPT ![r] = "agreeing"]
      /\ todo' = [todo EXCEPT ![r] = td]
      /\ mem' = [mem EXCEPT ![r] = m]
      /\ job' = job /\ failing' = failing /\ net' = net /\ broken' = broken /\ faults' = faults
  <2>1. c = Call(r)
    BY <1>1 DEF Call
  <2> QED BY <1>1, <1>2, <2>1 DEF Begin
<1>4. PICK len : len = Len(job.calls[r])
  OBVIOUS
<1>5. len \in Nat /\ done[r] \in 0 .. len /\ o \in Seq(Nat) /\ Len(o) <= done[r]
  <2>1. RankGood(job, r, done[r], ops[r], stage[r], todo[r], mem[r]) /\ job \in Jobs
    BY InvParts
  <2> QED BY <1>1, <1>4, <2>1, JobFacts DEF RankGood
<1>6. n \in 1 .. len /\ n \in Nat
  BY <1>1, <1>3, <1>4, <1>5
<1>7. PlainProgram(td) \/ CountsProgram(job.world, r, m, td)
  <2>1. n \in 1 .. Len(job.calls[r]) /\ job \in Jobs
    BY <1>4, <1>6, InvParts
  <2> QED BY <1>1, <1>2, <2>1, ProgramGood
<1>8. PICK longer : longer = Append(o, n)
  OBVIOUS
<1>9. longer \in Seq(Nat) /\ Len(longer) <= n /\ Len(o) <= n
  BY <1>1, <1>5, <1>6, <1>8
<1>10. PICK new : new = ops'[r]
  OBVIOUS
<1>11. new = o \/ new = longer
  BY <1>1, <1>3, <1>8, <1>10, InvParts
<1>12. new \in Seq(Nat) /\ Len(new) <= n
  BY <1>5, <1>9, <1>11
<1>13. done'[r] = n /\ stage'[r] = "agreeing" /\ todo'[r] = td /\ mem'[r] = m
  BY <1>3, InvParts
<1>14. RankGood(job, r, done'[r], ops'[r], stage'[r], todo'[r], mem'[r])
  <2>1. n \in 0 .. Len(job.calls[r])
    BY <1>4, <1>5, <1>6
  <2>2. RankGood(job, r, n, new, "agreeing", td, m)
    BY <1>7, <1>12, <2>1 DEF RankGood, Stages
  <2> QED BY <1>10, <1>13, <2>2
<1>15. Shape' /\ \A q \in Ranks \ {r} : /\ done'[q] = done[q] /\ ops'[q] = ops[q] /\ stage'[q] = stage[q]
                                        /\ todo'[q] = todo[q] /\ mem'[q] = mem[q]
  <2>1. Ranks' = Ranks
    BY <1>3 DEF Ranks
  <2>2. /\ done' = [q \in Ranks |-> done'[q]] /\ stage' = [q \in Ranks |-> stage'[q]]
        /\ todo' = [q \in Ranks |-> todo'[q]] /\ mem' = [q \in Ranks |-> mem'[q]]
    BY <1>3, InvParts
  <2>3. ops' = [q \in Ranks |-> ops'[q]] /\ \A q \in Ranks \ {r} : ops'[q] = ops[q]
    BY <1>3, InvParts
  <2>4. \A q \in Ranks \ {r} : done'[q] = done[q] /\ stage'[q] = stage[q] /\ todo'[q] = todo[q] /\ mem'[q] = mem[q]
    BY <1>3, InvParts
  <2> QED BY <2>1, <2>2, <2>3, <2>4 DEF Shape
<1>16. r \notin failing'
  BY <1>3, InvParts
<1>17. NetGood' /\ broken' \subseteq Ranks /\ faults' \in 0 .. job.faults /\ failing' \subseteq failing \cup {r}
  BY <1>3, InvParts DEF NetGood
<1>18. job' = job
  BY <1>3
<1> QED
  BY <1>14, <1>15, <1>16, <1>17, <1>18, RankStep

(* A call that fails before it takes a number.                              *)
LEMMA EarlyInv ==
  ASSUME CollectiveInv, NEW r \in Ranks, EarlyFault(r)
  PROVE  CollectiveInv'
<1>1. /\ stage[r] = "idle" /\ done[r] < Len(job.calls[r]) /\ done' = [done EXCEPT ![r] = done[r] + 1]
      /\ faults < job.faults /\ faults' = faults + 1
      /\ job' = job /\ ops' = ops /\ stage' = stage /\ todo' = todo /\ failing' = failing /\ mem' = mem
      /\ net' = net /\ broken' = broken
  BY DEF EarlyFault
<1>2. PICK len, n : len = Len(job.calls[r]) /\ n = done[r] + 1
  OBVIOUS
<1>3. RankGood(job, r, done[r], ops[r], stage[r], todo[r], mem[r]) /\ job \in Jobs
  BY InvParts
<1>4. len \in Nat /\ done[r] \in 0 .. len /\ Len(ops[r]) <= done[r] /\ Len(ops[r]) \in Nat
  BY <1>2, <1>3, JobFacts DEF RankGood
<1>5. n \in 0 .. Len(job.calls[r]) /\ Len(ops[r]) <= n
  BY <1>1, <1>2, <1>4
<1>6. done'[r] = n /\ ops'[r] = ops[r] /\ stage'[r] = stage[r] /\ todo'[r] = todo[r] /\ mem'[r] = mem[r]
  BY <1>1, <1>2, InvParts
<1>7. RankGood(job, r, done'[r], ops'[r], stage'[r], todo'[r], mem'[r])
  <2>1. RankGood(job, r, n, ops[r], stage[r], todo[r], mem[r])
    BY <1>3, <1>5 DEF RankGood
  <2> QED BY <1>6, <2>1
<1>8. Shape' /\ \A q \in Ranks \ {r} : /\ done'[q] = done[q] /\ ops'[q] = ops[q] /\ stage'[q] = stage[q]
                                       /\ todo'[q] = todo[q] /\ mem'[q] = mem[q]
  <2>1. Ranks' = Ranks
    BY <1>1 DEF Ranks
  <2>2. done' = [q \in Ranks |-> done'[q]] /\ \A q \in Ranks \ {r} : done'[q] = done[q]
    BY <1>1, InvParts
  <2> QED BY <1>1, <2>1, <2>2, InvParts DEF Shape
<1>9. r \notin failing' /\ failing' \subseteq failing \cup {r}
  BY <1>1, InvParts
<1>10. NetGood' /\ broken' \subseteq Ranks /\ faults' \in 0 .. job.faults
  <2>1. faults' \in 0 .. job.faults
    BY <1>1, InvParts
  <2> QED BY <1>1, <2>1, InvParts DEF NetGood
<1>11. job' = job
  BY <1>1
<1> QED
  BY <1>7, <1>8, <1>9, <1>10, <1>11, RankStep

(* Rank r is in stage s with the phases td and the memory m, and has no     *)
(* thread any more.                                                         *)
Ends(r, s, td, m) ==
  /\ s \in {"idle", "closed", "failed"} /\ stage' = [stage EXCEPT ![r] = s]
  /\ todo' = [todo EXCEPT ![r] = td] /\ mem' = [mem EXCEPT ![r] = m]
  /\ td = <<>> \/ (td = todo[r] /\ stage[r] \notin {"running", "agreeing"})
  /\ stage[r] # "running"
  /\ job' = job /\ done' = done /\ ops' = ops /\ failing' = failing /\ net' = net
  /\ broken' = broken /\ faults' = faults

(* A call returns, or a rank is closed, or an exchange returns an error.    *)
LEMMA EndsInv ==
  ASSUME CollectiveInv, NEW r \in Ranks, Return(r) \/ Close(r) \/ AgreementFails(r)
  PROVE  CollectiveInv'
<1>0. \E s, td, m : Ends(r, s, td, m)
  <2>1. todo = [todo EXCEPT ![r] = todo[r]] /\ mem = [mem EXCEPT ![r] = mem[r]]
    BY InvParts
  <2>2. CASE Return(r)
    <3>1. /\ stage[r] \in {"finished", "failed"} /\ stage' = [stage EXCEPT ![r] = "idle"]
          /\ mem' = [mem EXCEPT ![r] = <<>>] /\ todo' = [todo EXCEPT ![r] = todo[r]]
          /\ job' = job /\ done' = done /\ ops' = ops /\ failing' = failing /\ net' = net
          /\ broken' = broken /\ faults' = faults
      BY <2>1, <2>2 DEF Return
    <3>2. Ends(r, "idle", todo[r], <<>>)
      BY <3>1 DEF Ends
    <3> QED BY <3>2, Zenon
  <2>3. CASE Close(r)
    <3>1. /\ stage[r] = "idle" /\ stage' = [stage EXCEPT ![r] = "closed"]
          /\ mem' = [mem EXCEPT ![r] = mem[r]] /\ todo' = [todo EXCEPT ![r] = todo[r]]
          /\ job' = job /\ done' = done /\ ops' = ops /\ failing' = failing /\ net' = net
          /\ broken' = broken /\ faults' = faults
      BY <2>1, <2>3 DEF Close
    <3>2. Ends(r, "closed", todo[r], mem[r])
      BY <3>1 DEF Ends
    <3> QED BY <3>2, Zenon
  <2>4. CASE AgreementFails(r)
    <3>1. /\ stage[r] = "agreeing" /\ stage' = [stage EXCEPT ![r] = "failed"]
          /\ mem' = [mem EXCEPT ![r] = mem[r]] /\ todo' = [todo EXCEPT ![r] = <<>>]
          /\ job' = job /\ done' = done /\ ops' = ops /\ failing' = failing /\ net' = net
          /\ broken' = broken /\ faults' = faults
      BY <2>1, <2>4 DEF AgreementFails
    <3>2. Ends(r, "failed", <<>>, mem[r])
      BY <3>1 DEF Ends
    <3> QED BY <3>2, Zenon
  <2> QED BY <2>2, <2>3, <2>4
<1>1. PICK s, td, m :
        /\ s \in {"idle", "closed", "failed"} /\ stage' = [stage EXCEPT ![r] = s]
        /\ todo' = [todo EXCEPT ![r] = td] /\ mem' = [mem EXCEPT ![r] = m]
        /\ td = <<>> \/ (td = todo[r] /\ stage[r] \notin {"running", "agreeing"})
        /\ stage[r] # "running"
        /\ job' = job /\ done' = done /\ ops' = ops /\ failing' = failing /\ net' = net
        /\ broken' = broken /\ faults' = faults
  BY <1>0, Zenon DEF Ends
<1>2. RankGood(job, r, done[r], ops[r], stage[r], todo[r], mem[r])
  BY InvParts
<1>3. td = <<>>
  BY <1>1, <1>2 DEF RankGood
<1>4. RankGood(job, r, done[r], ops[r], s, td, m)
  <2>1. PlainProgram(td)
    BY <1>3, NoPhase
  <2> QED BY <1>1, <1>2, <1>3, <2>1 DEF RankGood, Stages
<1>5. done'[r] = done[r] /\ ops'[r] = ops[r] /\ stage'[r] = s /\ todo'[r] = td /\ mem'[r] = m
  BY <1>1, InvParts
<1>6. RankGood(job, r, done'[r], ops'[r], stage'[r], todo'[r], mem'[r])
  BY <1>4, <1>5
<1>7. Shape' /\ \A q \in Ranks \ {r} : /\ done'[q] = done[q] /\ ops'[q] = ops[q] /\ stage'[q] = stage[q]
                                       /\ todo'[q] = todo[q] /\ mem'[q] = mem[q]
  <2>1. Ranks' = Ranks
    BY <1>1 DEF Ranks
  <2>2. /\ stage' = [q \in Ranks |-> stage'[q]] /\ todo' = [q \in Ranks |-> todo'[q]]
        /\ mem' = [q \in Ranks |-> mem'[q]]
    BY <1>1, InvParts
  <2>3. \A q \in Ranks \ {r} : stage'[q] = stage[q] /\ todo'[q] = todo[q] /\ mem'[q] = mem[q]
    BY <1>1, InvParts
  <2>4. /\ done' = [q \in Ranks |-> done'[q]] /\ ops' = [q \in Ranks |-> ops'[q]]
        /\ \A q \in Ranks \ {r} : done'[q] = done[q] /\ ops'[q] = ops[q]
    BY <1>1, InvParts
  <2> QED BY <2>1, <2>2, <2>3, <2>4 DEF Shape
<1>8. r \notin failing' /\ failing' \subseteq failing \cup {r}
  BY <1>1, InvParts
<1>9. NetGood' /\ broken' \subseteq Ranks /\ faults' \in 0 .. job.faults
  BY <1>1, InvParts DEF NetGood
<1>10. job' = job
  BY <1>1
<1> QED
  BY <1>6, <1>7, <1>8, <1>9, <1>10, RankStep

(* Agree keeps the invariant.                                               *)
LEMMA AgreeInv ==
  ASSUME CollectiveInv, Agree
  PROVE  CollectiveInv'
<1>1. /\ \A r \in Ranks : stage[r] = "agreeing"
      /\ job' = job /\ done' = done /\ ops' = ops /\ todo' = todo /\ failing' = failing /\ mem' = mem
      /\ net' = net /\ faults' = faults
      /\ \/ stage' = [r \in Ranks |-> IF todo[r] = <<>> THEN "finished" ELSE "running"] /\ broken' = broken
         \/ stage' = stage /\ broken' = Ranks
  BY DEF Agree
<1>2. Ranks' = Ranks
  BY <1>1 DEF Ranks
<1>3. RanksGood'
  <2> SUFFICES ASSUME NEW r \in Ranks PROVE RankGood(job, r, done[r], ops[r], stage'[r], todo[r], mem[r])
    BY <1>1, <1>2 DEF RanksGood
  <2>1. RankGood(job, r, done[r], ops[r], stage[r], todo[r], mem[r])
    BY InvParts
  <2>2. CASE stage' = stage
    BY <2>1, <2>2
  <2>3. CASE stage' = [q \in Ranks |-> IF todo[q] = <<>> THEN "finished" ELSE "running"]
    <3>1. stage'[r] = IF todo[r] = <<>> THEN "finished" ELSE "running"
      BY <2>3
    <3> QED BY <2>1, <3>1 DEF RankGood, Stages
  <2> QED BY <1>1, <2>2, <2>3
<1>4. failing = {}
  BY <1>1, InvParts
<1>5. Shape'
  <2>1. stage' = [q \in Ranks |-> stage'[q]]
    BY <1>1, InvParts
  <2> QED BY <1>1, <1>2, <2>1, InvParts DEF Shape
<1>6. FailuresShow'
  BY <1>1, <1>4 DEF FailuresShow
<1>7. NetGood' /\ broken' \subseteq Ranks /\ faults' \in 0 .. job.faults /\ job \in Jobs
  BY <1>1, InvParts DEF NetGood
<1> QED
  BY <1>1, <1>2, <1>3, <1>5, <1>6, <1>7 DEF CollectiveInv

(* An abort, and a step that changes nothing.                               *)
LEMMA AbortInv ==
  ASSUME CollectiveInv,
         /\ job' = job /\ done' = done /\ ops' = ops /\ stage' = stage /\ todo' = todo
         /\ failing' = failing /\ mem' = mem /\ net' = net,
         broken' \subseteq Ranks, faults' \in 0 .. job.faults
  PROVE  CollectiveInv'
<1>1. Ranks' = Ranks
  BY DEF Ranks
<1>2. job \in Jobs /\ Shape /\ RanksGood /\ FailuresShow /\ NetGood
  BY DEF CollectiveInv
<1>3. Shape'
  BY <1>1, <1>2 DEF Shape
<1>4. RanksGood'
  BY <1>1, <1>2 DEF RanksGood
<1>5. FailuresShow'
  BY <1>1, <1>2 DEF FailuresShow
<1>6. NetGood'
  BY <1>2 DEF NetGood
<1> QED
  BY <1>1, <1>2, <1>3, <1>4, <1>5, <1>6 DEF CollectiveInv

-----------------------------------------------------------------------------
(* Every step keeps the invariant.                                          *)
LEMMA NextInv == CollectiveInv /\ [Next]_vars => CollectiveInv'
<1> SUFFICES ASSUME CollectiveInv, [Next]_vars PROVE CollectiveInv'
  OBVIOUS
<1>1. ASSUME NEW r \in Ranks, Step(r) PROVE CollectiveInv'
  <2>1. CASE Begin(r)
    BY <2>1, BeginInv
  <2>2. CASE Return(r) \/ Close(r) \/ AgreementFails(r)
    BY <2>2, EndsInv
  <2>3. CASE AbortArrives(r)
    <3>1. /\ job' = job /\ done' = done /\ ops' = ops /\ stage' = stage /\ todo' = todo
          /\ failing' = failing /\ mem' = mem /\ net' = net /\ faults' = faults /\ broken' = broken \cup {r}
      BY <2>3 DEF AbortArrives
    <3>2. broken' \subseteq Ranks /\ faults' \in 0 .. job.faults
      BY <3>1, InvParts
    <3> QED BY <3>1, <3>2, AbortInv
  <2>4. ASSUME NEW k \in Threads(r),
               DoSend(r, k) \/ DoReceive(r, k) \/ DoMove(r, k) \/ DoLayout(r, k) \/ ThreadFails(r, k)
        PROVE  CollectiveInv'
    BY <2>4, SendInv, ReceiveInv, MoveInv, LayoutInv, ThreadFailures
  <2> QED BY <1>1, <2>1, <2>2, <2>3, <2>4 DEF Step
<1>2. CASE Agree
  BY <1>2, AgreeInv
<1>3. CASE Late
  <2>1. CASE RoundTimesOut
    <3>1. /\ job' = job /\ done' = done /\ ops' = ops /\ stage' = stage /\ todo' = todo
          /\ failing' = failing /\ mem' = mem /\ net' = net /\ broken' = Ranks
          /\ faults' = faults \/ (faults < job.faults /\ faults' = faults + 1)
      BY <2>1 DEF RoundTimesOut
    <3>2. broken' \subseteq Ranks /\ faults' \in 0 .. job.faults
      BY <3>1, InvParts
    <3> QED BY <3>1, <3>2, AbortInv
  <2>2. ASSUME NEW r \in Ranks, NEW k \in Threads(r), ReceiveTimesOut(r, k) PROVE CollectiveInv'
    BY <2>2, ThreadFailures
  <2> QED BY <1>3, <2>1, <2>2 DEF Late
<1>4. CASE Fault
  <2>1. ASSUME NEW r \in Ranks, EarlyFault(r) PROVE CollectiveInv'
    BY <2>1, EarlyInv
  <2>2. ASSUME NEW r \in Ranks, NEW k \in Threads(r), DeviceFault(r, k) PROVE CollectiveInv'
    BY <2>2, ThreadFailures
  <2> QED BY <1>4, <2>1, <2>2 DEF Fault
<1>5. CASE UNCHANGED vars
  <2>1. /\ job' = job /\ done' = done /\ ops' = ops /\ stage' = stage /\ todo' = todo
        /\ failing' = failing /\ mem' = mem /\ net' = net /\ faults' = faults /\ broken' = broken
    BY <1>5 DEF vars
  <2>2. broken' \subseteq Ranks /\ faults' \in 0 .. job.faults
    BY <2>1, InvParts
  <2> QED BY <2>1, <2>2, AbortInv
<1> QED
  BY <1>1, <1>2, <1>3, <1>4, <1>5 DEF Next

(* Whatever the jobs, with any number of ranks, rings, groups, channels and *)
(* calls of any length, and whatever fails: the state has its shape, and    *)
(* the threads of a scope, which share the device buffers of their rank     *)
(* without a lock, never touch a cell that another one still has to read or *)
(* write.                                                                   *)
THEOREM ThreadsAlwaysApart == Spec => []Consistent
<1>1. Init => CollectiveInv
  BY InitInv
<1>2. CollectiveInv /\ [Next]_vars => CollectiveInv'
  BY NextInv
<1>3. CollectiveInv => Consistent
  BY InvConsistent
<1> QED
  BY <1>1, <1>2, <1>3, PTL DEF Spec
=============================================================================
