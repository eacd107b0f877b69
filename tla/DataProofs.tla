----------------------------- MODULE DataProofs ------------------------------
(* Facts about numbers and sequences, which the proofs about the components  *)
(* rest on.                                                                  *)
EXTENDS Integers, SequencesExt, FiniteSetsExt, SequenceTheorems, WellFoundedInduction, TLAPS

-----------------------------------------------------------------------------
(* Division by a positive number that is not known                          *)

LEMMA PageOfByte ==
  ASSUME NEW P \in Nat \ {0}, NEW i \in Nat
  PROVE  i \div P \in Int /\ (i \div P) * P <= i /\ i < (i \div P) * P + P
BY SMT

LEMMA FewerPages ==
  ASSUME NEW P \in Nat \ {0}, NEW q \in Int, NEW h \in Int, q * P < h * P
  PROVE  q < h
BY SMT

LEMMA NextPage ==
  ASSUME NEW P \in Nat \ {0}, NEW q \in Int, NEW h \in Int, h * P < q * P + P
  PROVE  h < q + 1
BY SMT

\* A byte between the starts of two pages lies in a page between them.
LEMMA PageBetween ==
  ASSUME NEW P \in Nat \ {0}, NEW i \in Nat, NEW lo \in Nat, NEW hi \in Nat,
         lo * P <= i, i < hi * P
  PROVE  i \div P \in Int /\ lo <= i \div P /\ i \div P < hi
<1> DEFINE q == i \div P
<1>1. q \in Int /\ q * P <= i /\ i < q * P + P
  BY PageOfByte
<1> HIDE DEF q
<1>2. q * P < hi * P /\ lo * P < q * P + P
  BY <1>1
<1>3. q < hi
  BY <1>1, <1>2, FewerPages
<1>4. lo < q + 1
  BY <1>1, <1>2, NextPage
<1> QED BY <1>1, <1>3, <1>4 DEF q

LEMMA WholePages ==
  ASSUME NEW P \in Nat \ {0}, NEW n \in Nat, n % P = 0
  PROVE  n = (n \div P) * P
BY SMT

\* Quotient and remainder, and that there is one of each.
LEMMA DivMod ==
  ASSUME NEW P \in Nat \ {0}, NEW n \in Int
  PROVE  /\ n \div P \in Int /\ n % P \in Int
         /\ 0 <= n % P /\ n % P < P /\ n = (n \div P) * P + (n % P)
BY SMT

LEMMA ProductOfDifference ==
  ASSUME NEW P \in Int, NEW q \in Int, NEW h \in Int
  PROVE  (q - h) * P = q * P - h * P
BY SMT

LEMMA DivUnique ==
  ASSUME NEW P \in Nat \ {0}, NEW n \in Int, NEW q \in Int, NEW r \in Int,
         0 <= r, r < P, n = q * P + r
  PROVE  n \div P = q /\ n % P = r
<1> DEFINE h == n \div P
           m == n % P
<1>1. h \in Int /\ m \in Int /\ 0 <= m /\ m < P /\ n = h * P + m
  BY DivMod
<1> HIDE DEF h, m
<1>2. h * P \in Int /\ q * P \in Int
  BY <1>1
<1>3. h * P < q * P + P /\ q * P < h * P + P
  BY <1>1, <1>2
<1>4. h < q + 1 /\ q < h + 1
  BY <1>1, <1>3, NextPage
<1>5. h = q
  BY <1>1, <1>4
<1>6. m = r
  BY <1>1, <1>2, <1>5
<1> QED BY <1>5, <1>6 DEF h, m

LEMMA MultiplesOrdered ==
  ASSUME NEW P \in Nat \ {0}, NEW q \in Int, NEW h \in Int
  PROVE  (q * P < h * P <=> q < h) /\ (q * P <= h * P <=> q <= h)
BY SMT

LEMMA SameMultiple ==
  ASSUME NEW P \in Nat \ {0}, NEW q \in Int, NEW h \in Int
  PROVE  q * P = h * P <=> q = h
BY SMT

\* What is padded to a multiple is one.
LEMMA PadRounds ==
  ASSUME NEW P \in Nat \ {0}, NEW n \in Nat
  PROVE  (n + ((-n) % P)) % P = 0
<1> DEFINE q == (-n) \div P
           r == (-n) % P
<1>1. q \in Int /\ r \in Int /\ -n = q * P + r
  BY DivMod
<1> HIDE DEF q, r
<1>2. (0 - q) * P = 0 * P - q * P /\ q * P \in Int
  BY <1>1, ProductOfDifference
<1>3. n + r = (0 - q) * P + 0
  BY <1>1, <1>2
<1>4. (n + r) % P = 0
  <2> DEFINE k == 0 - q
             m == n + r
  <2>1. k \in Int /\ m \in Int /\ 0 \in Int /\ 0 <= 0 /\ 0 < P
    BY <1>1
  <2>2. m = k * P + 0
    BY <1>3
  <2> HIDE DEF k, m
  <2>3. m % P = 0
    BY <2>1, <2>2, DivUnique
  <2>4. QED
    BY <2>3 DEF m
<1> QED BY <1>4 DEF r

-----------------------------------------------------------------------------
(* Induction                                                                *)

\* Induction, for a set of numbers.
LEMMA AllNumbers ==
  ASSUME NEW T, 0 \in T, \A n \in Nat : n \in T => n + 1 \in T
  PROVE  \A n \in Nat : n \in T
<1> DEFINE R == OpToRel(<, Nat)
           U == Nat \ T
<1>1. \A x, y \in Nat : <<x, y>> \in R <=> x < y
  BY DEF OpToRel
<1>2. IsWellFoundedOn(R, Nat)
  BY NatLessThanWellFounded
<1> HIDE DEF R
<1>3. U # {} => \E x \in U : \A y \in U : ~ (<<y, x>> \in R)
  <2>1. U \subseteq Nat
    OBVIOUS
  <2> HIDE DEF U
  <2>2. QED
    BY <1>2, <2>1, WFMin
<1>4. ASSUME NEW x \in U, \A y \in U : ~ (<<y, x>> \in R)
      PROVE  FALSE
  <2>1. x \in Nat /\ x # 0 /\ x - 1 \in Nat /\ x - 1 < x
    OBVIOUS
  <2>2. x - 1 \in T
    BY <1>1, <1>4, <2>1
  <2>3. (x - 1) + 1 \in T
    BY <2>1, <2>2
  <2>4. QED
    BY <2>1, <2>3
<1>5. QED
  BY <1>3, <1>4

LEMMA MaxOfPositions ==
  ASSUME NEW k \in Nat, NEW s \in SUBSET (1 .. k + 1), k + 1 \in s
  PROVE  Max(s) = k + 1
<1>1. k + 1 \in s /\ \A y \in s : k + 1 >= y
  OBVIOUS
<1>2. \A x \in s : (\A y \in s : x >= y) => x = k + 1
  <2> SUFFICES ASSUME NEW x \in s, \A y \in s : x >= y PROVE x = k + 1
    OBVIOUS
  <2>1. x >= k + 1 /\ k + 1 >= x /\ x \in Nat
    BY <1>1
  <2>2. QED
    BY <2>1
<1>3. \E x \in s : \A y \in s : x >= y
  BY <1>1
<1>4. QED
  BY <1>2, <1>3 DEF Max

-----------------------------------------------------------------------------
(* Sequences                                                                *)

\* Removing one element keeps the others, in order.
LEMMA RemoveAtProperties ==
  ASSUME NEW S, NEW s \in Seq(S), NEW i \in 1 .. Len(s)
  PROVE  /\ RemoveAt(s, i) \in Seq(S)
         /\ Len(RemoveAt(s, i)) = Len(s) - 1
         /\ \A j \in 1 .. Len(s) - 1 :
              RemoveAt(s, i)[j] = IF j < i THEN s[j] ELSE s[j + 1]
<1> DEFINE f == SubSeq(s, 1, i - 1)
           b == SubSeq(s, i + 1, Len(s))
<1>1. Len(s) \in Nat /\ i - 1 \in 0 .. Len(s)
  OBVIOUS
<1>2. /\ f \in Seq(S) /\ Len(f) = i - 1
      /\ \A j \in 1 .. i - 1 : f[j] = s[j]
  BY <1>1, SubSeqProperties, Z3
<1>3. /\ b \in Seq(S) /\ Len(b) = Len(s) - i
      /\ \A j \in 1 .. Len(s) - i : b[j] = s[i + j]
  BY <1>1, SubSeqProperties, Z3
<1>4. RemoveAt(s, i) = f \o b
  BY DEF RemoveAt
<1> HIDE DEF f, b
<1>5. /\ f \o b \in Seq(S) /\ Len(f \o b) = Len(s) - 1
      /\ \A j \in 1 .. Len(s) - 1 :
           (f \o b)[j] = IF j <= i - 1 THEN f[j] ELSE b[j - (i - 1)]
  <2>1. /\ f \o b \in Seq(S) /\ Len(f \o b) = Len(f) + Len(b)
        /\ \A j \in 1 .. Len(f) + Len(b) :
             (f \o b)[j] = IF j <= Len(f) THEN f[j] ELSE b[j - Len(f)]
    BY <1>2, <1>3, ConcatProperties, Zenon
  <2>2. Len(f) + Len(b) = Len(s) - 1
    BY <1>1, <1>2, <1>3
  <2>3. QED
    BY <1>2, <2>1, <2>2
<1>6. ASSUME NEW j \in 1 .. Len(s) - 1
      PROVE  (f \o b)[j] = IF j < i THEN s[j] ELSE s[j + 1]
  <2>1. CASE j < i
    BY <2>1, <1>1, <1>2, <1>5
  <2>2. CASE ~ (j < i)
    <3>1. j - (i - 1) \in 1 .. Len(s) - i
      BY <2>2, <1>1
    <3>2. (f \o b)[j] = b[j - (i - 1)]
      BY <2>2, <1>1, <1>5
    <3>3. b[j - (i - 1)] = s[j + 1]
      BY <3>1, <1>1, <1>3
    <3>4. QED
      BY <2>2, <3>2, <3>3
  <2>3. QED
    BY <2>1, <2>2
<1>7. QED
  BY <1>4, <1>5, <1>6

\* Appending to a sequence leaves its prefixes alone.
LEMMA PrefixOfAppend ==
  ASSUME NEW S, NEW q \in Seq(S), NEW x \in S, NEW n \in 0 .. Len(q)
  PROVE  SubSeq(Append(q, x), 1, n) = SubSeq(q, 1, n)
<1> DEFINE r == Append(q, x)
<1>1. /\ Len(r) = Len(q) + 1
      /\ \A i \in 1 .. Len(q) : r[i] = q[i] /\ q[i] \in S
      /\ Len(q) \in Nat
  BY AppendProperties, ElementOfSeq
<1> HIDE DEF r
<1>2. /\ SubSeq(r, 1, n) \in Seq(S)
      /\ Len(SubSeq(r, 1, n)) = n
      /\ \A i \in 1 .. n : SubSeq(r, 1, n)[i] = r[i]
  <2>1. \A i \in 1 .. n : r[i] \in S
    BY <1>1
  <2>2. QED
    BY <1>1, <2>1, SubSeqProperties
<1>3. /\ SubSeq(q, 1, n) \in Seq(S)
      /\ Len(SubSeq(q, 1, n)) = n
      /\ \A i \in 1 .. n : SubSeq(q, 1, n)[i] = q[i]
  <2>1. \A i \in 1 .. n : q[i] \in S
    BY <1>1
  <2>2. QED
    BY <1>1, <2>1, SubSeqProperties
<1>4. \A i \in 1 .. n : SubSeq(r, 1, n)[i] = SubSeq(q, 1, n)[i]
  BY <1>1, <1>2, <1>3
<1>5. SubSeq(r, 1, n) = SubSeq(q, 1, n)
  BY <1>2, <1>3, <1>4, SeqEqual
<1>6. QED
  BY <1>5 DEF r

LEMMA AppendToSet ==
  ASSUME NEW S, NEW q \in Seq(S), NEW x \in S
  PROVE  ToSet(Append(q, x)) = ToSet(q) \cup {x}
<1> DEFINE r == Append(q, x)
<1>1. /\ Len(r) = Len(q) + 1 /\ Len(q) \in Nat /\ r \in Seq(S)
      /\ \A i \in 1 .. Len(q) : r[i] = q[i]
      /\ r[Len(q) + 1] = x
  BY AppendProperties
<1>2. DOMAIN r = 1 .. Len(q) + 1 /\ DOMAIN q = 1 .. Len(q)
  BY <1>1
<1> HIDE DEF r
<1>3. ToSet(r) = ToSet(q) \cup {x}
  BY <1>1, <1>2 DEF ToSet
<1>4. QED
  BY <1>3 DEF r

LEMMA LastFront ==
  ASSUME NEW S, NEW q \in Seq(S), q # <<>>
  PROVE  Last(q) \in ToSet(q) /\ ToSet(Front(q)) \subseteq ToSet(q)
<1>1. /\ Len(q) \in Nat \ {0} /\ DOMAIN q = 1 .. Len(q)
      /\ \A i \in 1 .. Len(q) : q[i] \in S
  BY EmptySeq, ElementOfSeq
<1>2. Last(q) = q[Len(q)]
  BY DEF Last
<1>3. /\ Len(Front(q)) = Len(q) - 1
      /\ Front(q) \in Seq(S)
      /\ \A i \in 1 .. Len(q) - 1 : Front(q)[i] = q[i]
  <2>1. \A i \in 1 .. Len(q) - 1 : q[i] \in S
    BY <1>1
  <2>2. QED
    BY <1>1, <2>1, SubSeqProperties DEF Front
<1>4. DOMAIN Front(q) = 1 .. Len(q) - 1
  BY <1>1, <1>3
<1>5. QED
  BY <1>1, <1>2, <1>3, <1>4 DEF ToSet

LEMMA PrefixOfSame ==
  ASSUME NEW S, NEW p \in Seq(S), NEW q \in Seq(S), Len(p) <= Len(q),
         \A i \in 1 .. Len(p) : q[i] = p[i]
  PROVE  IsPrefix(p, q)
<1>1. /\ Len(p) \in Nat /\ Len(q) \in Nat
      /\ \A i \in 1 .. Len(p) : p[i] \in S
      /\ \A i \in 1 .. Len(q) : q[i] \in S
  BY ElementOfSeq
<1> DEFINE n == Len(p)
<1>2. /\ SubSeq(p, 1, n) \in Seq(S) /\ Len(SubSeq(p, 1, n)) = n
      /\ \A i \in 1 .. n : SubSeq(p, 1, n)[i] = p[i]
  BY <1>1, SubSeqProperties
<1>3. /\ SubSeq(q, 1, n) \in Seq(S) /\ Len(SubSeq(q, 1, n)) = n
      /\ \A i \in 1 .. n : SubSeq(q, 1, n)[i] = q[i]
  <2>1. \A i \in 1 .. n : q[i] \in S
    BY <1>1
  <2>2. QED
    BY <1>1, <2>1, SubSeqProperties
<1>4. \A i \in 1 .. n : SubSeq(p, 1, n)[i] = SubSeq(q, 1, n)[i]
  BY <1>2, <1>3
<1>5. SubSeq(p, 1, n) = SubSeq(q, 1, n)
  BY <1>2, <1>3, <1>4, SeqEqual
<1>6. QED
  BY <1>5 DEF IsPrefix

-----------------------------------------------------------------------------
(* Recursion along a sequence                                               *)

\* What recursion over a prefix of the numbers defines exists.
Recurs(f, N, base, step) == f[0] = base /\ \A k \in 1 .. N : f[k] = step[k][f[k - 1]]

LEMMA RecursionTo ==
  ASSUME NEW V, NEW N \in Nat, NEW base \in V, NEW step \in [1 .. N -> [V -> V]]
  PROVE  \E f \in [0 .. N -> V] : Recurs(f, N, base, step)
<1> DEFINE Upto(n) == \E f \in [0 .. n -> V] :
                         f[0] = base /\ \A k \in 1 .. n : f[k] = step[k][f[k - 1]]
           T == {n \in Nat : n <= N => Upto(n)}
<1>1. Upto(0)
  <2>1. [k \in 0 .. 0 |-> base] \in [0 .. 0 -> V]
    OBVIOUS
  <2>2. [k \in 0 .. 0 |-> base][0] = base /\ \A k \in 1 .. 0 : FALSE
    OBVIOUS
  <2>3. QED
    BY <2>1, <2>2
<1>2. ASSUME NEW n \in Nat, n + 1 <= N, Upto(n)
      PROVE  Upto(n + 1)
  <2>1. PICK f \in [0 .. n -> V] : f[0] = base /\ \A k \in 1 .. n : f[k] = step[k][f[k - 1]]
    BY <1>2
  <2> DEFINE g == [k \in 0 .. n + 1 |-> IF k = n + 1 THEN step[n + 1][f[n]] ELSE f[k]]
  <2>2. f[n] \in V /\ step[n + 1] \in [V -> V]
    BY <1>2, <2>1
  <2>3. g \in [0 .. n + 1 -> V]
    BY <2>1, <2>2
  <2>4. g[0] = base /\ \A k \in 1 .. n + 1 : g[k] = step[k][g[k - 1]]
    BY <2>1
  <2>5. QED
    BY <2>3, <2>4
<1>3. N \in T
  <2> HIDE DEF Upto
  <2>1. 0 \in T /\ \A n \in Nat : n \in T => n + 1 \in T
    BY <1>1, <1>2
  <2> HIDE DEF T
  <2>2. QED
    BY <2>1, AllNumbers
<1>4. QED
  BY <1>3 DEF Recurs

-----------------------------------------------------------------------------
(* Sequences joined                                                         *)

\* The pieces ss one after the other are q: piece i begins behind off[i - 1].
Joined(ss, off, q) ==
  /\ off \in [0 .. Len(ss) -> Nat] /\ off[0] = 0 /\ Len(q) = off[Len(ss)]
  /\ \A i \in 1 .. Len(ss) : off[i] = off[i - 1] + Len(ss[i])
  /\ \A i \in 1 .. Len(ss) : \A k \in 1 .. Len(ss[i]) : q[off[i - 1] + k] = ss[i][k]

\* FlattenSeq, by one piece at a time.
LEMMA FlattenByOne ==
  ASSUME NEW S, NEW ss \in Seq(Seq(S)), ss # <<>>
  PROVE  \E f \in [1 .. Len(ss) -> Seq(S)] :
           /\ f[1] = ss[1]
           /\ \A i \in 2 .. Len(ss) : f[i] = f[i - 1] \o ss[i]
           /\ FlattenSeq(ss) = f[Len(ss)]
<1> DEFINE N == Len(ss)
           Join(p, q) == p \o q
           Flat(f) == [i \in 1 .. N |-> IF i = 1 THEN ss[i] ELSE Join(f[i - 1], ss[i])]
           flat == CHOOSE f : f = Flat(f)
           step == [k \in 1 .. N |-> [q \in Seq(S) |-> Join(q, ss[k])]]
<1>1. N \in Nat /\ N # 0 /\ \A k \in 1 .. N : ss[k] \in Seq(S)
  BY EmptySeq, ElementOfSeq
<1>2. FlattenSeq(ss) = flat[N]
  BY <1>1 DEF FlattenSeq
<1>3. \A p, q \in Seq(S) : Join(p, q) \in Seq(S) /\ Join(<<>>, q) = q
  BY ConcatProperties, ConcatEmptySeq
<1>4. <<>> \in Seq(S)
  OBVIOUS
<1> HIDE DEF N, Join
<1>5. step \in [1 .. N -> [Seq(S) -> Seq(S)]]
  BY <1>1, <1>3
<1> HIDE DEF step, flat
<1>6. PICK g \in [0 .. N -> Seq(S)] : Recurs(g, N, <<>>, step)
  BY <1>1, <1>4, <1>5, RecursionTo, Zenon
<1>7. ASSUME NEW k \in 1 .. N PROVE g[k] = Join(g[k - 1], ss[k])
  <2>1. g[k] = step[k][g[k - 1]]
    BY <1>6 DEF Recurs
  <2>2. g[k - 1] \in Seq(S)
    BY <1>1, <1>6
  <2>3. QED
    BY <2>1, <2>2 DEF step
<1>8. g[1] = ss[1]
  <2>1. 1 \in 1 .. N /\ 1 - 1 = 0
    BY <1>1
  <2>2. g[1] = Join(g[1 - 1], ss[1]) /\ g[0] = <<>>
    BY <1>6, <1>7, <2>1 DEF Recurs
  <2>3. QED
    BY <1>1, <1>3, <2>1, <2>2
<1> DEFINE h == [i \in 1 .. N |-> g[i]]
<1>9. h = Flat(h)
  <2>1. ASSUME NEW i \in 1 .. N PROVE g[i] = IF i = 1 THEN ss[i] ELSE Join(h[i - 1], ss[i])
    <3>1. CASE i = 1
      BY <3>1, <1>8
    <3>2. CASE i # 1
      <4>1. i - 1 \in 1 .. N
        BY <3>2, <1>1
      <4>2. h[i - 1] = g[i - 1]
        BY <4>1
      <4>3. QED
        BY <3>2, <1>7, <4>2
    <3>3. QED
      BY <3>1, <3>2
  <2>2. QED
    BY <2>1
<1>10. flat = Flat(flat)
  <2> HIDE DEF Flat, h
  <2>1. QED
    BY <1>9 DEF flat
<1>11. /\ DOMAIN flat = 1 .. N
       /\ \A i \in 1 .. N : flat[i] = IF i = 1 THEN ss[i] ELSE Join(flat[i - 1], ss[i])
  BY <1>10
<1> HIDE DEF Flat
<1>12. flat[1] = ss[1] /\ \A i \in 2 .. N : flat[i] = Join(flat[i - 1], ss[i])
  BY <1>1, <1>11
<1>13. \A i \in 1 .. N : flat[i] \in Seq(S)
  <2> DEFINE T == {n \in Nat : n + 1 <= N => flat[n + 1] \in Seq(S)}
  <2>1. 0 \in T
    BY <1>1, <1>12
  <2>2. ASSUME NEW n \in Nat, n \in T PROVE n + 1 \in T
    <3> SUFFICES ASSUME (n + 1) + 1 <= N PROVE flat[(n + 1) + 1] \in Seq(S)
      OBVIOUS
    <3>1. flat[n + 1] \in Seq(S) /\ (n + 1) + 1 \in 2 .. N /\ ((n + 1) + 1) - 1 = n + 1
          /\ (n + 1) + 1 \in 1 .. N
      BY <1>1, <2>2
    <3>2. flat[(n + 1) + 1] = Join(flat[n + 1], ss[(n + 1) + 1])
      BY <1>12, <3>1
    <3>3. QED
      BY <1>1, <1>3, <3>1, <3>2
  <2> HIDE DEF T
  <2>3. \A n \in Nat : n \in T
    BY <2>1, <2>2, AllNumbers
  <2>4. \A i \in 1 .. N : i - 1 \in Nat /\ (i - 1) + 1 = i /\ i <= N
    BY <1>1
  <2>5. QED
    BY <2>3, <2>4 DEF T
<1>14. flat \in [1 .. N -> Seq(S)]
  <2>1. flat = [i \in 1 .. N |-> flat[i]]
    BY <1>10 DEF Flat
  <2>2. QED
    BY <1>13, <2>1
<1>15. QED
  BY <1>2, <1>12, <1>14 DEF N, Join

\* A place of a piece that ends before c is a place before c.
LEMMA PlaceBelow ==
  ASSUME NEW a \in Nat, NEW l \in Nat, NEW b, NEW c \in Nat, b = a + l, b <= c, NEW k \in 1 .. l
  PROVE  a + k \in 1 .. c
OBVIOUS

\* A prefix sum is not less than an earlier one.
LEMMA SumsGrow ==
  ASSUME NEW N \in Nat, NEW off \in [0 .. N -> Nat], \A i \in 1 .. N : off[i - 1] <= off[i],
         NEW i \in 0 .. N, NEW j \in i .. N
  PROVE  off[i] <= off[j]
<1> DEFINE T == {m \in Nat : i + m <= N => off[i] <= off[i + m]}
<1>1. 0 \in T
  OBVIOUS
<1>2. ASSUME NEW m \in Nat, m \in T PROVE m + 1 \in T
  <2> SUFFICES ASSUME i + (m + 1) <= N PROVE off[i] <= off[i + (m + 1)]
    OBVIOUS
  <2>1. off[i] <= off[i + m] /\ i + (m + 1) \in 1 .. N /\ (i + (m + 1)) - 1 = i + m
        /\ i + m \in 0 .. N /\ i + (m + 1) \in 0 .. N
    BY <1>2
  <2>2. off[i + m] <= off[i + (m + 1)]
    BY <2>1
  <2>3. off[i + m] \in Nat /\ off[i + (m + 1)] \in Nat /\ off[i] \in Nat
    BY <2>1
  <2>4. QED
    BY <2>1, <2>2, <2>3
<1>3. \A m \in Nat : m \in T
  <2> HIDE DEF T
  <2>1. QED
    BY <1>1, <1>2, AllNumbers
<1>4. j - i \in Nat /\ i + (j - i) = j /\ j <= N
  OBVIOUS
<1>5. QED
  BY <1>3, <1>4

\* FlattenSeq joins its pieces: each is in the result, where those before it end.
LEMMA FlattenJoins ==
  ASSUME NEW S, NEW ss \in Seq(Seq(S))
  PROVE  FlattenSeq(ss) \in Seq(S) /\ \E off : Joined(ss, off, FlattenSeq(ss))
<1> DEFINE N == Len(ss)
<1>1. N \in Nat /\ \A k \in 1 .. N : ss[k] \in Seq(S) /\ Len(ss[k]) \in Nat
  BY ElementOfSeq
<1>2. CASE ss = <<>>
  <2>1. FlattenSeq(ss) = <<>> /\ N = 0
    BY <1>2 DEF FlattenSeq
  <2>2. Joined(ss, [i \in 0 .. 0 |-> 0], <<>>)
    BY <2>1 DEF Joined
  <2>3. QED
    BY <2>1, <2>2
<1>3. CASE ss # <<>>
  <2>1. PICK f \in [1 .. N -> Seq(S)] :
           /\ f[1] = ss[1]
           /\ \A i \in 2 .. N : f[i] = f[i - 1] \o ss[i]
           /\ FlattenSeq(ss) = f[N]
    BY <1>3, FlattenByOne
  <2> DEFINE off == [i \in 0 .. N |-> IF i = 0 THEN 0 ELSE Len(f[i])]
  <2>2. N \in 1 .. N
    BY <1>1, <1>3, EmptySeq
  <2> HIDE DEF N
  <2>3. ASSUME NEW i \in 1 .. N PROVE f[i] \in Seq(S) /\ Len(f[i]) \in Nat
    <3> DEFINE SS == Seq(S)
    <3>1. f \in [1 .. N -> SS]
      BY <2>1
    <3> HIDE DEF SS
    <3>2. f[i] \in SS
      BY <3>1
    <3>3. QED
      BY <3>2, LenProperties DEF SS
  <2>4. off \in [0 .. N -> Nat] /\ off[0] = 0 /\ \A i \in 1 .. N : off[i] = Len(f[i])
    BY <1>1, <2>3
  <2> HIDE DEF off
  <2>5. ASSUME NEW i \in 2 .. N
        PROVE  /\ off[i] = off[i - 1] + Len(ss[i])
               /\ \A k \in 1 .. off[i - 1] : f[i][k] = f[i - 1][k]
               /\ \A k \in 1 .. Len(ss[i]) : f[i][off[i - 1] + k] = ss[i][k]
    <3> DEFINE p == f[i - 1]
               q == ss[i]
    <3>1. i - 1 \in 1 .. N /\ i \in 1 .. N
      BY <1>1
    <3>2. p \in Seq(S) /\ q \in Seq(S) /\ f[i] = p \o q /\ Len(p) \in Nat /\ Len(q) \in Nat
      BY <1>1, <2>1, <2>3, <3>1
    <3>3. off[i] = Len(p \o q) /\ off[i - 1] = Len(p)
      BY <2>4, <3>1, <3>2
    <3> HIDE DEF p, q
    <3>4. /\ Len(p \o q) = Len(p) + Len(q)
          /\ \A k \in 1 .. Len(p) + Len(q) : (p \o q)[k] = IF k <= Len(p) THEN p[k] ELSE q[k - Len(p)]
      BY <3>2, ConcatProperties
    <3>5. \A k \in 1 .. Len(p) : (p \o q)[k] = p[k]
      BY <3>2, <3>4
    <3>6. ASSUME NEW k \in 1 .. Len(q) PROVE (p \o q)[Len(p) + k] = q[k]
      <4>1. Len(p) + k \in 1 .. Len(p) + Len(q) /\ ~ (Len(p) + k <= Len(p)) /\ (Len(p) + k) - Len(p) = k
        BY <3>2
      <4>2. QED
        BY <3>4, <4>1
    <3>7. QED
      BY <3>2, <3>3, <3>4, <3>5, <3>6 DEF p, q
  <2>6. /\ off[1] = off[1 - 1] + Len(ss[1])
        /\ \A k \in 1 .. Len(ss[1]) : f[1][off[1 - 1] + k] = ss[1][k]
    <3>1. 1 \in 1 .. N /\ 1 - 1 = 0
      BY <1>1, <2>2
    <3>2. off[1] = Len(ss[1]) /\ off[0] = 0 /\ Len(ss[1]) \in Nat
      BY <1>1, <2>1, <2>4, <3>1
    <3>3. \A k \in 1 .. Len(ss[1]) : 0 + k = k
      BY <3>2
    <3>4. QED
      BY <2>1, <3>1, <3>2, <3>3
  <2>7. \A i \in 1 .. N : i = 1 \/ i \in 2 .. N
    BY <1>1
  <2>8. \A i \in 1 .. N : off[i] = off[i - 1] + Len(ss[i])
    BY <2>5, <2>6, <2>7
  <2>9. \A i \in 1 .. N : off[i - 1] <= off[i] /\ off[i - 1] \in Nat /\ off[i] \in Nat
    <3>1. \A i \in 1 .. N : i - 1 \in 0 .. N /\ i \in 0 .. N
      BY <1>1
    <3>2. \A i \in 1 .. N : off[i - 1] \in Nat /\ off[i] \in Nat
      BY <2>4, <3>1
    <3>3. \A i \in 1 .. N : Len(ss[i]) \in Nat
      BY <1>1
    <3>4. QED
      BY <2>8, <3>2, <3>3
  <2> DEFINE Through(n) == \A i \in 1 .. n : \A k \in 1 .. Len(ss[i]) :
                             f[n][off[i - 1] + k] = ss[i][k]
             T == {m \in Nat : m + 1 <= N => Through(m + 1)}
  <2>10. Through(1)
    <3>1. \A i \in 1 .. 1 : i = 1
      OBVIOUS
    <3>2. QED
      BY <2>6, <3>1
  <2>11. ASSUME NEW n \in 2 .. N, Through(n - 1) PROVE Through(n)
    <3> SUFFICES ASSUME NEW i \in 1 .. n, NEW k \in 1 .. Len(ss[i])
                 PROVE  f[n][off[i - 1] + k] = ss[i][k]
      OBVIOUS
    <3>1. CASE i = n
      BY <3>1, <2>5
    <3>2. CASE i # n
      <4>1. i \in 1 .. n - 1 /\ n - 1 \in 1 .. N /\ i \in 1 .. N /\ n - 1 \in i .. N /\ i \in 0 .. N
        BY <3>2, <1>1
      <4>2. f[n - 1][off[i - 1] + k] = ss[i][k]
        BY <2>11, <4>1
      <4>3. off[i] <= off[n - 1]
        BY <1>1, <2>4, <2>9, <4>1, SumsGrow
      <4>4. off[i] = off[i - 1] + Len(ss[i]) /\ off[i - 1] \in Nat /\ off[n - 1] \in Nat
            /\ Len(ss[i]) \in Nat
        <5>1. off[i] = off[i - 1] + Len(ss[i])
          BY <2>8, <4>1
        <5>2. off[i - 1] \in Nat /\ off[n - 1] \in Nat
          BY <2>9, <4>1
        <5>3. Len(ss[i]) \in Nat
          BY <1>1, <4>1
        <5>4. QED
          BY <5>1, <5>2, <5>3
      <4>5. off[i - 1] + k \in 1 .. off[n - 1]
        BY <4>3, <4>4, PlaceBelow, Zenon
      <4>6. f[n][off[i - 1] + k] = f[n - 1][off[i - 1] + k]
        BY <2>5, <4>5
      <4>7. QED
        BY <4>2, <4>6
    <3>3. QED
      BY <3>1, <3>2
  <2>12. Through(N)
    <3> HIDE DEF Through
    <3>1. 0 \in T
      BY <2>10
    <3>2. ASSUME NEW m \in Nat, m \in T PROVE m + 1 \in T
      <4> SUFFICES ASSUME (m + 1) + 1 <= N PROVE Through((m + 1) + 1)
        OBVIOUS
      <4>1. (m + 1) + 1 \in 2 .. N /\ ((m + 1) + 1) - 1 = m + 1 /\ Through(m + 1)
        BY <1>1, <3>2
      <4>2. QED
        BY <2>11, <4>1
    <3>3. \A m \in Nat : m \in T
      <4> HIDE DEF T
      <4>1. QED
        BY <3>1, <3>2, AllNumbers
    <3>4. N - 1 \in Nat /\ (N - 1) + 1 = N /\ N <= N
      BY <1>1, <2>2
    <3>5. QED
      BY <3>3, <3>4
  <2>13. Joined(ss, off, FlattenSeq(ss))
    BY <2>1, <2>2, <2>4, <2>8, <2>12 DEF Joined, N
  <2>14. FlattenSeq(ss) \in Seq(S)
    BY <2>1, <2>2, <2>3
  <2>15. QED
    BY <2>13, <2>14
<1>4. QED
  BY <1>2, <1>3

\* Every position of the joined pieces is in one of them.
InPiece(ss, off, m) == \E i \in 1 .. Len(ss) : \E k \in 1 .. Len(ss[i]) : m = off[i - 1] + k
LEMMA PieceOfPosition ==
  ASSUME NEW S, NEW ss \in Seq(Seq(S)), NEW off, NEW q, Joined(ss, off, q),
         NEW m \in 1 .. Len(q)
  PROVE  InPiece(ss, off, m)
<1> DEFINE N == Len(ss)
           T == {n \in Nat : n <= N /\ m <= off[n]
                   => \E i \in 1 .. N : \E k \in 1 .. Len(ss[i]) : m = off[i - 1] + k}
<1>1. N \in Nat /\ \A k \in 1 .. N : Len(ss[k]) \in Nat
  BY ElementOfSeq
<1> HIDE DEF N
<1>2. off \in [0 .. N -> Nat] /\ off[0] = 0 /\ Len(q) = off[N]
      /\ \A i \in 1 .. N : off[i] = off[i - 1] + Len(ss[i])
  BY DEF Joined, N
<1>3. m \in Nat \ {0} /\ m <= off[N]
  BY <1>1, <1>2
<1>4. 0 \in T
  BY <1>2, <1>3
<1>5. ASSUME NEW n \in Nat, n \in T PROVE n + 1 \in T
  <2> SUFFICES ASSUME n + 1 <= N, m <= off[n + 1]
               PROVE  \E i \in 1 .. N : \E k \in 1 .. Len(ss[i]) : m = off[i - 1] + k
    OBVIOUS
  <2>1. n + 1 \in 1 .. N /\ (n + 1) - 1 = n /\ n \in 0 .. N
    BY <1>1
  <2>2. off[n + 1] = off[n] + Len(ss[n + 1]) /\ off[n] \in Nat /\ Len(ss[n + 1]) \in Nat
    BY <1>1, <1>2, <2>1
  <2>3. CASE m <= off[n]
    BY <1>1, <1>5, <2>3
  <2>4. CASE ~ (m <= off[n])
    <3>1. m - off[n] \in 1 .. Len(ss[n + 1]) /\ m = off[n] + (m - off[n])
      BY <1>3, <2>2, <2>4
    <3>2. QED
      BY <2>1, <3>1
  <2>5. QED
    BY <2>3, <2>4
<1>6. N \in T
  <2> HIDE DEF T
  <2>1. QED
    BY <1>1, <1>4, <1>5, AllNumbers
<1>7. QED
  BY <1>1, <1>3, <1>6 DEF N, InPiece

\* The members of short sequences.
LEMMA SmallSets ==
  /\ ToSet(<<>>) = {}
  /\ \A x : ToSet(<<x>>) = {x}
  /\ \A x, y : ToSet(<<x, y>>) = {x, y}
<1>1. ToSet(<<>>) = {}
  BY DEF ToSet
<1>2. ASSUME NEW x PROVE ToSet(<<x>>) = {x}
  BY DEF ToSet
<1>3. ASSUME NEW x, NEW y PROVE ToSet(<<x, y>>) = {x, y}
  <2>1. DOMAIN <<x, y>> = {1, 2} /\ <<x, y>>[1] = x /\ <<x, y>>[2] = y
    OBVIOUS
  <2>2. QED
    BY <2>1 DEF ToSet
<1>4. QED
  BY <1>1, <1>2, <1>3

\* A member of a sequence is at some position.
LEMMA PositionInSet ==
  ASSUME NEW S, NEW q \in Seq(S), NEW x
  PROVE  x \in ToSet(q) <=> \E n \in 1 .. Len(q) : q[n] = x
BY LenProperties DEF ToSet

\* What is in a piece is in the pieces joined.
LEMMA FlattenKeeps ==
  ASSUME NEW S, NEW ss \in Seq(Seq(S)), NEW i \in 1 .. Len(ss), NEW x \in ToSet(ss[i])
  PROVE  x \in ToSet(FlattenSeq(ss))
<1> DEFINE q == FlattenSeq(ss)
<1>1. q \in Seq(S) /\ \E off : Joined(ss, off, q)
  BY FlattenJoins
<1>2. PICK off : Joined(ss, off, q)
  BY <1>1
<1> HIDE DEF q
<1>3. Len(ss) \in Nat /\ \A k \in 1 .. Len(ss) : ss[k] \in Seq(S) /\ Len(ss[k]) \in Nat
  BY ElementOfSeq
<1>4. PICK k \in 1 .. Len(ss[i]) : ss[i][k] = x
  BY <1>3, PositionInSet
<1>5. /\ off \in [0 .. Len(ss) -> Nat] /\ Len(q) = off[Len(ss)]
      /\ \A j \in 1 .. Len(ss) : off[j] = off[j - 1] + Len(ss[j])
      /\ q[off[i - 1] + k] = x
  BY <1>2, <1>4 DEF Joined
<1>6. \A j \in 1 .. Len(ss) : off[j - 1] <= off[j]
  <2>1. \A j \in 1 .. Len(ss) : j - 1 \in 0 .. Len(ss) /\ j \in 0 .. Len(ss)
    BY <1>3
  <2>2. \A j \in 1 .. Len(ss) : off[j - 1] \in Nat /\ off[j] \in Nat /\ Len(ss[j]) \in Nat
    BY <1>3, <1>5, <2>1
  <2>3. \A j \in 1 .. Len(ss) : off[j] = off[j - 1] + Len(ss[j])
    BY <1>5
  <2>4. ASSUME NEW j \in 1 .. Len(ss) PROVE off[j - 1] <= off[j]
    <3>1. off[j] = off[j - 1] + Len(ss[j]) /\ off[j - 1] \in Nat /\ Len(ss[j]) \in Nat
      BY <2>2, <2>3
    <3>2. QED
      BY <3>1
  <2>5. QED
    BY <2>4
<1>7. off[i] <= off[Len(ss)]
  <2>1. i \in 0 .. Len(ss) /\ Len(ss) \in i .. Len(ss)
    BY <1>3
  <2>2. QED
    BY <1>3, <1>5, <1>6, <2>1, SumsGrow
<1>8. off[i] = off[i - 1] + Len(ss[i]) /\ off[i - 1] \in Nat /\ off[Len(ss)] \in Nat /\ Len(ss[i]) \in Nat
  <2>1. i - 1 \in 0 .. Len(ss) /\ Len(ss) \in 0 .. Len(ss)
    BY <1>3
  <2>2. QED
    BY <1>3, <1>5, <2>1
<1>9. off[i - 1] + k \in 1 .. Len(q)
  BY <1>5, <1>7, <1>8
<1>10. QED
  BY <1>1, <1>5, <1>9, PositionInSet DEF q

\* A function on an initial stretch of the numbers is a sequence.
LEMMA FunctionIsSequence == ASSUME NEW S, NEW k \in Nat, NEW q \in [1 .. k -> S]
                            PROVE  q \in Seq(S) /\ Len(q) = k
OBVIOUS
=============================================================================
