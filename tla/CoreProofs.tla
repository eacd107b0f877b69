----------------------------- MODULE CoreProofs ------------------------------
(* Proofs about four parts that share no state with an assembler: the fields *)
(* patches write, for fields and pages of any width and for any addresses;   *)
(* the current assembler, for any contexts, assemblers and number of blocks; *)
(* the listing of a section, for sections of any size and rows of any width; *)
(* and the words of li and logical immediates, for any value and registers,  *)
(* parts and masks of any width.                                             *)
EXTENDS PatchKinds, Context, Listing, Immediates, DataProofs, FiniteSetTheorems

-----------------------------------------------------------------------------
(* Signed numbers                                                           *)

LEMMA HalfOf ==
  ASSUME NEW V \in Even
  PROVE  /\ V \in Nat \ {0} /\ V \div 2 \in Nat \ {0} /\ V = 2 * (V \div 2)
BY SMT DEF Even, Positive

\* A number that fits is read back from its pattern,
LEMMA SignedOfPattern ==
  ASSUME NEW V \in Even, NEW n \in Int, FitsSigned(n, V)
  PROVE  n % V \in 0 .. V - 1 /\ Signed(n % V, V) = n
<1> DEFINE h == V \div 2
<1>1. V \in Nat \ {0} /\ h \in Nat \ {0} /\ V = 2 * h
  BY HalfOf
<1>2. -h <= n /\ n < h
  BY DEF FitsSigned
<1> HIDE DEF h
<1>3. CASE n >= 0
  <2>1. n = 0 * V + n /\ n < V
    BY <1>1, <1>2
  <2>2. n % V = n
    BY <1>1, <1>3, <2>1, DivUnique
  <2> QED BY <1>1, <1>2, <1>3, <2>2 DEF Signed
<1>4. CASE n < 0
  <2> DEFINE r == n + V
  <2>1. r \in Int /\ n = (-1) * V + r /\ 0 <= r /\ r < V
    BY <1>1, <1>2, <1>4
  <2>3. -1 \in Int
    OBVIOUS
  <2> HIDE DEF r
  <2>4. n % V = r
    BY <1>1, <2>1, <2>3, DivUnique
  <2>2. n % V = n + V
    BY <2>4 DEF r
  <2> QED BY <1>1, <1>2, <1>4, <2>2 DEF Signed
<1> QED BY <1>3, <1>4

\* and every pattern is read as a number that fits.
LEMMA PatternFits ==
  ASSUME NEW V \in Even, NEW f \in 0 .. V - 1
  PROVE  Signed(f, V) \in Int /\ FitsSigned(Signed(f, V), V)
<1> DEFINE h == V \div 2
<1>1. V \in Nat \ {0} /\ h \in Nat \ {0} /\ V = 2 * h
  BY HalfOf
<1> HIDE DEF h
<1>2. Signed(f, V) \in Int /\ -h <= Signed(f, V) /\ Signed(f, V) < h
  BY <1>1 DEF Signed
<1> QED BY <1>2 DEF FitsSigned, h

\* Rounded leaves a signed part of a page,
LEMMA RoundedRest ==
  ASSUME NEW P \in Even, NEW n \in Int
  PROVE  Rounded(n, P) \in Int /\ n - Rounded(n, P) * P \in Int
         /\ FitsSigned(n - Rounded(n, P) * P, P)
<1> DEFINE h == P \div 2
           q == Rounded(n, P)
<1>1. P \in Nat \ {0} /\ h \in Nat \ {0} /\ P = 2 * h
  BY HalfOf
<1>2. q \in Int /\ q * P <= n + h /\ n + h < q * P + P
  BY <1>1, DivMod DEF Rounded
<1> HIDE DEF h, q
<1>3. q * P \in Int
  BY <1>1, <1>2
<1>4. -h <= n - q * P /\ n - q * P < h
  BY <1>1, <1>2, <1>3
<1> QED BY <1>2, <1>3, <1>4 DEF FitsSigned, h, q

\* and only one number of pages does.
LEMMA RoundedUnique ==
  ASSUME NEW P \in Even, NEW n \in Int, NEW hi \in Int, NEW lo \in Int,
         FitsSigned(lo, P), n = hi * P + lo
  PROVE  Rounded(n, P) = hi
<1> DEFINE h == P \div 2
<1>1. P \in Nat \ {0} /\ h \in Nat \ {0} /\ P = 2 * h
  BY HalfOf
<1>2. -h <= lo /\ lo < h
  BY DEF FitsSigned
<1> HIDE DEF h
<1>3. hi * P \in Int
  BY <1>1
<1>4. n + h = hi * P + (lo + h) /\ 0 <= lo + h /\ lo + h < P
  BY <1>1, <1>2, <1>3
<1>5. (n + h) \div P = hi
  BY <1>1, <1>4, DivUnique
<1> QED BY <1>5 DEF Rounded, h

-----------------------------------------------------------------------------
(* Each kind                                                                *)

\* f is what has to be written for target: a field that leads there, or
\* Refused if there is none.
Right(k, target, place, f) ==
  IF f = Refused
  THEN \A g \in FieldValues(k) : Wanted(k, target) \notin Meanings(k, g, place)
  ELSE f \in FieldValues(k) /\ Wanted(k, target) \in Meanings(k, f, place)

LEMMA NotRefused == Refused \notin Int /\ Refused \notin [hi : Int, lo : Int]
BY KindAssumption

LEMMA AbsRight ==
  ASSUME NEW k \in [form : {"abs"}, size : Nat, values : Even],
         NEW target \in Int, NEW place \in Int
  PROVE  Right(k, target, place, AbsField(k, target))
<1> DEFINE V == k.values
           h == V \div 2
           f == target % V
<1>1. V \in Even /\ k.form = "abs"
  OBVIOUS
<1>2. V \in Nat \ {0} /\ h \in Nat \ {0} /\ V = 2 * h
  BY <1>1, HalfOf
<1>3. FieldValues(k) = 0 .. V - 1 /\ Wanted(k, target) = target
  BY <1>1 DEF FieldValues, Wanted
<1>4. \A g : Meanings(k, g, place) = {g, Signed(g, V)}
  BY <1>1 DEF Meanings
<1>5. AbsField(k, target) = IF -h <= target /\ target < V THEN f ELSE Refused
  BY DEF AbsField
<1>6. f \in Int
  BY <1>2, DivMod
<1> HIDE DEF V, h
<1>7. CASE -h <= target /\ target < V
  <2>1. CASE target >= 0
    <3>1. target = 0 * V + target
      BY <1>2
    <3>2. f = target
      BY <1>2, <1>7, <2>1, <3>1, DivUnique
    <3> HIDE DEF f
    <3> QED BY <1>2, <1>3, <1>4, <1>5, <1>7, <2>1, <3>2, NotRefused DEF Right
  <2>2. CASE target < 0
    <3>1. FitsSigned(target, V)
      BY <1>2, <1>7, <2>2 DEF FitsSigned, h
    <3>2. f \in 0 .. V - 1 /\ Signed(f, V) = target
      BY <1>1, <3>1, SignedOfPattern
    <3> HIDE DEF f
    <3> QED BY <1>3, <1>4, <1>5, <1>6, <1>7, <3>2, NotRefused DEF Right
  <2> QED BY <2>1, <2>2
<1>8. CASE ~(-h <= target /\ target < V)
  <2>1. ASSUME NEW g \in 0 .. V - 1 PROVE target # g /\ target # Signed(g, V)
    <3>1. -h <= Signed(g, V) /\ Signed(g, V) < V /\ Signed(g, V) \in Int
      BY <1>1, <1>2, PatternFits DEF FitsSigned, h
    <3> QED BY <1>2, <1>8, <3>1
  <2> QED BY <1>3, <1>4, <1>5, <1>8, <2>1 DEF Right
<1> QED BY <1>7, <1>8

\* The kinds with one signed number n of pages, units or bytes.
LEMMA SignedRight ==
  ASSUME NEW k, NEW target, NEW place, NEW n \in Int, NEW V \in Even,
         NEW f, f = IF FitsSigned(n, V) THEN n % V ELSE Refused,
         FieldValues(k) = 0 .. V - 1,
         \A g \in 0 .. V - 1 :
           Wanted(k, target) \in Meanings(k, g, place) <=> Signed(g, V) = n
  PROVE  Right(k, target, place, f)
<1>1. CASE FitsSigned(n, V)
  <2>1. n % V \in 0 .. V - 1 /\ Signed(n % V, V) = n
    BY <1>1, SignedOfPattern
  <2>2. n % V # Refused
    <3>1. n % V \in Int
      BY HalfOf, DivMod
    <3> QED BY <3>1, NotRefused
  <2> QED BY <1>1, <2>1, <2>2 DEF Right
<1>2. CASE ~FitsSigned(n, V)
  <2>1. \A g \in 0 .. V - 1 : Signed(g, V) # n
    BY <1>2, PatternFits
  <2> QED BY <1>2, <2>1 DEF Right
<1> QED BY <1>1, <1>2

LEMMA RelRight ==
  ASSUME NEW k \in [form : {"rel"}, size : Nat, values : Even, after : Nat],
         NEW target \in Int, NEW place \in Int
  PROVE  Right(k, target, place, RelField(k, target + Addend(k), place))
<1> DEFINE V == k.values
           t == target + Addend(k)
           n == t - (place + k.size)
           f == RelField(k, t, place)
<1>1. k.form = "rel" /\ k.size \in Nat /\ k.after \in Nat /\ V \in Even
  OBVIOUS
<1>2. t = target - k.after
  BY <1>1 DEF Addend
<1>3. FieldValues(k) = 0 .. V - 1 /\ Wanted(k, target) = target
  BY <1>1 DEF FieldValues, Wanted
<1> HIDE DEF t
<1>4. f = IF FitsSigned(n, V) THEN n % V ELSE Refused
  BY DEF RelField
<1>5. n \in Int /\ n = target - (place + k.size + k.after)
  BY <1>1, <1>2
<1> HIDE DEF n
<1>6. ASSUME NEW g \in 0 .. V - 1
      PROVE  Wanted(k, target) \in Meanings(k, g, place) <=> Signed(g, V) = n
  <2> DEFINE s == Signed(g, V)
  <2>1. Meanings(k, g, place) = {place + k.size + k.after + s}
    BY <1>1 DEF Meanings
  <2>2. s \in Int
    BY <1>1, PatternFits
  <2> HIDE DEF s
  <2>3. target = place + k.size + k.after + s <=> s = n
    BY <1>1, <1>5, <2>2
  <2> QED BY <1>3, <2>1, <2>3 DEF s
<1>7. FieldValues(k) = 0 .. V - 1
  BY <1>3
<1> HIDE DEF V, f
<1>8. Right(k, target, place, f)
  BY <1>1, <1>4, <1>5, <1>6, <1>7, SignedRight
<1> QED BY <1>8 DEF f, t

LEMMA AdrRight ==
  ASSUME NEW k \in [form : {"adr"}, page : Positive, values : Even],
         NEW target \in Int, NEW place \in Int
  PROVE  Right(k, target, place, AdrField(k, target, place))
<1> DEFINE V == k.values
           P == k.page
           t == target \div P
           p == place \div P
           n == t - p
<1>1. k.form = "adr" /\ P \in Nat \ {0} /\ V \in Even
  BY DEF Positive
<1>2. t \in Int /\ p \in Int
  BY <1>1, DivMod
<1>3. FieldValues(k) = 0 .. V - 1 /\ Wanted(k, target) = t * P
  BY <1>1 DEF FieldValues, Wanted
<1>4. ASSUME NEW g \in 0 .. V - 1
      PROVE  Wanted(k, target) \in Meanings(k, g, place) <=> Signed(g, V) = n
  <2>1. Meanings(k, g, place) = {(p + Signed(g, V)) * P}
    BY <1>1 DEF Meanings
  <2>2. Signed(g, V) \in Int
    BY <1>1, PatternFits
  <2> DEFINE q == p + Signed(g, V)
  <2>3. q \in Int
    BY <1>2, <2>2
  <2> HIDE DEF q, t, p, P, V
  <2>4. t * P = q * P <=> t = q
    BY <1>1, <1>2, <2>3, SameMultiple
  <2> QED BY <1>2, <1>3, <2>1, <2>2, <2>4 DEF q
<1> DEFINE f == AdrField(k, target, place)
<1>5. f = IF FitsSigned(n, V) THEN n % V ELSE Refused
  BY DEF AdrField
<1>6. n \in Int
  BY <1>2
<1>7. FieldValues(k) = 0 .. V - 1
  BY <1>3
<1> HIDE DEF n, V, f
<1>8. Right(k, target, place, f)
  BY <1>1, <1>4, <1>5, <1>6, <1>7, SignedRight
<1> QED BY <1>8 DEF f

LEMMA BranchRight ==
  ASSUME NEW k \in [form : {"branch"}, unit : Positive, values : Even],
         NEW target \in Int, NEW place \in Int
  PROVE  Right(k, target, place, BranchField(k, target, place))
<1> DEFINE V == k.values
           h == V \div 2
           U == k.unit
           d == target - place
           n == d \div U
<1>1. k.form = "branch" /\ U \in Nat \ {0} /\ V \in Even /\ d \in Int
  BY DEF Positive
<1>2. V \in Nat \ {0} /\ h \in Nat \ {0} /\ V = 2 * h
  BY <1>1, HalfOf
<1>3. n \in Int /\ d % U \in Int /\ d = n * U + (d % U) /\ 0 <= d % U /\ d % U < U
  BY <1>1, DivMod
<1>4. FieldValues(k) = 0 .. V - 1 /\ Wanted(k, target) = target
  BY <1>1 DEF FieldValues, Wanted
<1>5. ASSUME NEW g \in 0 .. V - 1
      PROVE  target \in Meanings(k, g, place) <=> d = Signed(g, V) * U
  <2>1. Meanings(k, g, place) = {place + Signed(g, V) * U}
    BY <1>1 DEF Meanings
  <2>2. Signed(g, V) \in Int
    BY <1>1, PatternFits
  <2> DEFINE x == Signed(g, V) * U
  <2>3. x \in Int
    BY <1>1, <2>2
  <2> HIDE DEF x
  <2> QED BY <2>1, <2>3 DEF x
<1>6. BranchReaches(k, d) <=> -(h * U) <= d /\ d < h * U
  <2>1. V * U = 2 * (h * U) /\ h * U \in Int
    BY <1>1, <1>2
  <2> DEFINE y == h * U
  <2>2. (2 * y) \div 2 = y
    BY <2>1
  <2> QED BY <2>1, <2>2 DEF BranchReaches, FitsSigned
<1>7. BranchField(k, target, place) =
        IF d % U = 0 /\ BranchReaches(k, d) THEN n % V ELSE Refused
  BY DEF BranchField
<1> HIDE DEF V, h, U, d, n
<1>8. CASE d % U = 0
  <2>1. d = n * U
    BY <1>1, <1>3, <1>8
  <2>2. BranchReaches(k, d) <=> FitsSigned(n, V)
    <3>1. h * U \in Int /\ (-h) * U = -(h * U)
      BY <1>1, <1>2
    <3>2. -(h * U) <= d <=> -h <= n
      BY <1>1, <1>2, <1>3, <2>1, <3>1, MultiplesOrdered
    <3>3. d < h * U <=> n < h
      BY <1>1, <1>2, <1>3, <2>1, <3>1, MultiplesOrdered
    <3> QED BY <1>6, <3>2, <3>3 DEF FitsSigned, h
  <2>3. ASSUME NEW g \in 0 .. V - 1
        PROVE  Wanted(k, target) \in Meanings(k, g, place) <=> Signed(g, V) = n
    <3>1. Signed(g, V) \in Int
      BY <1>1, PatternFits
    <3>2. n * U = Signed(g, V) * U <=> n = Signed(g, V)
      BY <1>1, <1>3, <3>1, SameMultiple
    <3> QED BY <1>4, <1>5, <2>1, <3>2
  <2> DEFINE f == BranchField(k, target, place)
  <2>4. f = IF FitsSigned(n, V) THEN n % V ELSE Refused
    BY <1>7, <1>8, <2>2
  <2>5. FieldValues(k) = 0 .. V - 1
    BY <1>4
  <2> HIDE DEF f
  <2>6. Right(k, target, place, f)
    BY <1>1, <1>3, <2>3, <2>4, <2>5, SignedRight
  <2> QED BY <2>6 DEF f
<1>9. CASE d % U # 0
  <2>1. ASSUME NEW g \in 0 .. V - 1, d = Signed(g, V) * U
        PROVE  FALSE
    <3>1. Signed(g, V) \in Int
      BY <1>1, PatternFits
    <3> DEFINE x == Signed(g, V)
    <3> HIDE DEF x
    <3>2. x \in Int /\ d = x * U
      BY <2>1, <3>1 DEF x
    <3>3. d = x * U + 0
      BY <1>1, <3>2
    <3>4. d % U = 0
      BY <1>1, <3>2, <3>3, DivUnique
    <3> QED BY <1>9, <3>4
  <2> QED BY <1>4, <1>5, <1>7, <1>9, <2>1 DEF Right
<1> QED BY <1>8, <1>9

\* The kinds with a number hi of pages and a signed low part of lo units.
LEMMA SplitRight ==
  ASSUME NEW k, NEW target, NEW place, NEW hi \in Int, NEW lo \in Int,
         NEW V \in Even, NEW L \in Even, FitsSigned(lo, L),
         NEW f, f = IF FitsSigned(hi, V) THEN [hi |-> hi % V, lo |-> lo % L] ELSE Refused,
         FieldValues(k) = [hi : 0 .. V - 1, lo : 0 .. L - 1],
         \A g \in FieldValues(k) :
           Wanted(k, target) \in Meanings(k, g, place) <=>
             Signed(g.hi, V) = hi /\ Signed(g.lo, L) = lo
  PROVE  Right(k, target, place, f)
<1>1. CASE FitsSigned(hi, V)
  <2>1. hi % V \in 0 .. V - 1 /\ Signed(hi % V, V) = hi
    BY <1>1, SignedOfPattern
  <2>2. lo % L \in 0 .. L - 1 /\ Signed(lo % L, L) = lo
    BY SignedOfPattern
  <2>3. f = [hi |-> hi % V, lo |-> lo % L]
    BY <1>1
  <2>4. f \in FieldValues(k) /\ f.hi = hi % V /\ f.lo = lo % L
    BY <2>1, <2>2, <2>3
  <2>5. f # Refused
    <3>1. 0 .. V - 1 \subseteq Int /\ 0 .. L - 1 \subseteq Int
      BY HalfOf
    <3>2. f \in [hi : Int, lo : Int]
      BY <2>4, <3>1
    <3> QED BY <3>2, NotRefused
  <2>6. Wanted(k, target) \in Meanings(k, f, place)
    BY <2>1, <2>2, <2>4
  <2> QED BY <2>4, <2>5, <2>6 DEF Right
<1>2. CASE ~FitsSigned(hi, V)
  <2>1. ASSUME NEW g \in FieldValues(k)
        PROVE  Signed(g.hi, V) # hi
    <3>1. g.hi \in 0 .. V - 1
      OBVIOUS
    <3> QED BY <1>2, <3>1, PatternFits
  <2> QED BY <1>2, <2>1 DEF Right
<1> QED BY <1>1, <1>2

LEMMA PcrelRight ==
  ASSUME NEW k \in [form : {"pcrel"}, page : Even, values : Even],
         NEW target \in Int, NEW place \in Int
  PROVE  Right(k, target, place, PcrelField(k, target, place))
<1> DEFINE V == k.values
           P == k.page
           d == target - place
           hi == Rounded(d, P)
           lo == d - hi * P
           f == PcrelField(k, target, place)
<1>1. k.form = "pcrel" /\ V \in Even /\ P \in Even /\ d \in Int
  OBVIOUS
<1>2. hi \in Int /\ lo \in Int /\ FitsSigned(lo, P)
  BY <1>1, RoundedRest
<1>3. f = IF FitsSigned(hi, V) THEN [hi |-> hi % V, lo |-> lo % P] ELSE Refused
  BY DEF PcrelField, SplitPcrel
<1>4. FieldValues(k) = [hi : 0 .. V - 1, lo : 0 .. P - 1] /\ Wanted(k, target) = target
  BY <1>1 DEF FieldValues, Wanted
<1>5. ASSUME NEW g \in FieldValues(k)
      PROVE  Wanted(k, target) \in Meanings(k, g, place) <=>
               Signed(g.hi, V) = hi /\ Signed(g.lo, P) = lo
  <2> DEFINE x == Signed(g.hi, V)
             y == Signed(g.lo, P)
  <2>1. g.hi \in 0 .. V - 1 /\ g.lo \in 0 .. P - 1
    BY <1>4
  <2>2. x \in Int /\ y \in Int /\ FitsSigned(y, P)
    BY <1>1, <2>1, PatternFits
  <2>3. Meanings(k, g, place) = {place + x * P + y}
    BY <1>1 DEF Meanings
  <2>4. P \in Nat
    BY <1>1, HalfOf
  <2> HIDE DEF x, y, P, V, hi, lo, d
  <2>5. x * P \in Int /\ hi * P \in Int
    BY <1>2, <2>2, <2>4
  <2>6. x = hi /\ y = lo => d = x * P + y
    BY <1>1, <1>2, <2>5 DEF lo
  <2>7. d = x * P + y => x = hi
    BY <1>1, <2>2, RoundedUnique DEF hi
  <2>8. d = x * P + y => y = lo
    BY <1>1, <1>2, <2>2, <2>5, <2>7 DEF lo
  <2>9. target = place + x * P + y <=> d = x * P + y
    BY <2>2, <2>5 DEF d
  <2> QED BY <1>4, <2>3, <2>6, <2>7, <2>8, <2>9 DEF x, y
<1> HIDE DEF V, P, hi, lo, f
<1>6. FieldValues(k) = [hi : 0 .. V - 1, lo : 0 .. P - 1]
  BY <1>4
<1>7. Right(k, target, place, f)
  BY <1>1, <1>2, <1>3, <1>5, <1>6, SplitRight
<1> QED BY <1>7 DEF f

\* Pages split an address at every multiple: the low part is read signed.
LEMMA SignedRest ==
  ASSUME NEW P \in Even, NEW n \in Int
  PROVE  n - Rounded(n, P) * P = Signed(n % P, P)
<1> DEFINE h == P \div 2
           q == n \div P
           r == n % P
<1>1. P \in Nat \ {0} /\ h \in Nat \ {0} /\ P = 2 * h
  BY HalfOf
<1>2. q \in Int /\ r \in Int /\ 0 <= r /\ r < P /\ n = q * P + r
  BY <1>1, DivMod
<1>7. r \in 0 .. P - 1
  BY <1>1, <1>2
<1>3. Signed(r, P) \in Int /\ FitsSigned(Signed(r, P), P)
  BY <1>7, PatternFits
<1> HIDE DEF q, r, h
<1>4. q * P \in Int /\ (q + 1) * P = q * P + P
  BY <1>1, <1>2
<1>5. CASE 2 * r >= P
  <2>1. Signed(r, P) = r - P
    BY <1>5 DEF Signed
  <2>2. n = (q + 1) * P + (r - P)
    BY <1>1, <1>2, <1>4
  <2>3. Rounded(n, P) = q + 1
    BY <1>1, <1>2, <1>3, <2>1, <2>2, RoundedUnique
  <2>4. n - Rounded(n, P) * P = Signed(r, P)
    BY <1>1, <1>2, <1>4, <2>1, <2>3
  <2> QED BY <2>4 DEF r
<1>6. CASE ~(2 * r >= P)
  <2>1. Signed(r, P) = r
    BY <1>6 DEF Signed
  <2>2. Rounded(n, P) = q
    BY <1>1, <1>2, <1>3, <2>1, RoundedUnique
  <2>3. n - Rounded(n, P) * P = Signed(r, P)
    BY <1>1, <1>2, <1>4, <2>1, <2>2
  <2> QED BY <2>3 DEF r
<1> QED BY <1>5, <1>6

LEMMA PcalaRight ==
  ASSUME NEW k \in [form : {"pcala"}, page : Even, values : Even],
         NEW target \in Int, NEW place \in Int
  PROVE  Right(k, target, place, PcalaField(k, target, place))
<1> DEFINE V == k.values
           P == k.page
           base == place \div P
           up == Rounded(target, P)
           hi == up - base
           lo == Signed(target % P, P)
           f == PcalaField(k, target, place)
<1>1. k.form = "pcala" /\ V \in Even /\ P \in Even /\ P \in Nat \ {0}
  BY HalfOf
<1>2. base \in Int
  BY <1>1, DivMod
<1>3. up \in Int /\ lo \in Int /\ FitsSigned(lo, P) /\ lo = target - up * P
  BY <1>1, RoundedRest, SignedRest
<1>4. f = IF FitsSigned(hi, V) THEN [hi |-> hi % V, lo |-> lo % P] ELSE Refused
  BY DEF PcalaField, SplitPcala
<1>5. FieldValues(k) = [hi : 0 .. V - 1, lo : 0 .. P - 1] /\ Wanted(k, target) = target
  BY <1>1 DEF FieldValues, Wanted
<1> HIDE DEF lo
<1>6. ASSUME NEW g \in FieldValues(k)
      PROVE  Wanted(k, target) \in Meanings(k, g, place) <=>
               Signed(g.hi, V) = hi /\ Signed(g.lo, P) = lo
  <2> DEFINE x == Signed(g.hi, V)
             y == Signed(g.lo, P)
             z == base + x
  <2>1. g.hi \in 0 .. V - 1 /\ g.lo \in 0 .. P - 1
    BY <1>5
  <2>2. x \in Int /\ y \in Int /\ FitsSigned(y, P)
    BY <1>1, <2>1, PatternFits
  <2>3. Meanings(k, g, place) = {z * P + y}
    BY <1>1 DEF Meanings
  <2>4. z \in Int
    BY <1>2, <2>2
  <2> HIDE DEF x, y, z, P, V, up, base
  <2>5. z * P \in Int /\ up * P \in Int
    BY <1>1, <1>3, <2>4
  <2>6. z = up /\ y = lo => target = z * P + y
    BY <1>1, <1>3, <2>5
  <2>7. target = z * P + y => z = up
    BY <1>1, <2>2, <2>4, RoundedUnique DEF up
  <2>8. target = z * P + y => y = lo
    BY <1>1, <1>3, <2>2, <2>5, <2>7
  <2>9. z = up <=> x = hi
    BY <1>2, <1>3, <2>2 DEF z
  <2> QED BY <1>5, <2>3, <2>6, <2>7, <2>8, <2>9 DEF x, y
<1>7. hi \in Int
  BY <1>2, <1>3
<1> HIDE DEF V, P, hi, f
<1>8. FieldValues(k) = [hi : 0 .. V - 1, lo : 0 .. P - 1]
  BY <1>5
<1>9. Right(k, target, place, f)
  BY <1>1, <1>3, <1>4, <1>6, <1>7, <1>8, SplitRight
<1> QED BY <1>9 DEF f

\* A page of whole double units has an even number of units.
LEMMA UnitsOfPage ==
  ASSUME NEW P \in Even, NEW U \in Positive, P % (2 * U) = 0
  PROVE  /\ P \div U \in Even /\ P = (P \div U) * U
         /\ P \div 2 = ((P \div U) \div 2) * U
<1> DEFINE c == P \div (2 * U)
           D == 2 * U
           M == 2 * c
           h == c * U
<1>1. P \in Nat \ {0} /\ U \in Nat \ {0} /\ D \in Nat \ {0}
  BY HalfOf DEF Positive
<1>2. P % D = 0 /\ c = P \div D
  OBVIOUS
<1> HIDE DEF D
<1>3. c \in Int /\ P = c * D
  BY <1>1, <1>2, WholePages
<1> HIDE DEF c
<1>4. h \in Int /\ M \in Int /\ c * D = 2 * h /\ M * U = 2 * h
  BY <1>1, <1>3 DEF D
<1>5. P \div U = M
  <2> HIDE DEF M, h
  <2>1. P = M * U + 0
    BY <1>1, <1>3, <1>4
  <2>2. 0 \in Int /\ 0 <= 0 /\ 0 < U
    BY <1>1
  <2> QED BY <1>1, <1>4, <2>1, <2>2, DivUnique
<1>6. M > 0
  <2>1. 0 * U < M * U
    <3> HIDE DEF M, h
    <3> QED BY <1>1, <1>3, <1>4
  <2> HIDE DEF M
  <2> QED BY <1>1, <1>4, <2>1, MultiplesOrdered
<1>7. M % 2 = 0 /\ M \div 2 = c
  BY <1>3
<1>8. P \div 2 = h
  <2> HIDE DEF M, h
  <2> QED BY <1>1, <1>3, <1>4
<1>9. M \in Even
  <2> HIDE DEF M
  <2> QED BY <1>4, <1>6, <1>7 DEF Even, Positive
<1>10. P = M * U
  <2> HIDE DEF M, h
  <2> QED BY <1>3, <1>4
<1> QED BY <1>5, <1>7, <1>8, <1>9, <1>10

LEMMA Call36Right ==
  ASSUME NEW k \in [form : {"call36"}, page : Even, values : Even, unit : Positive],
         k.page % (2 * k.unit) = 0,
         NEW target \in Int, NEW place \in Int
  PROVE  Right(k, target, place, Call36Field(k, target, place))
<1> DEFINE V == k.values
           P == k.page
           U == k.unit
           M == P \div U
           m == M \div 2
           d == target - place
           n == d \div U
           hi == Rounded(d, P)
           lo == (d - hi * P) \div U
           f == Call36Field(k, target, place)
<1>1. /\ k.form = "call36" /\ V \in Even /\ d \in Int
      /\ P \in Even /\ P \in Nat \ {0} /\ U \in Nat \ {0}
  BY HalfOf DEF Positive
<1>2. M \in Even /\ P = M * U /\ P \div 2 = m * U
  BY <1>1, UnitsOfPage
<1>3. M \in Nat \ {0} /\ m \in Nat \ {0} /\ M = 2 * m
  BY <1>2, HalfOf
<1>4. hi \in Int /\ d - hi * P \in Int /\ FitsSigned(d - hi * P, P)
  BY <1>1, RoundedRest
<1>5. f = IF d % U = 0 /\ FitsSigned(hi, V)
          THEN [hi |-> hi % V, lo |-> lo % M] ELSE Refused
  BY DEF Call36Field, SplitCall36
<1>6. FieldValues(k) = [hi : 0 .. V - 1, lo : 0 .. M - 1] /\ Wanted(k, target) = target
  BY <1>1 DEF FieldValues, Wanted
<1>7. n \in Int /\ d % U \in Int /\ d = n * U + (d % U) /\ 0 <= d % U /\ d % U < U
  BY <1>1, DivMod
\* The signed number of units that a page and a part of it are, is unique.
<1>8. ASSUME NEW g \in FieldValues(k)
      PROVE  /\ Signed(g.hi, V) \in Int /\ Signed(g.lo, M) \in Int
             /\ Signed(g.hi, V) * P \in Int /\ Signed(g.lo, M) * U \in Int
             /\ FitsSigned(Signed(g.lo, M) * U, P)
             /\ target \in Meanings(k, g, place) <=>
                  d = Signed(g.hi, V) * P + Signed(g.lo, M) * U
  <2> DEFINE x == Signed(g.hi, V)
             y == Signed(g.lo, M)
             w == x * P
             z == y * U
  <2>1. g.hi \in 0 .. V - 1 /\ g.lo \in 0 .. M - 1
    BY <1>6
  <2>2. x \in Int /\ y \in Int /\ FitsSigned(y, M)
    BY <1>1, <1>2, <2>1, PatternFits
  <2>3. Meanings(k, g, place) = {place + w + z}
    BY <1>1 DEF Meanings
  <2>4. -m <= y /\ y < m
    BY <2>2 DEF FitsSigned
  <2> HIDE DEF x, y
  <2>5. w \in Int /\ z \in Int
    BY <1>1, <2>2
  <2>6. FitsSigned(z, P)
    <3> HIDE DEF m, P, U, M
    <3>1. m * U \in Int /\ (-m) * U = -(m * U) /\ -m \in Int
      BY <1>1, <1>3
    <3>2. (-m) * U <= y * U /\ y * U < m * U
      BY <1>1, <1>3, <2>2, <2>4, <3>1, MultiplesOrdered
    <3> QED BY <1>2, <3>1, <3>2 DEF FitsSigned
  <2> HIDE DEF w, z
  <2>7. target = place + w + z <=> d = w + z
    BY <2>5
  <2> QED BY <2>2, <2>3, <2>5, <2>6, <2>7 DEF x, y, w, z
<1> HIDE DEF V, P, U, M, m, d, n, hi, f
<1>9. CASE d % U = 0
  <2> DEFINE s == n - hi * M
             rest == d - hi * P
  <2>1. s \in Int /\ hi * M \in Int /\ hi * P \in Int /\ n * U \in Int
    BY <1>1, <1>3, <1>4, <1>7
  <2>2. rest = s * U
    <3>1. (n - hi * M) * U = n * U - (hi * M) * U
      BY <1>1, <1>7, <2>1, ProductOfDifference
    <3>2. (hi * M) * U = hi * P
      BY <1>1, <1>2, <1>3, <1>4
    <3> QED BY <1>7, <1>9, <2>1, <3>1, <3>2
  <2>3. lo = s
    <3> HIDE DEF s, rest
    <3>1. rest = s * U + 0 /\ rest \in Int
      BY <1>1, <2>1, <2>2
    <3>2. 0 \in Int /\ 0 <= 0 /\ 0 < U
      BY <1>1
    <3>3. rest \div U = s
      BY <1>1, <2>1, <3>1, <3>2, DivUnique
    <3> QED BY <3>3 DEF rest
  <2> HIDE DEF s, rest, lo
  <2>4. FitsSigned(lo, M)
    <3>1. m * U \in Int /\ (-m) * U = -(m * U) /\ -m \in Int
      BY <1>1, <1>3
    <3>2. -(m * U) <= s * U /\ s * U < m * U
      BY <1>2, <1>4, <2>2 DEF FitsSigned, rest
    <3>3. -m <= s /\ s < m
      BY <1>1, <1>3, <2>1, <3>1, <3>2, MultiplesOrdered
    <3> QED BY <2>3, <3>3 DEF FitsSigned, m
  <2>5. ASSUME NEW g \in FieldValues(k)
        PROVE  Wanted(k, target) \in Meanings(k, g, place) <=>
                 Signed(g.hi, V) = hi /\ Signed(g.lo, M) = lo
    <3> DEFINE x == Signed(g.hi, V)
               y == Signed(g.lo, M)
               z == y * U
    <3>1. /\ x \in Int /\ y \in Int /\ x * P \in Int /\ z \in Int
          /\ FitsSigned(z, P)
          /\ Wanted(k, target) \in Meanings(k, g, place) <=> d = x * P + z
      BY <1>6, <1>8
    <3>2. d = hi * P + s * U /\ s * U \in Int
      BY <1>1, <2>1, <2>2 DEF rest
    <3> HIDE DEF x, y, z
    <3>3. d = x * P + z => x = hi
      BY <1>1, <3>1, RoundedUnique DEF hi
    <3>4. d = x * P + z => y = lo
      <4>1. y * U = s * U <=> y = s
        BY <1>1, <2>1, <3>1, SameMultiple
      <4> SUFFICES ASSUME d = x * P + z PROVE y = lo
        OBVIOUS
      <4>2. x * P = hi * P
        BY <3>3
      <4>3. z = s * U
        BY <3>1, <3>2, <4>2
      <4> QED BY <2>3, <4>1, <4>3 DEF z
    <3>5. x = hi /\ y = lo => d = x * P + z
      BY <2>3, <3>2 DEF z
    <3> QED BY <3>1, <3>3, <3>4, <3>5 DEF x, y
  <2>6. f = IF FitsSigned(hi, V) THEN [hi |-> hi % V, lo |-> lo % M] ELSE Refused
    BY <1>5, <1>9
  <2>7. FieldValues(k) = [hi : 0 .. V - 1, lo : 0 .. M - 1]
    BY <1>6
  <2>8. lo \in Int
    BY <2>1, <2>3
  <2>9. Right(k, target, place, f)
    BY <1>1, <1>2, <1>4, <2>4, <2>5, <2>6, <2>7, <2>8, SplitRight
  <2> QED BY <2>9 DEF f
<1>10. CASE d % U # 0
  <2>1. ASSUME NEW g \in FieldValues(k), Wanted(k, target) \in Meanings(k, g, place)
        PROVE  FALSE
    <3> DEFINE x == Signed(g.hi, V)
               y == Signed(g.lo, M)
               u == x * M + y
    <3>1. x \in Int /\ y \in Int /\ d = x * P + y * U
      BY <1>6, <1>8, <2>1
    <3> HIDE DEF x, y
    <3>2. x * M \in Int /\ x * P = (x * M) * U /\ (x * M + y) * U = (x * M) * U + y * U
      BY <1>1, <1>2, <1>3, <3>1
    <3>3. u \in Int /\ u * U \in Int /\ d = u * U
      BY <1>1, <3>1, <3>2
    <3> HIDE DEF u
    <3>4. d = u * U + 0
      BY <3>3
    <3>5. 0 \in Int /\ 0 <= 0 /\ 0 < U
      BY <1>1
    <3>6. d % U = 0
      BY <1>1, <3>3, <3>4, <3>5, DivUnique
    <3> QED BY <1>10, <3>6
  <2> QED BY <1>5, <1>10, <2>1 DEF Right, f
<1> QED BY <1>9, <1>10

-----------------------------------------------------------------------------
(* Every patch                                                              *)

LEMMA WrittenRight ==
  ASSUME NEW k \in Kinds, NEW target \in Int, NEW place \in Int
  PROVE  Right(k, target, place, Written(k, target, place))
<1> USE KindAssumption
<1>1. CASE k \in [form : {"abs"}, size : Nat, values : Even]
  BY <1>1, AbsRight DEF Written
<1>2. CASE k \in [form : {"rel"}, size : Nat, values : Even, after : Nat]
  BY <1>2, RelRight DEF Written
<1>3. CASE k \in [form : {"branch"}, unit : Positive, values : Even]
  BY <1>3, BranchRight DEF Written
<1>4. CASE k \in [form : {"adr"}, page : Positive, values : Even]
  BY <1>4, AdrRight DEF Written
<1>5. CASE k \in [form : {"pcrel"}, page : Even, values : Even]
  BY <1>5, PcrelRight DEF Written
<1>6. CASE k \in [form : {"pcala"}, page : Even, values : Even]
  BY <1>6, PcalaRight DEF Written
<1>7. CASE k \in [form : {"call36"}, page : Even, values : Even, unit : Positive]
  BY <1>7, Call36Right DEF Written
<1> QED BY <1>1, <1>2, <1>3, <1>4, <1>5, <1>6, <1>7

PatchInv ==
  /\ patch \in [kind : Kinds, target : Addresses, place : Places]
  /\ field = NotYet \/ Right(patch.kind, patch.target, patch.place, field)

\* Whatever the widths and wherever target and place are: a field that link
\* writes leads the processor to the target, and link refuses a target only
\* if no field would (apply of every patch kind).
THEOREM PatchesReach == PatchSpec => []AppliedRightly
<1>1. PatchInit => PatchInv
  BY DEF PatchInit, PatchInv
<1>2. PatchInv /\ [Apply]_patchVars => PatchInv'
  <2> SUFFICES ASSUME PatchInv, [Apply]_patchVars PROVE PatchInv'
    OBVIOUS
  <2>1. CASE Apply
    <3>1. patch.kind \in Kinds /\ patch.target \in Int /\ patch.place \in Int
      BY KindAssumption DEF PatchInv
    <3>2. Right(patch.kind, patch.target, patch.place, field')
      BY <2>1, <3>1, WrittenRight DEF Apply
    <3> QED BY <2>1, <3>2 DEF Apply, PatchInv
  <2>2. CASE UNCHANGED patchVars
    BY <2>2 DEF patchVars, PatchInv
  <2> QED BY <2>1, <2>2
<1>3. PatchInv => AppliedRightly
  <2> SUFFICES ASSUME PatchInv PROVE AppliedRightly
    OBVIOUS
  <2>1. NotYet # Refused
    BY KindAssumption
  <2> QED BY <2>1 DEF PatchInv, Right, AppliedRightly, FieldReaches, RefusedOnlyUnreachable
<1> QED BY <1>1, <1>2, <1>3, PTL DEF PatchSpec

-----------------------------------------------------------------------------
(* The inductive invariant                                                  *)

OpenBlock == [id : 1 .. MaxEnters, asm : Asms]
MaybeAsm == Asms \cup {NoAsm}

ShapeOK ==
  /\ current \in [Contexts -> MaybeAsm]
  /\ tokens \in [Contexts -> Seq(Token)]
  /\ used \subseteq 1 .. entered
  /\ entered \in 0 .. MaxEnters
  /\ exists \subseteq Contexts /\ Threads \subseteq exists
  /\ open \in [Contexts -> Seq(OpenBlock)]
  /\ inherited \in [Contexts -> [current : MaybeAsm, tokens : Seq(Token)]]
  /\ leaving \in [Contexts -> {"nested", "interleaved", "crossed"}]

\* The tokens of a stack: made by contexts that exist, none twice, and those
\* of the context itself still to be reset.
StackSound(c) ==
  \A i \in 1 .. Len(tokens[c]) :
    /\ tokens[c][i].id <= entered /\ tokens[c][i].ctx \in exists
    /\ tokens[c][i].ctx = c => tokens[c][i].id \notin used
    /\ \A j \in 1 .. Len(tokens[c]) : tokens[c][i].id = tokens[c][j].id => i = j

Inherits(c) == Len(inherited[c].tokens)

\* Above the inherited tokens lie those of the open blocks, one each; the
\* lowest of them has the inherited assembler.
StackCounts(c) ==
  leaving[c] # "crossed" =>
    /\ Len(tokens[c]) = Inherits(c) + Len(open[c])
    /\ \A i \in 1 .. Inherits(c) : tokens[c][i] = inherited[c].tokens[i]
    /\ \A i \in 1 .. Len(open[c]) : tokens[c][Inherits(c) + i].ctx = c
    /\ IF Len(open[c]) = 0 THEN current[c] = inherited[c].current
       ELSE tokens[c][Inherits(c) + 1].old = inherited[c].current

\* While blocks nest, each token has the assembler of the block around it.
StackNests(c) ==
  leaving[c] = "nested" =>
    /\ Len(open[c]) # 0 => current[c] = open[c][Len(open[c])].asm
    /\ \A i \in 2 .. Len(open[c]) : tokens[c][Inherits(c) + i].old = open[c][i - 1].asm

Unborn(c) == c \notin exists => open[c] = <<>>

\* Contexts may share tokens, but no two tokens share a number.
NumbersTell(c, d) ==
  \A i \in 1 .. Len(tokens[c]), j \in 1 .. Len(tokens[d]) :
    tokens[c][i].id = tokens[d][j].id => tokens[c][i].ctx = tokens[d][j].ctx

ContextInv ==
  /\ ShapeOK
  /\ \A c \in Contexts : StackSound(c) /\ StackCounts(c) /\ StackNests(c) /\ Unborn(c)
  /\ \A c, d \in Contexts : NumbersTell(c, d)

LEMMA ContextInvInit == ContextInit => ContextInv
<1> SUFFICES ASSUME ContextInit PROVE ContextInv
  OBVIOUS
<1>1. <<>> \in Seq(Token) /\ <<>> \in Seq(OpenBlock) /\ Len(<<>>) = 0
  BY EmptySeq
<1>2. ShapeOK
  BY <1>1, ContextAssumption DEF ContextInit, ShapeOK, Empty, MaybeAsm
<1>3. ASSUME NEW c \in Contexts
      PROVE  StackSound(c) /\ StackCounts(c) /\ StackNests(c) /\ Unborn(c)
  BY <1>1, <1>3 DEF ContextInit, StackSound, StackCounts, StackNests, Unborn, Inherits, Empty
<1>4. \A c, d \in Contexts : NumbersTell(c, d)
  BY <1>1 DEF ContextInit, NumbersTell
<1>5. QED
  BY <1>2, <1>3, <1>4 DEF ContextInv

-----------------------------------------------------------------------------
(* Steps                                                                    *)

LEMMA ContextTypes ==
  ASSUME ContextInv, NEW c \in Contexts
  PROVE  /\ entered \in Nat /\ MaxEnters \in Nat
         /\ current[c] \in MaybeAsm
         /\ tokens[c] \in Seq(Token) /\ Len(tokens[c]) \in Nat
         /\ open[c] \in Seq(OpenBlock) /\ Len(open[c]) \in Nat
         /\ Inherits(c) \in Nat
         /\ \A i \in 1 .. Len(tokens[c]) :
              /\ tokens[c][i] \in Token /\ tokens[c][i].id \in 1 .. MaxEnters
              /\ tokens[c][i].old \in MaybeAsm
         /\ \A i \in 1 .. Len(open[c]) : open[c][i] \in OpenBlock
<1>1. /\ tokens[c] \in Seq(Token) /\ open[c] \in Seq(OpenBlock)
      /\ inherited[c].tokens \in Seq(Token)
      /\ current[c] \in MaybeAsm
      /\ entered \in Nat /\ MaxEnters \in Nat
  BY ContextAssumption DEF ContextInv, ShapeOK
<1>2. /\ Len(tokens[c]) \in Nat /\ Len(open[c]) \in Nat /\ Inherits(c) \in Nat
      /\ \A i \in 1 .. Len(tokens[c]) : tokens[c][i] \in Token
      /\ \A i \in 1 .. Len(open[c]) : open[c][i] \in OpenBlock
  BY <1>1, ElementOfSeq, LenProperties DEF Inherits
<1>3. \A t \in Token : t.id \in 1 .. MaxEnters /\ t.old \in MaybeAsm
  BY DEF Token, MaybeAsm
<1>4. QED
  BY <1>1, <1>2, <1>3

\* What a step leaves of a context it does not touch.
SameContext(x) ==
  /\ tokens'[x] = tokens[x] /\ current'[x] = current[x] /\ inherited'[x] = inherited[x]
  /\ open'[x] = open[x] /\ leaving'[x] = leaving[x]

LEMMA SameContextKeeps ==
  ASSUME ContextInv, NEW x \in Contexts, SameContext(x),
         entered' \in Nat, entered <= entered', exists \subseteq exists',
         \A i \in 1 .. Len(tokens[x]) :
           tokens[x][i].ctx = x /\ tokens[x][i].id \in used' => tokens[x][i].id \in used
  PROVE  (StackSound(x) /\ StackCounts(x) /\ StackNests(x))'
<1>1. StackSound(x) /\ StackCounts(x) /\ StackNests(x)
  BY DEF ContextInv
<1>2. StackSound(x)'
  <2>1. /\ entered \in Nat
        /\ \A i \in 1 .. Len(tokens[x]) : tokens[x][i].id \in Nat
    BY ContextTypes
  <2>2. QED
    BY <1>1, <2>1 DEF StackSound, SameContext
<1>3. StackCounts(x)'
  BY <1>1 DEF StackCounts, SameContext, Inherits
<1>4. StackNests(x)'
  BY <1>1 DEF StackNests, SameContext, Inherits
<1>5. QED
  BY <1>2, <1>3, <1>4

LEMMA SpawnKeeps ==
  ASSUME ContextInv, NEW c \in Contexts, NEW d \in Contexts, Spawn(c, d)
  PROVE  ContextInv'
<1> USE DEF ContextInv
<1>1. /\ tokens[c] \in Seq(Token) /\ current[c] \in MaybeAsm
      /\ open[d] = <<>> /\ c \in exists /\ d \notin exists /\ c # d
      /\ Len(open[d]) = 0
  BY EmptySeq DEF ShapeOK, Spawn, Unborn
<1>2. /\ tokens'[d] = tokens[c] /\ current'[d] = current[c]
      /\ inherited'[d] = [current |-> current[c], tokens |-> tokens[c]]
      /\ exists' = exists \cup {d}
      /\ \A x \in Contexts \ {d} :
           tokens'[x] = tokens[x] /\ current'[x] = current[x] /\ inherited'[x] = inherited[x]
      /\ UNCHANGED <<used, entered, open, leaving>>
  BY DEF Spawn, ShapeOK
<1>3. ShapeOK'
  BY <1>1, <1>2 DEF ShapeOK, Spawn
<1>4. ASSUME NEW x \in Contexts \ {d}
      PROVE  (StackSound(x) /\ StackCounts(x) /\ StackNests(x) /\ Unborn(x))'
  <2>1. SameContext(x) /\ entered' \in Nat /\ entered <= entered'
    BY <1>2, ContextTypes DEF SameContext
  <2>2. (StackSound(x) /\ StackCounts(x) /\ StackNests(x))'
    BY <1>2, <2>1, SameContextKeeps
  <2>3. Unborn(x)'
    BY <1>2 DEF Unborn
  <2>4. QED
    BY <2>2, <2>3
<1>5. StackSound(d)'
  BY <1>1, <1>2 DEF StackSound
<1>6. StackCounts(d)' /\ StackNests(d)' /\ Unborn(d)'
  <2>1. Len(tokens[c]) \in Nat
    BY ContextTypes
  <2>2. StackCounts(d)'
    <3>1. /\ Inherits(d)' = Len(tokens[c]) /\ inherited'[d].tokens = tokens[c]
          /\ inherited'[d].current = current[c] /\ Len(open'[d]) = 0
      BY <1>1, <1>2 DEF Inherits
    <3>2. Len(tokens[c]) = Len(tokens[c]) + 0
      BY <2>1
    <3>3. QED
      BY <1>2, <3>1, <3>2 DEF StackCounts
  <2>3. StackNests(d)' /\ Unborn(d)'
    <3>1. Len(open'[d]) = 0 /\ open'[d] = <<>> /\ ~ (d \notin exists')
      BY <1>1, <1>2
    <3>2. StackNests(d)'
      <4> SUFFICES Len(open'[d]) = 0 => StackNests(d)'
        BY <3>1
      <4>1. QED
        BY SMT DEF StackNests
    <3>3. QED
      BY <3>1, <3>2 DEF Unborn
  <2>4. QED
    BY <2>2, <2>3
<1>7. ASSUME NEW x \in Contexts, NEW y \in Contexts
      PROVE  NumbersTell(x, y)'
  <2>1. \E v \in Contexts : tokens'[x] = tokens[v]
    BY <1>2
  <2>2. \E w \in Contexts : tokens'[y] = tokens[w]
    BY <1>2
  <2>3. QED
    BY <2>1, <2>2 DEF NumbersTell
<1>8. QED
  BY <1>3, <1>4, <1>5, <1>6, <1>7

LEMMA EnterKeeps ==
  ASSUME ContextInv, NEW c \in Contexts, NEW a \in Asms, Enter(c, a)
  PROVE  ContextInv'
<1> USE DEF ContextInv
<1> DEFINE t == [id |-> entered + 1, ctx |-> c, old |-> current[c]]
           b == [id |-> entered + 1, asm |-> a]
<1>1. /\ entered \in Nat /\ entered + 1 \in 1 .. MaxEnters /\ MaxEnters \in Nat
      /\ current[c] \in MaybeAsm /\ c \in exists
  BY ContextAssumption DEF ShapeOK, Enter
<1>2. t \in Token /\ b \in OpenBlock
  BY <1>1 DEF Token, OpenBlock, MaybeAsm
<1>3. /\ tokens'[c] = Append(tokens[c], t) /\ open'[c] = Append(open[c], b)
      /\ current'[c] = a /\ entered' = entered + 1
      /\ \A x \in Contexts \ {c} :
           tokens'[x] = tokens[x] /\ current'[x] = current[x] /\ open'[x] = open[x]
      /\ UNCHANGED <<used, exists, inherited, leaving>>
  BY DEF Enter, ShapeOK
<1>4. /\ tokens[c] \in Seq(Token) /\ open[c] \in Seq(OpenBlock)
      /\ Len(tokens[c]) \in Nat /\ Len(open[c]) \in Nat
      /\ \A i \in 1 .. Len(tokens[c]) : tokens[c][i] \in Token
  BY ElementOfSeq DEF ShapeOK
<1>5. /\ tokens'[c] \in Seq(Token) /\ Len(tokens'[c]) = Len(tokens[c]) + 1
      /\ \A i \in 1 .. Len(tokens[c]) : tokens'[c][i] = tokens[c][i]
      /\ tokens'[c][Len(tokens[c]) + 1] = t
  BY <1>2, <1>3, <1>4, AppendProperties
<1>6. /\ open'[c] \in Seq(OpenBlock) /\ Len(open'[c]) = Len(open[c]) + 1
      /\ \A i \in 1 .. Len(open[c]) : open'[c][i] = open[c][i]
      /\ open'[c][Len(open[c]) + 1] = b
  BY <1>2, <1>3, <1>4, AppendProperties
<1>7. t.id = entered + 1 /\ t.ctx = c /\ t.old = current[c] /\ b.asm = a
  OBVIOUS
<1>8. ShapeOK'
  <2>1. tokens' \in [Contexts -> Seq(Token)]
    BY <1>2, <1>4, <1>5 DEF Enter, ShapeOK
  <2>2. open' \in [Contexts -> Seq(OpenBlock)]
    BY <1>2, <1>4, <1>6 DEF Enter, ShapeOK
  <2>3. QED
    BY <1>1, <1>3, <2>1, <2>2 DEF Enter, ShapeOK, MaybeAsm
<1> HIDE DEF t, b
<1>9. ASSUME NEW x \in Contexts \ {c}
      PROVE  (StackSound(x) /\ StackCounts(x) /\ StackNests(x) /\ Unborn(x))'
  <2>1. SameContext(x) /\ entered' \in Nat /\ entered <= entered'
    BY <1>1, <1>3 DEF SameContext
  <2>2. (StackSound(x) /\ StackCounts(x) /\ StackNests(x))'
    BY <1>3, <2>1, SameContextKeeps
  <2>3. Unborn(x)'
    BY <1>3 DEF Unborn
  <2>4. QED
    BY <2>2, <2>3
<1>10. StackSound(c)'
  <2>1. entered + 1 \notin used
    BY <1>1 DEF ShapeOK
  <2>2. StackSound(c)
    OBVIOUS
  <2>3. \A i \in 1 .. Len(tokens[c]) : tokens[c][i].id \in Nat /\ tokens[c][i].id < entered + 1
    <3>1. \A i \in 1 .. Len(tokens[c]) : tokens[c][i].id \in Nat
      BY ContextTypes
    <3>2. QED
      BY <1>1, <2>2, <3>1 DEF StackSound
  <2>4. \A i \in 1 .. Len(tokens'[c]) : i \in 1 .. Len(tokens[c]) \/ i = Len(tokens[c]) + 1
    BY <1>4, <1>5
  <2>5. ASSUME NEW i \in 1 .. Len(tokens'[c])
        PROVE  /\ tokens'[c][i].id <= entered + 1 /\ tokens'[c][i].ctx \in exists
               /\ tokens'[c][i].ctx = c => tokens'[c][i].id \notin used
               /\ \A j \in 1 .. Len(tokens'[c]) : tokens'[c][i].id = tokens'[c][j].id => i = j
    <3>1. CASE i = Len(tokens[c]) + 1
      <4>1. tokens'[c][i].id = entered + 1 /\ tokens'[c][i].ctx = c
        BY <3>1, <1>5, <1>7
      <4>2. /\ tokens'[c][i].id <= entered + 1 /\ tokens'[c][i].ctx \in exists
            /\ tokens'[c][i].ctx = c => tokens'[c][i].id \notin used
        BY <4>1, <1>1, <2>1
      <4>3. ASSUME NEW j \in 1 .. Len(tokens'[c]), tokens'[c][i].id = tokens'[c][j].id
            PROVE  i = j
        <5>1. CASE j = Len(tokens[c]) + 1
          BY <3>1, <5>1
        <5>2. CASE j \in 1 .. Len(tokens[c])
          <6>1. tokens'[c][j].id \in Nat /\ tokens'[c][j].id < entered + 1
            BY <5>2, <1>5, <2>3
          <6>2. QED
            BY <4>1, <4>3, <6>1, <1>1
        <5>3. QED
          BY <5>1, <5>2, <2>4
      <4>4. QED
        BY <4>2, <4>3
    <3>2. CASE i \in 1 .. Len(tokens[c])
      <4>1. /\ tokens[c][i].id <= entered + 1 /\ tokens[c][i].ctx \in exists
            /\ tokens[c][i].ctx = c => tokens[c][i].id \notin used
        BY <3>2, <2>3, <2>2, <1>1 DEF StackSound
      <4>2. ASSUME NEW j \in 1 .. Len(tokens'[c]), tokens'[c][i].id = tokens'[c][j].id
            PROVE  i = j
        <5>1. CASE j = Len(tokens[c]) + 1
          BY <4>2, <5>1, <3>2, <1>5, <1>7, <2>3, <1>1
        <5>2. CASE j \in 1 .. Len(tokens[c])
          BY <4>2, <5>2, <3>2, <1>5, <2>2 DEF StackSound
        <5>3. QED
          BY <5>1, <5>2, <2>4
      <4>3. QED
        BY <3>2, <4>1, <4>2, <1>5
    <3>3. QED
      BY <3>1, <3>2, <2>4
  <2>6. QED
    BY <1>3, <2>5 DEF StackSound
<1> DEFINE n == Len(open[c])
           k == Inherits(c)
<1>11. k \in Nat /\ Inherits(c)' = k
  BY <1>3, LenProperties DEF Inherits, ShapeOK
<1>12. StackCounts(c)'
  <2> SUFFICES ASSUME leaving[c] # "crossed" PROVE StackCounts(c)'
    BY <1>3 DEF StackCounts
  <2>1. /\ Len(tokens[c]) = k + n
        /\ \A i \in 1 .. k : tokens[c][i] = inherited[c].tokens[i]
        /\ \A i \in 1 .. n : tokens[c][k + i].ctx = c
        /\ IF n = 0 THEN current[c] = inherited[c].current
           ELSE tokens[c][k + 1].old = inherited[c].current
    BY DEF StackCounts
  <2> HIDE DEF n, k
  <2>2. n \in Nat
    BY <1>4 DEF n
  <2>3. Len(tokens'[c]) = k + (n + 1)
    BY <1>5, <1>11, <2>1, <2>2
  <2>4. \A i \in 1 .. k : tokens'[c][i] = inherited'[c].tokens[i]
    BY <1>3, <1>5, <1>11, <2>1, <2>2
  <2>5. \A i \in 1 .. n + 1 : tokens'[c][k + i].ctx = c
    <3>1. \A i \in 1 .. n : k + i \in 1 .. Len(tokens[c])
      BY <1>11, <2>1, <2>2
    <3>2. \A i \in 1 .. n + 1 : i \in 1 .. n \/ k + i = Len(tokens[c]) + 1
      BY <1>11, <2>1, <2>2
    <3>3. QED
      BY <1>5, <1>7, <2>1, <3>1, <3>2
  <2>6. tokens'[c][k + 1].old = inherited'[c].current
    <3>1. CASE n = 0
      BY <3>1, <1>3, <1>5, <1>7, <1>11, <2>1
    <3>2. CASE n # 0
      BY <3>2, <1>3, <1>5, <1>11, <2>1, <2>2
    <3>3. QED
      BY <3>1, <3>2
  <2>7. Len(open'[c]) = n + 1 /\ n + 1 # 0
    BY <1>6, <2>2 DEF n
  <2>8. QED
    BY <1>11, <2>3, <2>4, <2>5, <2>6, <2>7 DEF StackCounts
<1>13. StackNests(c)'
  <2> SUFFICES ASSUME leaving[c] = "nested" PROVE StackNests(c)'
    BY <1>3 DEF StackNests
  <2>1. /\ Len(tokens[c]) = k + n
        /\ n # 0 => current[c] = open[c][n].asm
        /\ \A i \in 2 .. n : tokens[c][k + i].old = open[c][i - 1].asm
    BY DEF StackCounts, StackNests
  <2>2. n \in Nat /\ Len(open'[c]) = n + 1 /\ \A i \in 1 .. n : open'[c][i] = open[c][i]
    BY <1>4, <1>6
  <2>3. current'[c] = open'[c][n + 1].asm
    BY <1>3, <1>6, <1>7
  <2> HIDE DEF n, k
  <2>4. ASSUME NEW i \in 2 .. n + 1
        PROVE  tokens'[c][k + i].old = open'[c][i - 1].asm
    <3>1. CASE i = n + 1
      <4>1. n # 0 /\ n \in 1 .. n /\ k + i = Len(tokens[c]) + 1 /\ i - 1 = n
        BY <3>1, <1>11, <2>1, <2>2
      <4>2. tokens'[c][Len(tokens[c]) + 1] = t
        BY <1>5
      <4>3. tokens'[c][k + i].old = current[c]
        BY <4>1, <4>2, <1>7
      <4>4. current[c] = open[c][n].asm /\ open'[c][i - 1] = open[c][n]
        BY <4>1, <2>1, <2>2
      <4>5. QED
        BY <4>3, <4>4
    <3>2. CASE i # n + 1
      <4>1. i \in 2 .. n /\ k + i \in 1 .. Len(tokens[c]) /\ i - 1 \in 1 .. n
        BY <3>2, <1>11, <2>1, <2>2
      <4>2. QED
        BY <4>1, <1>5, <2>1, <2>2
    <3>3. QED
      BY <3>1, <3>2
  <2>5. QED
    BY <1>11, <2>2, <2>3, <2>4 DEF StackNests
<1>14. Unborn(c)'
  BY <1>1, <1>3 DEF Unborn
<1>15. ASSUME NEW x \in Contexts, NEW y \in Contexts
       PROVE  NumbersTell(x, y)'
  <2>1. \A z \in Contexts : \A i \in 1 .. Len(tokens'[z]) :
          \/ /\ i \in 1 .. Len(tokens[z]) /\ tokens'[z][i] = tokens[z][i]
             /\ tokens[z][i].id # entered + 1
          \/ tokens'[z][i].id = entered + 1 /\ tokens'[z][i].ctx = c
    <3> TAKE z \in Contexts
    <3>1. /\ StackSound(z) /\ Len(tokens[z]) \in Nat
          /\ \A i \in 1 .. Len(tokens[z]) : tokens[z][i].id \in Nat
      BY ContextTypes
    <3>2. \A i \in 1 .. Len(tokens[z]) : tokens[z][i].id # entered + 1
      BY <1>1, <3>1 DEF StackSound
    <3>3. CASE z = c
      BY <3>1, <3>2, <3>3, <1>5, <1>7
    <3>4. CASE z # c
      BY <3>2, <3>4, <1>3
    <3>5. QED
      BY <3>3, <3>4
  <2> SUFFICES ASSUME NEW i \in 1 .. Len(tokens'[x]), NEW j \in 1 .. Len(tokens'[y]),
                      tokens'[x][i].id = tokens'[y][j].id
               PROVE  tokens'[x][i].ctx = tokens'[y][j].ctx
    BY DEF NumbersTell
  <2>2. CASE tokens'[x][i].id = entered + 1
    BY <2>1, <2>2
  <2>3. CASE tokens'[x][i].id # entered + 1
    <3>1. /\ i \in 1 .. Len(tokens[x]) /\ tokens'[x][i] = tokens[x][i]
          /\ j \in 1 .. Len(tokens[y]) /\ tokens'[y][j] = tokens[y][j]
      BY <2>1, <2>3
    <3>2. NumbersTell(x, y)
      OBVIOUS
    <3>3. QED
      BY <3>1, <3>2 DEF NumbersTell
  <2>4. QED
    BY <2>2, <2>3
<1>16. QED
  BY <1>8, <1>9, <1>10, <1>12, <1>13, <1>14, <1>15

\* The last of a stack is taken off.
LEMMA RemoveLast ==
  ASSUME NEW S, NEW s \in Seq(S), Len(s) # 0
  PROVE  /\ RemoveAt(s, Len(s)) \in Seq(S)
         /\ Len(RemoveAt(s, Len(s))) = Len(s) - 1
         /\ \A j \in 1 .. Len(s) - 1 : RemoveAt(s, Len(s))[j] = s[j]
<1>1. Len(s) \in 1 .. Len(s) /\ \A j \in 1 .. Len(s) - 1 : j < Len(s)
  OBVIOUS
<1>2. QED
  BY <1>1, RemoveAtProperties

\* What an exit does to the context that runs it: its last token is taken off,
\* and reset if it is its own.
LEMMA ExitStack ==
  ASSUME ContextInv, NEW c \in Contexts, NEW d \in Contexts, NEW i \in DOMAIN open[c],
         Exit(c, d, i), Len(tokens[d]) # 0
  PROVE  LET n == Len(tokens[d])
             t == tokens[d][n]
         IN  /\ tokens' = [tokens EXCEPT ![d] = RemoveAt(tokens[d], n)]
             /\ tokens'[d] \in Seq(Token) /\ Len(tokens'[d]) = n - 1
             /\ \A j \in 1 .. n - 1 : tokens'[d][j] = tokens[d][j]
             /\ t.ctx = d => current' = [current EXCEPT ![d] = t.old] /\ used' = used \cup {t.id}
             /\ t.ctx # d => UNCHANGED <<current, used>>
<1> DEFINE n == Len(tokens[d])
           t == tokens[d][n]
<1>1. tokens[d] \in Seq(Token) /\ n \in Nat /\ n \in 1 .. n /\ tokens[d] # <<>>
  BY ContextTypes, EmptySeq
<1>2. /\ RemoveAt(tokens[d], n) \in Seq(Token) /\ Len(RemoveAt(tokens[d], n)) = n - 1
      /\ \A j \in 1 .. n - 1 : RemoveAt(tokens[d], n)[j] = tokens[d][j]
  BY <1>1, RemoveLast
<1>3. tokens' = [tokens EXCEPT ![d] = RemoveAt(tokens[d], n)]
  BY <1>1 DEF Exit, TokenOf, DropToken
<1>4. tokens'[d] = RemoveAt(tokens[d], n)
  BY <1>3 DEF ContextInv, ShapeOK
<1>5. t.ctx = d => ResetAllowed(t, d)
  BY <1>1 DEF ResetAllowed, ContextInv, StackSound
<1>6. /\ t.ctx = d => current' = [current EXCEPT ![d] = t.old] /\ used' = used \cup {t.id}
      /\ t.ctx # d => UNCHANGED <<current, used>>
  BY <1>1, <1>5 DEF Exit, TokenOf, ResetAllowed
<1>7. QED
  BY <1>2, <1>3, <1>4, <1>6

LEMMA ExitShape ==
  ASSUME ContextInv, NEW c \in Contexts, NEW d \in Contexts, NEW i \in DOMAIN open[c],
         Exit(c, d, i)
  PROVE  /\ ShapeOK' /\ \A x \in Contexts : Unborn(x)'
         /\ Len(open'[c]) = Len(open[c]) - 1
         /\ \A j \in 1 .. i - 1 : open'[c][j] = open[c][j]
         /\ i \in 1 .. Len(open[c])
<1>1. open[c] \in Seq(OpenBlock) /\ Len(open[c]) \in Nat /\ i \in 1 .. Len(open[c])
  BY ContextTypes
<1>2. /\ RemoveAt(open[c], i) \in Seq(OpenBlock)
      /\ Len(RemoveAt(open[c], i)) = Len(open[c]) - 1
      /\ \A j \in 1 .. Len(open[c]) - 1 :
           RemoveAt(open[c], i)[j] = IF j < i THEN open[c][j] ELSE open[c][j + 1]
  BY <1>1, RemoveAtProperties
<1>3. open' = [open EXCEPT ![c] = RemoveAt(open[c], i)] /\ open'[c] = RemoveAt(open[c], i)
  BY DEF Exit, ContextInv, ShapeOK
<1>4. leaving' \in [Contexts -> {"nested", "interleaved", "crossed"}]
  <2>1. ShapeOK
    BY DEF ContextInv
  <2>2. QED
    BY <2>1 DEF Exit, ShapeOK
<1>5. tokens' \in [Contexts -> Seq(Token)] /\ current' \in [Contexts -> MaybeAsm]
      /\ used' \subseteq 1 .. entered
  <2>1. CASE Len(tokens[d]) = 0
    <3>1. tokens[d] = <<>>
      BY <2>1, ContextTypes, EmptySeq
    <3>2. UNCHANGED <<tokens, current, used>>
      BY <3>1 DEF Exit
    <3>3. QED
      BY <3>2 DEF ContextInv, ShapeOK
  <2>2. CASE Len(tokens[d]) # 0
    <3> DEFINE n == Len(tokens[d])
               t == tokens[d][n]
    <3>0. n \in 1 .. Len(tokens[d]) /\ n \in Nat
      BY <2>2, ContextTypes
    <3>1. /\ n \in 1 .. Len(tokens[d]) /\ t.old \in MaybeAsm /\ t.id \in 1 .. MaxEnters
          /\ entered \in Nat
      <4> HIDE DEF n
      <4>1. QED
        BY <3>0, ContextTypes DEF n
    <3>2. t.id <= entered
      BY <3>1 DEF ContextInv, StackSound
    <3>3. /\ tokens' = [tokens EXCEPT ![d] = RemoveAt(tokens[d], n)]
          /\ tokens'[d] \in Seq(Token)
          /\ t.ctx = d => current' = [current EXCEPT ![d] = t.old] /\ used' = used \cup {t.id}
          /\ t.ctx # d => UNCHANGED <<current, used>>
      BY <2>2, ExitStack
    <3> HIDE DEF t, n
    <3>4. ShapeOK
      BY DEF ContextInv
    <3>5. tokens' \in [Contexts -> Seq(Token)]
      BY <3>3, <3>4 DEF ShapeOK
    <3>6. current' \in [Contexts -> MaybeAsm]
      BY <3>1, <3>3, <3>4 DEF ShapeOK
    <3>7. used' \subseteq 1 .. entered
      <4>1. used \subseteq 1 .. entered /\ t.id \in 1 .. entered
        BY <3>1, <3>2, <3>4 DEF ShapeOK
      <4>2. used' = used \cup {t.id} \/ used' = used
        BY <3>3
      <4>3. QED
        BY <4>1, <4>2
    <3>8. QED
      BY <3>5, <3>6, <3>7
  <2>3. QED
    BY <2>1, <2>2
<1>6. ShapeOK'
  BY <1>2, <1>3, <1>4, <1>5 DEF Exit, ContextInv, ShapeOK
<1>7. ASSUME NEW x \in Contexts PROVE Unborn(x)'
  <2>1. x # c => open'[x] = open[x]
    BY <1>3 DEF ContextInv, ShapeOK
  <2>2. open[c] # <<>> /\ exists' = exists
    BY <1>1, EmptySeq DEF Exit
  <2>3. QED
    BY <2>1, <2>2 DEF ContextInv, Unborn
<1>8. QED
  BY <1>1, <1>2, <1>3, <1>6, <1>7

LEMMA ExitSound ==
  ASSUME ContextInv, NEW c \in Contexts, NEW d \in Contexts, NEW i \in DOMAIN open[c],
         Exit(c, d, i), NEW x \in Contexts
  PROVE  StackSound(x)'
<1>1. /\ StackSound(x) /\ StackSound(d) /\ exists' = exists /\ entered' = entered
      /\ Len(tokens[x]) \in Nat /\ Len(tokens[d]) \in Nat
  BY ContextTypes DEF ContextInv, Exit
<1>2. CASE Len(tokens[d]) = 0
  <2>1. tokens[d] = <<>>
    BY <1>2, ContextTypes, EmptySeq
  <2>2. UNCHANGED <<tokens, used>>
    BY <2>1 DEF Exit
  <2>3. QED
    BY <1>1, <2>2 DEF StackSound
<1>3. CASE Len(tokens[d]) # 0 /\ x # d
  <2> DEFINE t == tokens[d][Len(tokens[d])]
  <2>1. /\ tokens' = [tokens EXCEPT ![d] = RemoveAt(tokens[d], Len(tokens[d]))]
        /\ t.ctx = d => used' = used \cup {t.id}
        /\ t.ctx # d => used' = used
    BY <1>3, ExitStack
  <2>2. tokens'[x] = tokens[x]
    BY <1>3, <2>1 DEF ContextInv, ShapeOK
  <2>3. ASSUME NEW j \in 1 .. Len(tokens[x]), tokens[x][j].ctx = x
        PROVE  tokens[x][j].id \notin used'
    <3>1. tokens[x][j].id \notin used
      BY <1>1, <2>3 DEF StackSound
    <3>2. NumbersTell(x, d) /\ Len(tokens[d]) \in 1 .. Len(tokens[d])
      BY <1>1, <1>3 DEF ContextInv
    <3>3. t.ctx = d => tokens[x][j].id # t.id
      BY <1>3, <2>3, <3>2 DEF NumbersTell
    <3>4. QED
      BY <2>1, <3>1, <3>3
  <2>4. QED
    BY <1>1, <2>2, <2>3 DEF StackSound
<1>4. CASE Len(tokens[d]) # 0 /\ x = d
  <2> DEFINE n == Len(tokens[d])
             t == tokens[d][n]
  <2>1. /\ Len(tokens'[d]) = n - 1 /\ \A j \in 1 .. n - 1 : tokens'[d][j] = tokens[d][j]
        /\ t.ctx = d => used' = used \cup {t.id}
        /\ t.ctx # d => used' = used
    BY <1>4, ExitStack
  <2>2. n \in 1 .. n /\ \A j \in 1 .. n - 1 : j \in 1 .. n /\ j # n
    BY <1>1, <1>4
  <2>3. \A j \in 1 .. n - 1 : tokens[d][j].id # t.id
    BY <1>1, <2>2 DEF StackSound
  <2>4. QED
    BY <1>1, <1>4, <2>1, <2>2, <2>3 DEF StackSound
<1>5. QED
  BY <1>2, <1>3, <1>4

LEMMA ExitNumbers ==
  ASSUME ContextInv, NEW c \in Contexts, NEW d \in Contexts, NEW i \in DOMAIN open[c],
         Exit(c, d, i), NEW x \in Contexts, NEW y \in Contexts
  PROVE  NumbersTell(x, y)'
<1>1. ASSUME NEW z \in Contexts
      PROVE  /\ 1 .. Len(tokens'[z]) \subseteq 1 .. Len(tokens[z])
             /\ \A j \in 1 .. Len(tokens'[z]) : tokens'[z][j] = tokens[z][j]
  <2>1. CASE Len(tokens[d]) = 0
    <3>1. tokens[d] = <<>>
      BY <2>1, ContextTypes, EmptySeq
    <3>2. UNCHANGED tokens
      BY <3>1 DEF Exit
    <3>3. QED
      BY <3>2
  <2>2. CASE Len(tokens[d]) # 0
    <3>1. /\ tokens' = [tokens EXCEPT ![d] = RemoveAt(tokens[d], Len(tokens[d]))]
          /\ Len(tokens'[d]) = Len(tokens[d]) - 1
          /\ \A j \in 1 .. Len(tokens[d]) - 1 : tokens'[d][j] = tokens[d][j]
          /\ Len(tokens[d]) \in Nat
      BY <2>2, ExitStack, ContextTypes
    <3>2. z # d => tokens'[z] = tokens[z]
      BY <3>1 DEF ContextInv, ShapeOK
    <3>3. QED
      BY <3>1, <3>2
  <2>3. QED
    BY <2>1, <2>2
<1>2. NumbersTell(x, y)
  BY DEF ContextInv
<1> SUFFICES ASSUME NEW j \in 1 .. Len(tokens'[x]), NEW m \in 1 .. Len(tokens'[y]),
                    tokens'[x][j].id = tokens'[y][m].id
             PROVE  tokens'[x][j].ctx = tokens'[y][m].ctx
  BY DEF NumbersTell
<1>3. /\ j \in 1 .. Len(tokens[x]) /\ tokens'[x][j] = tokens[x][j]
      /\ m \in 1 .. Len(tokens[y]) /\ tokens'[y][m] = tokens[y][m]
  BY <1>1
<1>4. QED
  BY <1>2, <1>3 DEF NumbersTell

\* How the blocks of the two contexts were left so far.
LEMMA ExitLeaving ==
  ASSUME ContextInv, NEW c \in Contexts, NEW d \in Contexts, NEW i \in DOMAIN open[c],
         Exit(c, d, i)
  PROVE  /\ leaving'[c] # "crossed" => c = d /\ leaving[c] # "crossed"
         /\ leaving'[c] = "nested" => c = d /\ i = Len(open[c]) /\ leaving[c] = "nested"
         /\ c # d => leaving'[d] = "crossed"
         /\ \A x \in Contexts \ {c, d} : leaving'[x] = leaving[x]
BY DEF Exit, ContextInv, ShapeOK

LEMMA ExitOwn ==
  ASSUME ContextInv, NEW c \in Contexts, NEW i \in DOMAIN open[c], Exit(c, c, i)
  PROVE  StackCounts(c)' /\ StackNests(c)'
<1> DEFINE n == Len(open[c])
           k == Inherits(c)
           t == tokens[c][Len(tokens[c])]
<1> SUFFICES ASSUME leaving'[c] # "crossed" PROVE StackCounts(c)' /\ StackNests(c)'
  BY DEF StackCounts, StackNests
<1>1. /\ leaving[c] # "crossed"
      /\ leaving'[c] = "nested" => leaving[c] = "nested" /\ i = n
  BY ExitLeaving
<1>2. /\ k \in Nat /\ n \in Nat /\ i \in 1 .. n
      /\ Len(open'[c]) = n - 1
      /\ \A j \in 1 .. i - 1 : open'[c][j] = open[c][j]
  BY ContextTypes, ExitShape
<1>3. /\ Len(tokens[c]) = k + n
      /\ \A j \in 1 .. k : tokens[c][j] = inherited[c].tokens[j]
      /\ \A j \in 1 .. n : tokens[c][k + j].ctx = c
      /\ tokens[c][k + 1].old = inherited[c].current
  <2>1. StackCounts(c) /\ n # 0
    BY <1>2 DEF ContextInv
  <2>2. QED
    BY <1>1, <2>1 DEF StackCounts
<1>4. n \in 1 .. n /\ k + n # 0
  BY <1>2
<1>5. t.ctx = c
  BY <1>3, <1>4
<1>6. /\ Len(tokens'[c]) = k + n - 1
      /\ \A j \in 1 .. k + n - 1 : tokens'[c][j] = tokens[c][j]
      /\ current' = [current EXCEPT ![c] = t.old]
  <2>1. Len(tokens[c]) # 0
    BY <1>3, <1>4
  <2>2. /\ Len(tokens'[c]) = Len(tokens[c]) - 1
        /\ \A j \in 1 .. Len(tokens[c]) - 1 : tokens'[c][j] = tokens[c][j]
        /\ t.ctx = c => current' = [current EXCEPT ![c] = t.old]
    BY <2>1, ExitStack
  <2>3. Len(tokens[c]) - 1 = k + n - 1
    BY <1>2, <1>3
  <2> HIDE DEF n, k, t
  <2>4. QED
    BY <1>5, <2>2, <2>3
<1>7. current'[c] = t.old /\ inherited' = inherited
  BY <1>6 DEF ContextInv, ShapeOK, Exit
<1> HIDE DEF n, k, t
<1>8. Inherits(c)' = k
  BY <1>7 DEF k, Inherits
<1>9. /\ Len(tokens'[c]) = k + (n - 1)
      /\ \A j \in 1 .. k : tokens'[c][j] = tokens[c][j]
      /\ \A j \in 1 .. n - 1 : j \in 1 .. n /\ tokens'[c][k + j] = tokens[c][k + j]
  <2>1. /\ n - 1 \in Nat /\ k + n - 1 = k + (n - 1)
        /\ \A j \in 1 .. k : j \in 1 .. k + n - 1
        /\ \A j \in 1 .. n - 1 : j \in 1 .. n /\ k + j \in 1 .. k + n - 1
    BY <1>2
  <2>2. QED
    BY <1>6, <2>1
<1>10. StackCounts(c)'
  <2>1. CASE n = 1
    <3>1. t = tokens[c][k + 1]
      BY <2>1, <1>3 DEF t
    <3>2. QED
      BY <2>1, <3>1, <1>2, <1>3, <1>7, <1>8, <1>9 DEF StackCounts
  <2>2. CASE n # 1
    <3>1. 1 \in 1 .. n - 1 /\ n - 1 # 0
      BY <2>2, <1>2
    <3>2. QED
      BY <3>1, <1>2, <1>3, <1>7, <1>8, <1>9 DEF StackCounts
  <2>3. QED
    BY <2>1, <2>2
<1>11. StackNests(c)'
  <2> SUFFICES ASSUME leaving'[c] = "nested" PROVE StackNests(c)'
    BY DEF StackNests
  <2>1. i = n /\ \A j \in 2 .. n : tokens[c][k + j].old = open[c][j - 1].asm
    BY <1>1 DEF ContextInv, StackNests, n, k
  <2>2. \A j \in 2 .. n - 1 : tokens'[c][k + j].old = open'[c][j - 1].asm
    <3>1. \A j \in 2 .. n - 1 : j \in 1 .. n - 1 /\ j \in 2 .. n /\ j - 1 \in 1 .. i - 1
      BY <1>2, <2>1
    <3>2. QED
      BY <1>2, <1>9, <2>1, <3>1
  <2>3. n - 1 # 0 => current'[c] = open'[c][n - 1].asm
    <3> SUFFICES ASSUME n - 1 # 0 PROVE current'[c] = open'[c][n - 1].asm
      OBVIOUS
    <3>1. n \in 2 .. n /\ n - 1 \in 1 .. i - 1
      BY <1>2, <2>1
    <3>2. t.old = open[c][n - 1].asm
      BY <1>3, <2>1, <3>1 DEF t
    <3>3. QED
      BY <1>2, <1>7, <3>1, <3>2
  <2>4. QED
    BY <1>2, <1>8, <2>2, <2>3 DEF StackNests
<1>12. QED
  BY <1>10, <1>11

LEMMA ExitKeeps ==
  ASSUME ContextInv, NEW c \in Contexts, NEW d \in Contexts, NEW i \in DOMAIN open[c],
         Exit(c, d, i)
  PROVE  ContextInv'
<1>1. ShapeOK' /\ \A x \in Contexts : Unborn(x)' /\ StackSound(x)'
  BY ExitShape, ExitSound
<1>2. \A x, y \in Contexts : NumbersTell(x, y)'
  BY ExitNumbers
<1>3. ASSUME NEW x \in Contexts
      PROVE  StackCounts(x)' /\ StackNests(x)'
  <2>1. CASE c = d /\ x = c
    BY <2>1, ExitOwn
  <2>2. CASE c # d /\ x \in {c, d}
    <3>1. leaving'[x] = "crossed"
      BY <2>2, ExitLeaving, <1>1 DEF ShapeOK
    <3>2. QED
      BY <3>1 DEF StackCounts, StackNests
  <2>3. CASE x \notin {c, d}
    <3>1. leaving'[x] = leaving[x]
      BY <2>3, ExitLeaving
    <3>2. /\ tokens'[x] = tokens[x] /\ current'[x] = current[x] /\ open'[x] = open[x]
          /\ inherited'[x] = inherited[x]
      BY <2>3 DEF Exit, ContextInv, ShapeOK
    <3>3. StackCounts(x) /\ StackNests(x)
      BY DEF ContextInv
    <3>4. QED
      BY <3>1, <3>2, <3>3 DEF StackCounts, StackNests, Inherits
  <2>4. QED
    BY <2>1, <2>2, <2>3
<1>4. QED
  BY <1>1, <1>2, <1>3 DEF ContextInv

LEMMA ContextInvNext == ContextInv /\ [ContextNext]_contextVars => ContextInv'
<1> SUFFICES ASSUME ContextInv, [ContextNext]_contextVars PROVE ContextInv'
  OBVIOUS
<1>1. CASE \E c, d \in Contexts : Spawn(c, d)
  BY <1>1, SpawnKeeps
<1>2. CASE \E c \in Contexts, a \in Asms : Enter(c, a)
  BY <1>2, EnterKeeps
<1>3. CASE \E c, d \in Contexts : \E i \in DOMAIN open[c] : Exit(c, d, i)
  BY <1>3, ExitKeeps
<1>4. CASE UNCHANGED contextVars
  BY <1>4 DEF contextVars, ContextInv, ShapeOK, StackSound, StackCounts, StackNests, Unborn,
              NumbersTell, Inherits
<1>5. QED
  BY <1>1, <1>2, <1>3, <1>4 DEF ContextNext

LEMMA ContextInvAlways == ContextSpec => []ContextInv
BY ContextInvInit, ContextInvNext, PTL DEF ContextSpec

-----------------------------------------------------------------------------
(* Theorems                                                                 *)

\* While the blocks of a context nest, the code in it sees the assembler of
\* the innermost one, or the inherited one, and the next __exit__ finds a
\* token it can reset, whatever other threads and tasks do.
THEOREM BlocksNest == ContextSpec => []NestedBlocksSee
<1>1. ContextInv => NestedBlocksSee
  <2> SUFFICES ASSUME ContextInv, NEW c \in exists, leaving[c] = "nested"
               PROVE  /\ Len(tokens[c]) = Len(inherited[c].tokens) + Len(open[c])
                      /\ IF open[c] = <<>> THEN current[c] = inherited[c].current
                         ELSE /\ current[c] = Last(open[c]).asm
                              /\ ResetAllowed(Last(tokens[c]), c)
    BY DEF NestedBlocksSee
  <2>1. c \in Contexts /\ StackCounts(c) /\ StackNests(c) /\ StackSound(c)
    BY DEF ContextInv, ShapeOK
  <2>2. /\ Len(open[c]) \in Nat /\ Inherits(c) \in Nat /\ Len(tokens[c]) \in Nat
        /\ open[c] = <<>> <=> Len(open[c]) = 0
    BY <2>1, ContextTypes, EmptySeq
  <2>3. Len(tokens[c]) = Inherits(c) + Len(open[c])
    BY <2>1 DEF StackCounts
  <2>4. open[c] = <<>> => current[c] = inherited[c].current
    BY <2>1, <2>2 DEF StackCounts
  <2>5. open[c] # <<>> => current[c] = Last(open[c]).asm
    BY <2>1, <2>2 DEF StackNests, Last
  <2>6. open[c] # <<>> => ResetAllowed(Last(tokens[c]), c)
    <3> SUFFICES ASSUME open[c] # <<>> PROVE ResetAllowed(Last(tokens[c]), c)
      OBVIOUS
    <3>1. Len(open[c]) \in 1 .. Len(open[c]) /\ Len(tokens[c]) \in 1 .. Len(tokens[c])
      BY <2>2, <2>3
    <3>2. tokens[c][Len(tokens[c])].ctx = c
      BY <2>1, <2>3, <3>1 DEF StackCounts
    <3>3. QED
      BY <2>1, <3>1, <3>2 DEF StackSound, ResetAllowed, Last
  <2>7. QED
    BY <2>3, <2>4, <2>5, <2>6 DEF Inherits
<1>2. QED
  BY <1>1, ContextInvAlways, PTL

\* Once the last of a context's blocks is left, in whatever order, it is as it
\* was created, if no block was left in another context.
THEOREM BlocksRestore == ContextSpec => []AnyOrderRestores
<1>1. ContextInv => AnyOrderRestores
  <2> SUFFICES ASSUME ContextInv, NEW c \in exists, leaving[c] # "crossed", open[c] = <<>>
               PROVE  current[c] = inherited[c].current /\ tokens[c] = inherited[c].tokens
    BY DEF AnyOrderRestores
  <2>1. c \in Contexts /\ StackCounts(c) /\ Len(open[c]) = 0
    BY EmptySeq DEF ContextInv, ShapeOK
  <2>2. /\ tokens[c] \in Seq(Token) /\ inherited[c].tokens \in Seq(Token)
        /\ Len(inherited[c].tokens) \in Nat
    BY <2>1, LenProperties DEF ContextInv, ShapeOK
  <2>3. /\ current[c] = inherited[c].current
        /\ Len(tokens[c]) = Len(inherited[c].tokens)
        /\ \A i \in 1 .. Len(inherited[c].tokens) : tokens[c][i] = inherited[c].tokens[i]
    BY <2>1, <2>2 DEF StackCounts, Inherits
  <2>4. QED
    BY <2>2, <2>3, SeqEqual
<1>2. QED
  BY <1>1, ContextInvAlways, PTL

-----------------------------------------------------------------------------
(* Listing: boundaries in order                                             *)

\* b lists the numbers of S in order, each once.
Rising(b, S) ==
  /\ Len(b) \in Nat /\ DOMAIN b = 1 .. Len(b)
  /\ \A i \in 1 .. Len(b) : b[i] \in S
  /\ \A i, j \in 1 .. Len(b) : i < j => b[i] < b[j]
  /\ \A c \in S : \E i \in 1 .. Len(b) : b[i] = c

\* Sorted(S) is the list of S.
LEMMA SortedRises ==
  ASSUME NEW n \in Nat, NEW S \in SUBSET (0 .. n)
  PROVE  Rising(Sorted(S), S)
<1> DEFINE m == Cardinality(S)
           below(c) == {d \in S : d < c}
           rank == [c \in S |-> Cardinality(below(c)) + 1]
           b == Sorted(S)
<1>1. IsFiniteSet(S) /\ m \in Nat
  <2>1. IsFiniteSet(0 .. n)
    BY FS_Interval
  <2>2. IsFiniteSet(S)
    BY <2>1, FS_Subset
  <2>3. QED
    BY <2>2, FS_CardinalityType
<1>2. \A c \in S : c \in Nat
  OBVIOUS
<1>3. ASSUME NEW c \in S PROVE IsFiniteSet(below(c)) /\ Cardinality(below(c)) \in 0 .. m - 1
  <2>1. IsFiniteSet(S \ {c}) /\ Cardinality(S \ {c}) = m - 1
    BY <1>1, FS_RemoveElement
  <2>2. below(c) \in SUBSET (S \ {c})
    BY <1>2
  <2> HIDE DEF below, m
  <2>3. IsFiniteSet(below(c)) /\ Cardinality(below(c)) <= m - 1
    BY <2>1, <2>2, FS_Subset
  <2>4. Cardinality(below(c)) \in Nat
    BY <2>3, FS_CardinalityType
  <2>5. QED
    BY <1>1, <2>3, <2>4
<1>4. ASSUME NEW c \in S, NEW d \in S, c < d PROVE rank[c] < rank[d]
  <2> DEFINE low == below(c)
             high == below(d)
  <2>1. IsFiniteSet(low) /\ Cardinality(low) \in Nat /\ IsFiniteSet(high) /\ Cardinality(high) \in Nat
    BY <1>1, <1>3
  <2>2. c \notin low /\ low \cup {c} \in SUBSET high
    <3>1. c \in Nat /\ d \in Nat /\ ~ (c < c)
      BY <1>2
    <3>2. \A x \in low : x \in S /\ x < c
      OBVIOUS
    <3>3. \A x \in low : x < d
      BY <1>2, <1>4, <3>1, <3>2
    <3>4. QED
      BY <1>4, <3>1, <3>2, <3>3
  <2>3. rank[c] = Cardinality(low) + 1 /\ rank[d] = Cardinality(high) + 1
    OBVIOUS
  <2> HIDE DEF low, high, rank
  <2>4. Cardinality(low \cup {c}) = Cardinality(low) + 1
    BY <2>1, <2>2, FS_AddElement
  <2>5. Cardinality(low \cup {c}) <= Cardinality(high)
    BY <2>1, <2>2, FS_Subset
  <2>6. QED
    BY <2>1, <2>3, <2>4, <2>5
<1>5. rank \in [S -> 1 .. m]
  <2>1. ASSUME NEW c \in S PROVE Cardinality(below(c)) + 1 \in 1 .. m
    <3> DEFINE k == Cardinality(below(c))
    <3>1. k \in 0 .. m - 1
      BY <1>3
    <3> HIDE DEF k, m
    <3>2. k + 1 \in 1 .. m
      BY <1>1, <3>1
    <3>3. QED
      BY <3>2 DEF k
  <2> HIDE DEF below, m
  <2>2. QED
    BY <2>1
<1>6. \A k \in 1 .. m : b[k] = CHOOSE c \in S : Cardinality(below(c)) = k - 1
  BY DEF Sorted
<1>7. DOMAIN b = 1 .. m /\ Len(b) = m
  <2>1. b = [k \in 1 .. m |-> CHOOSE c \in S : Cardinality(below(c)) = k - 1]
    BY DEF Sorted
  <2> HIDE DEF b, m, below
  <2>2. QED
    BY <1>1, <2>1
<1>8. \A c, d \in S : c # d => rank[c] # rank[d]
  <2> HIDE DEF rank
  <2>1. \A c \in S : rank[c] \in Int
    BY <1>1, <1>5
  <2>2. \A c, d \in S : c # d => c < d \/ d < c
    BY <1>2
  <2>3. QED
    BY <1>4, <2>1, <2>2
<1>9. \A k \in 1 .. m : \E c \in S : rank[c] = k
  <2> HIDE DEF rank, m
  <2>1. rank \in Injection(S, 1 .. m)
    BY <1>5, <1>8 DEF Injection, IsInjective
  <2>2. IsFiniteSet(1 .. m) /\ Cardinality(1 .. m) = m
    BY <1>1, FS_Interval
  <2>3. rank \in Surjection(S, 1 .. m)
    BY <2>1, <2>2, FS_Injection DEF m
  <2>4. QED
    BY <2>3 DEF Surjection
<1> HIDE DEF b
<1>10. \A k \in 1 .. m : b[k] \in S /\ rank[b[k]] = k
  <2> SUFFICES ASSUME NEW k \in 1 .. m PROVE b[k] \in S /\ rank[b[k]] = k
    OBVIOUS
  <2>1. PICK c \in S : rank[c] = k
    BY <1>9
  <2>2. Cardinality(below(c)) = k - 1
    <3> DEFINE x == Cardinality(below(c))
    <3>1. x \in Int /\ x + 1 = k
      BY <1>3, <2>1
    <3> HIDE DEF x, m
    <3>2. x = k - 1
      BY <1>1, <3>1
    <3>3. QED
      BY <3>2 DEF x
  <2>3. b[k] \in S /\ Cardinality(below(b[k])) = k - 1
    BY <1>6, <2>2
  <2>4. rank[b[k]] = (k - 1) + 1
    BY <2>3
  <2> HIDE DEF rank, m
  <2>5. QED
    BY <1>1, <2>3, <2>4
<1>11. \A i, j \in 1 .. m : i < j => b[i] < b[j]
  <2> SUFFICES ASSUME NEW i \in 1 .. m, NEW j \in 1 .. m, i < j PROVE b[i] < b[j]
    OBVIOUS
  <2> HIDE DEF rank, m
  <2>1. b[i] \in S /\ b[j] \in S /\ rank[b[i]] = i /\ rank[b[j]] = j
    BY <1>10
  <2>2. b[i] \in Nat /\ b[j] \in Nat
    BY <1>2, <2>1
  <2>3. ~ (b[j] < b[i]) /\ b[i] # b[j]
    <3>1. ~ (b[j] < b[i])
      <4>1. ASSUME b[j] < b[i] PROVE j < i
        BY <1>4, <2>1, <4>1
      <4>2. QED
        BY <1>1, <4>1
    <3>2. QED
      BY <1>1, <2>1, <3>1
  <2>4. QED
    BY <2>2, <2>3
<1>12. \A c \in S : \E i \in 1 .. m : b[i] = c
  <2> SUFFICES ASSUME NEW c \in S PROVE b[rank[c]] = c /\ rank[c] \in 1 .. m
    OBVIOUS
  <2> HIDE DEF rank, m
  <2>1. rank[c] \in 1 .. m
    BY <1>5
  <2>2. b[rank[c]] \in S /\ rank[b[rank[c]]] = rank[c]
    BY <1>10, <2>1
  <2>3. QED
    BY <1>8, <2>1, <2>2
<1>13. QED
  BY <1>1, <1>7, <1>10, <1>11, <1>12 DEF Rising, b

\* What sections and images are.
ListedOK ==
  /\ listed.size \in Nat
  /\ \A i \in listed.insns : i.first \in Nat /\ i.end \in Nat /\ i.first < i.end /\ i.end <= listed.size
  /\ \A i, j \in listed.insns : i # j => i.end <= j.first \/ j.end <= i.first
  /\ \A l \in listed.labels : l \in Nat /\ l <= listed.size
  /\ \A i \in listed.insns : \A l \in listed.labels : l <= i.first \/ i.end <= l
  /\ \A p \in listed.patches : p.off \in Nat /\ p.size \in Nat \ {0} /\ p.off + p.size <= listed.size
  /\ image # NoImage => image.size \in Nat /\ image.size <= listed.size /\ image.after \in Nat

\* They are the ones listing() is asked to list.
LEMMA ChosenOK == ListingChosen => ListedOK
<1> SUFFICES ASSUME ListingChosen PROVE ListedOK
  OBVIOUS
<1> DEFINE K(T, m) == UNION {kSubset(k, T) : k \in 0 .. m}
<1>1. \A T, m : \A s \in K(T, m) : s \subseteq T
  BY DEF kSubset
<1>2. PICK n \in 0 .. MaxBytes :
        /\ listed \in [size : {n}, insns : K(Stretches(n), MaxInsns), labels : K(0 .. n, MaxLabels),
                       patches : {ps \in K([off : 0 .. n, size : PatchSizes], MaxPatches) :
                                    \A p \in ps : p.off + p.size <= n}]
        /\ \A i, j \in listed.insns : i # j => i.end <= j.first \/ j.end <= i.first
        /\ \A i \in listed.insns : \A l \in listed.labels : l <= i.first \/ i.end <= l
        /\ image \in {NoImage} \cup [size : 0 .. n, after : {0, MaxBytes}]
  BY DEF ListingChosen
<1> HIDE DEF K
<1>3. /\ listed.size = n /\ listed.insns \in K(Stretches(n), MaxInsns)
      /\ listed.labels \in K(0 .. n, MaxLabels)
      /\ listed.patches \in K([off : 0 .. n, size : PatchSizes], MaxPatches)
      /\ \A p \in listed.patches : p.off + p.size <= n
  BY <1>2
<1>4. n \in Nat /\ MaxBytes \in Nat
  BY <1>2, ListingAssumption
<1>5. \A i \in listed.insns : i.first \in 0 .. n /\ i.end \in 0 .. n /\ i.first < i.end
  BY <1>1, <1>3 DEF Stretches
<1>6. \A l \in listed.labels : l \in 0 .. n
  BY <1>1, <1>3
<1>7. \A p \in listed.patches : p.off \in 0 .. n /\ p.size \in PatchSizes
  <2>1. listed.patches \subseteq [off : 0 .. n, size : PatchSizes]
    BY <1>1, <1>3
  <2>2. QED
    BY <2>1
<1>8. image # NoImage => image.size \in 0 .. n /\ image.after \in Nat
  BY <1>2, <1>4
<1>9. \A i \in listed.insns : i.first \in Nat /\ i.end \in Nat /\ i.first < i.end /\ i.end <= n
  BY <1>4, <1>5
<1>10. \A l \in listed.labels : l \in Nat /\ l <= n
  BY <1>4, <1>6
<1>11. \A p \in listed.patches : p.off \in Nat /\ p.size \in Nat \ {0} /\ p.off + p.size <= n
  <2>1. PatchSizes \subseteq Nat \ {0}
    BY ListingAssumption
  <2> SUFFICES ASSUME NEW p \in listed.patches
               PROVE  p.off \in Nat /\ p.size \in Nat \ {0} /\ p.off + p.size <= n
    OBVIOUS
  <2>2. p.size \in Nat \ {0}
    BY <1>7, <2>1
  <2>3. p.off \in Nat
    BY <1>4, <1>7
  <2>4. p.off + p.size <= n
    BY <1>3
  <2>5. QED
    BY <2>2, <2>3, <2>4
<1>12. image # NoImage => image.size \in Nat /\ image.size <= n /\ image.after \in Nat
  BY <1>4, <1>8
<1>13. QED
  BY <1>2, <1>3, <1>4, <1>9, <1>10, <1>11, <1>12 DEF ListedOK

\* What is listed is bytes of the section where it has them.
Octets == {"before", "listed", "after"} \X Int
Known == IF image = NoImage THEN listed.size ELSE image.size

DataOK(data) ==
  /\ Len(data) \in Nat /\ Len(data) <= listed.size
  /\ Fresh => Len(data) = listed.size
  /\ \A k \in 1 .. Len(data) : data[k] \in Octets
  /\ \A k \in 1 .. Len(data) : k - 1 < Known => data[k] = Byte("listed", k - 1)

\* The bytes listing() takes from the section or the image are such bytes.
LEMMA DataShown ==
  ASSUME ListedOK
  PROVE  DataOK(Data)
<1> DEFINE n == listed.size
<1>1. n \in Nat
  BY DEF ListedOK
<1>2. \A k \in Int : Byte("listed", k) \in Octets /\ Byte("before", k) \in Octets /\ Byte("after", k) \in Octets
  BY DEF Byte, Octets
<1>3. CASE image = NoImage
  <2>1. Data = [k \in 1 .. n |-> Byte("listed", k - 1)]
    BY <1>3 DEF Data, Buffer
  <2>2. Len(Data) = n /\ \A k \in 1 .. n : Data[k] = Byte("listed", k - 1)
    BY <1>1, <2>1
  <2>3. \A k \in 1 .. n : k - 1 \in Int
    BY <1>1
  <2>4. QED
    BY <1>1, <1>2, <2>2, <2>3 DEF DataOK
<1>4. CASE image # NoImage
  <2> DEFINE s == image.size
             a == image.after
             total == ImageStart + s + a
             end == Least(total, ImageStart + n)
  <2>1. s \in Nat /\ s <= n /\ a \in Nat /\ ImageStart \in Nat
    BY <1>4, ListingAssumption DEF ListedOK
  <2>2. total \in Nat /\ end \in Nat /\ ImageStart <= end /\ end <= total /\ end <= ImageStart + n
    BY <1>1, <2>1 DEF Least
  <2>3. s = n => end = ImageStart + n
    BY <1>1, <2>1 DEF Least
  <2>4. Len(ImageData) = total
    BY <2>2 DEF ImageData
  <2>5. \A k \in 1 .. total : /\ ImageData[k] \in Octets
                              /\ (ImageStart < k /\ k <= ImageStart + s) => ImageData[k] = Byte("listed", k - 1 - ImageStart)
    <3> SUFFICES ASSUME NEW k \in 1 .. total
                 PROVE  /\ ImageData[k] \in Octets
                        /\ (ImageStart < k /\ k <= ImageStart + s) => ImageData[k] = Byte("listed", k - 1 - ImageStart)
      OBVIOUS
    <3>1. ImageData[k] = IF k <= ImageStart THEN Byte("before", k)
                         ELSE IF k <= ImageStart + s THEN Byte("listed", k - 1 - ImageStart)
                         ELSE Byte("after", k)
      BY DEF ImageData
    <3>2. k \in Int /\ k - 1 - ImageStart \in Int /\ ImageStart \in Int
      BY <2>1, <2>2
    <3>3. ImageStart < k => ~ (k <= ImageStart)
      BY <3>2
    <3>4. QED
      BY <1>2, <3>1, <3>2, <3>3
  <2>6. Data = SubSeq(ImageData, ImageStart + 1, end)
    BY <1>4, <2>4 DEF Data
  <2> HIDE DEF total, end
  <2>7. /\ Len(Data) = end - ImageStart
        /\ \A k \in 1 .. end - ImageStart : Data[k] = ImageData[ImageStart + k]
    <3> DEFINE lo == ImageStart + 1
    <3>1. lo \in Int /\ end \in Int /\ \A k \in lo .. end : ImageData[k] \in Octets
      BY <2>1, <2>2, <2>5
    <3>2. /\ Len(Data) = IF lo <= end THEN end - lo + 1 ELSE 0
          /\ \A k \in 1 .. end - lo + 1 : Data[k] = ImageData[lo + k - 1]
      <4> HIDE DEF lo
      <4>1. Data = SubSeq(ImageData, lo, end)
        BY <2>6 DEF lo
      <4>2. QED
        BY <3>1, <4>1, SubSeqProperties
    <3>3. end - lo + 1 = end - ImageStart /\ (lo <= end <=> end - ImageStart # 0)
      BY <2>1, <2>2
    <3>4. \A k \in 1 .. end - ImageStart : lo + k - 1 = ImageStart + k
      BY <2>1, <2>2
    <3>5. QED
      BY <2>1, <2>2, <3>2, <3>3, <3>4
  <2>8. \A k \in 1 .. end - ImageStart : ImageStart + k \in 1 .. total /\ ImageStart < ImageStart + k
                                         /\ (ImageStart + k) - 1 - ImageStart = k - 1
                                         /\ (k - 1 < s => ImageStart + k <= ImageStart + s)
    BY <2>1, <2>2
  <2>9. \A k \in 1 .. end - ImageStart : Data[k] \in Octets /\ (k - 1 < s => Data[k] = Byte("listed", k - 1))
    BY <2>5, <2>7, <2>8
  <2>10. end - ImageStart \in Nat /\ end - ImageStart <= n /\ (s = n => end - ImageStart = n)
    BY <1>1, <2>1, <2>2, <2>3
  <2>11. QED
    BY <1>4, <2>7, <2>9, <2>10 DEF DataOK, Known, Fresh
<1>5. QED
  BY <1>3, <1>4

\* The boundaries of n bytes.
CutSet(n) == {c \in Cuts(n) \ WithinInsns : c <= n}

\* bounds of listing(): numbers in order, the first 0.
LEMMA Boundaries ==
  ASSUME ListedOK, NEW n \in Nat
  PROVE  /\ CutSet(n) \subseteq 0 .. n /\ 0 \in CutSet(n)
         /\ Rising(Bounds(n), CutSet(n))
<1>1. \A c \in WithinInsns : \E i \in listed.insns : c \in Int /\ i.first < c /\ c < i.end
  <2> SUFFICES ASSUME NEW i \in listed.insns, NEW c \in (i.first + 1) .. (i.end - 1)
               PROVE  c \in Int /\ i.first < c /\ c < i.end
    BY DEF WithinInsns
  <2>1. i.first \in Nat /\ i.end \in Nat
    BY DEF ListedOK
  <2>2. QED
    BY <2>1
<1>2. 0 \notin WithinInsns
  <2>1. \A i \in listed.insns : ~ (i.first < 0)
    BY DEF ListedOK
  <2>2. QED
    BY <1>1, <2>1
<1>3. \A c \in Cuts(n) : c \in Nat
  <2>1. \A i \in listed.insns : i.first \in Nat /\ i.end \in Nat
    BY DEF ListedOK
  <2>2. \A p \in listed.patches : p.off \in Nat /\ p.off + p.size \in Nat
    BY DEF ListedOK
  <2>3. \A l \in listed.labels : l \in Nat
    BY DEF ListedOK
  <2> SUFFICES ASSUME NEW c \in Cuts(n) PROVE c \in Nat
    OBVIOUS
  <2>4. \/ c = 0 \/ c = n \/ c \in listed.labels
        \/ \E i \in listed.insns : c = i.first \/ c = i.end
        \/ \E p \in listed.patches : c = p.off \/ c = p.off + p.size
    BY DEF Cuts
  <2>5. QED
    BY <2>1, <2>2, <2>3, <2>4
<1>4. CutSet(n) \subseteq 0 .. n
  BY <1>3 DEF CutSet
<1>5. 0 \in CutSet(n)
  BY <1>2 DEF CutSet, Cuts
<1>6. Bounds(n) = Sorted(CutSet(n))
  BY DEF Bounds, CutSet
<1>7. QED
  BY <1>4, <1>5, <1>6, SortedRises

\* The rows of w bytes that d bytes make.
RowCount(d, w) == (d + w - 1) \div w

\* Those rows are apart, in order, and cover every byte.
LEMMA RowsEnough ==
  ASSUME NEW w \in Nat \ {0}, NEW d \in Nat \ {0}
  PROVE  /\ RowCount(d, w) \in Nat \ {0}
         /\ \A r \in 1 .. RowCount(d, w) : w * (r - 1) \in Nat /\ w * (r - 1) < d
         /\ \A r, s \in 1 .. RowCount(d, w) : r < s => w * (r - 1) + w <= w * (s - 1)
         /\ \A k \in 0 .. d - 1 : \E r \in 1 .. RowCount(d, w) : w * (r - 1) <= k /\ k < w * (r - 1) + w
<1> DEFINE t == d + w - 1
           n == RowCount(d, w)
<1>1. t \in Nat /\ t - w < d /\ d <= t
  OBVIOUS
<1>2. n \in Int /\ n * w <= t /\ t < n * w + w
  <2>1. n = t \div w
    BY DEF RowCount
  <2> HIDE DEF n, t
  <2>2. QED
    BY <1>1, <2>1, PageOfByte
<1> HIDE DEF n, t
<1>3. n \in Nat \ {0}
  <2>1. n * w \in Int /\ 0 * w = 0
    BY <1>2
  <2>2. 0 < n * w
    BY <1>1, <1>2, <2>1 DEF t
  <2>3. 0 < n
    BY <1>2, <2>1, <2>2, FewerPages
  <2>4. QED
    BY <1>2, <2>3
<1>4. ASSUME NEW r \in 1 .. n PROVE w * (r - 1) \in Nat /\ w * (r - 1) < d
  <2>1. r * w <= n * w
    BY <1>3
  <2>2. w * (r - 1) = r * w - w /\ r - 1 \in Nat /\ r * w \in Int /\ n * w \in Int /\ w \in Int
    BY <1>3
  <2>3. w * (r - 1) \in Nat
    BY <2>2
  <2>4. r * w - w < d
    BY <1>1, <1>2, <2>1, <2>2
  <2>5. QED
    BY <2>2, <2>3, <2>4
<1>5. ASSUME NEW r \in 1 .. n, NEW s \in 1 .. n, r < s PROVE w * (r - 1) + w <= w * (s - 1)
  <2>1. w * (r - 1) + w = w * r
    BY <1>3
  <2>2. r <= s - 1 /\ r \in Nat /\ s - 1 \in Nat
    BY <1>3, <1>5
  <2>3. w * r <= w * (s - 1)
    BY <2>2
  <2>4. QED
    BY <2>1, <2>3
<1>6. ASSUME NEW k \in 0 .. d - 1 PROVE \E r \in 1 .. n : w * (r - 1) <= k /\ k < w * (r - 1) + w
  <2> DEFINE q == k \div w
  <2>1. k \in Nat
    OBVIOUS
  <2>2. q \in Int /\ q * w <= k /\ k < q * w + w
    BY <2>1, PageOfByte
  <2>3. q \in Nat
    BY <2>1
  <2> HIDE DEF q
  <2>4. n * w \in Int /\ q * w \in Int
    BY <1>3, <2>2
  <2>5. d <= n * w
    BY <1>2, <2>4 DEF t
  <2>6. q * w < n * w
    BY <1>6, <2>1, <2>2, <2>4, <2>5
  <2>7. q < n
    BY <1>2, <2>2, <2>6, FewerPages
  <2>8. q + 1 \in 1 .. n /\ (q + 1) - 1 = q /\ w * q = q * w
    BY <1>3, <2>3, <2>7
  <2>9. QED
    BY <2>2, <2>8
<1>7. QED
  BY <1>3, <1>4, <1>5, <1>6 DEF n

\* Row r of the bytes lo .. hi - 1 shows those from At(lo, r) to before its end.
At(lo, r) == lo + Width * (r - 1)
EndAt(lo, hi, r) == Least(At(lo, r) + Width, hi)
IsInsn(lo, hi) == \E i \in listed.insns : i.first = lo /\ i.end = hi
RowIs(x, data, lo, hi, r) ==
  /\ x.kind = "row" /\ x.address = Start + At(lo, r)
  /\ DOMAIN x.bytes = 1 .. Len(x.bytes) /\ Len(x.bytes) = EndAt(lo, hi, r) - At(lo, r)
  /\ \A b \in 1 .. Len(x.bytes) : x.bytes[b] = data[At(lo, r) + b]
  /\ x.insn = (IsInsn(lo, hi) /\ r = 1)
  /\ x.notes = {p \in listed.patches : IF IsInsn(lo, hi) THEN r = 1 /\ p.off \in lo .. hi - 1
                                       ELSE p.off = At(lo, r)}

Entries ==
  [kind : {"label"}, address : Int]
  \cup [kind : {"row"}, address : Int, bytes : Seq(Octets), insn : BOOLEAN, notes : SUBSET listed.patches]

\* The same of the rows of lo .. hi - 1, the last of which may be short.
LEMMA RowSpans ==
  ASSUME NEW lo \in Nat, NEW hi \in Nat, lo < hi
  PROVE  LET n == RowCount(hi - lo, Width) IN
         /\ n \in Nat \ {0} /\ 1 \in 1 .. n
         /\ \A r \in 1 .. n : /\ At(lo, r) \in Nat /\ EndAt(lo, hi, r) \in Nat
                              /\ lo <= At(lo, r) /\ At(lo, r) < EndAt(lo, hi, r)
                              /\ EndAt(lo, hi, r) <= hi /\ EndAt(lo, hi, r) <= At(lo, r) + Width
         /\ \A r, s \in 1 .. n : r < s => EndAt(lo, hi, r) <= At(lo, s)
         /\ \A k \in lo .. hi - 1 : \E r \in 1 .. n : At(lo, r) <= k /\ k < EndAt(lo, hi, r)
         /\ At(lo, 1) = lo
<1> DEFINE d == hi - lo
           n == RowCount(d, Width)
           off(r) == Width * (r - 1)
<1>1. d \in Nat \ {0} /\ Width \in Nat \ {0}
  BY ListingAssumption
<1>2. /\ n \in Nat \ {0}
      /\ \A r \in 1 .. n : off(r) \in Nat /\ off(r) < d
      /\ \A r, s \in 1 .. n : r < s => off(r) + Width <= off(s)
      /\ \A k \in 0 .. d - 1 : \E r \in 1 .. n : off(r) <= k /\ k < off(r) + Width
  <2> HIDE DEF d
  <2>1. QED
    BY <1>1, RowsEnough
<1>3. \A r : At(lo, r) = lo + off(r)
  BY DEF At
<1>4. off(1) = 0
  BY <1>1
<1> HIDE DEF n, off
<1>5. ASSUME NEW r \in 1 .. n
      PROVE  /\ At(lo, r) \in Nat /\ EndAt(lo, hi, r) \in Nat
             /\ lo <= At(lo, r) /\ At(lo, r) < EndAt(lo, hi, r)
             /\ EndAt(lo, hi, r) <= hi /\ EndAt(lo, hi, r) <= At(lo, r) + Width
  <2>1. off(r) \in Nat /\ off(r) < d
    BY <1>2
  <2>2. QED
    BY <1>1, <1>3, <2>1 DEF EndAt, Least
<1>6. ASSUME NEW r \in 1 .. n, NEW s \in 1 .. n, r < s PROVE EndAt(lo, hi, r) <= At(lo, s)
  <2>1. off(r) \in Nat /\ off(s) \in Nat /\ off(r) + Width <= off(s)
    BY <1>2, <1>6
  <2>2. At(lo, r) + Width <= At(lo, s) /\ At(lo, r) \in Nat /\ At(lo, s) \in Nat
    BY <1>1, <1>3, <2>1
  <2>3. EndAt(lo, hi, r) \in Nat /\ EndAt(lo, hi, r) <= At(lo, r) + Width
    BY <1>5
  <2>4. QED
    BY <1>1, <2>2, <2>3
<1>7. ASSUME NEW k \in lo .. hi - 1 PROVE \E r \in 1 .. n : At(lo, r) <= k /\ k < EndAt(lo, hi, r)
  <2>1. k - lo \in 0 .. d - 1
    OBVIOUS
  <2>2. PICK r \in 1 .. n : off(r) <= k - lo /\ k - lo < off(r) + Width
    BY <1>2, <2>1
  <2>3. off(r) \in Nat
    BY <1>2
  <2>4. At(lo, r) <= k /\ k < At(lo, r) + Width /\ k < hi
    BY <1>1, <1>3, <2>2, <2>3
  <2>5. k < EndAt(lo, hi, r)
    BY <2>4 DEF EndAt, Least
  <2>6. QED
    BY <2>4, <2>5
<1>8. At(lo, 1) = lo
  BY <1>3, <1>4
<1>9. 1 \in 1 .. n
  BY <1>2
<1>10. QED
  BY <1>2, <1>5, <1>6, <1>7, <1>8, <1>9 DEF n

\* _rows makes these rows.
LEMMA RowsShape ==
  ASSUME ListedOK, NEW data, DataOK(data), NEW lo \in Nat, NEW hi \in Nat, lo < hi, hi <= Len(data)
  PROVE  LET rs == Rows(data, lo, hi)
             n == RowCount(hi - lo, Width)
         IN  /\ rs \in Seq(Entries) /\ Len(rs) = n
             /\ \A r \in 1 .. n : RowIs(rs[r], data, lo, hi, r)
<1> DEFINE n == RowCount(hi - lo, Width)
           rs == Rows(data, lo, hi)
           a(r) == At(lo, r)
           e(r) == EndAt(lo, hi, r)
           notes(r) == {p \in listed.patches : IF IsInsn(lo, hi) THEN r = 1 /\ p.off \in lo .. hi - 1
                                               ELSE p.off = a(r)}
           bytes(r) == SubSeq(data, a(r) + 1, e(r))
           row(r) == [kind |-> "row", address |-> Start + a(r), bytes |-> bytes(r),
                      insn |-> IsInsn(lo, hi) /\ r = 1, notes |-> notes(r)]
<1>1. n \in Nat /\ \A r \in 1 .. n : a(r) \in Nat /\ e(r) \in Nat /\ lo <= a(r) /\ a(r) < e(r) /\ e(r) <= hi
  BY RowSpans
<1>2. rs = [r \in 1 .. n |-> row(r)]
  BY DEF Rows, At, EndAt, IsInsn, RowCount
<1>3. Start \in Int
  BY ListingAssumption DEF Start
<1> HIDE DEF n, rs, a, e
<1>4. ASSUME NEW r \in 1 .. n
      PROVE  /\ bytes(r) \in Seq(Octets) /\ Len(bytes(r)) = e(r) - a(r)
             /\ DOMAIN bytes(r) = 1 .. Len(bytes(r))
             /\ \A b \in 1 .. Len(bytes(r)) : bytes(r)[b] = data[a(r) + b]
  <2> DEFINE m == a(r) + 1
             k == e(r)
  <2>1. m \in Int /\ k \in Int /\ m <= k /\ 1 <= m /\ k <= Len(data) /\ Len(data) \in Nat
    BY <1>1 DEF DataOK
  <2>2. \A i \in m .. k : data[i] \in Octets
    <3>1. \A i \in m .. k : i \in 1 .. Len(data)
      BY <2>1
    <3>2. QED
      BY <3>1 DEF DataOK
  <2>3. /\ bytes(r) \in Seq(Octets)
        /\ Len(bytes(r)) = k - m + 1
        /\ \A i \in 1 .. k - m + 1 : bytes(r)[i] = data[m + i - 1]
    <3> HIDE DEF m, k, Octets
    <3>1. bytes(r) = SubSeq(data, m, k)
      BY DEF m, k
    <3> HIDE DEF bytes
    <3>2. QED
      BY <2>1, <2>2, <3>1, SubSeqProperties
  <2>4. k - m + 1 = e(r) - a(r) /\ \A i \in Int : m + i - 1 = a(r) + i
    BY <1>1
  <2>5. DOMAIN bytes(r) = 1 .. Len(bytes(r))
    <3> HIDE DEF bytes
    <3>1. QED
      BY <2>3, LenProperties
  <2>6. \A i \in 1 .. k - m + 1 : i \in Int
    OBVIOUS
  <2> HIDE DEF m, k, bytes
  <2>7. QED
    BY <2>3, <2>4, <2>5, <2>6
<1> HIDE DEF bytes, notes
<1>5. ASSUME NEW r \in 1 .. n PROVE row(r) \in Entries
  <2>1. bytes(r) \in Seq(Octets)
    BY <1>4
  <2>2. notes(r) \in SUBSET listed.patches
    BY DEF notes
  <2>3. Start + a(r) \in Int
    BY <1>1, <1>3
  <2> DEFINE SO == Seq(Octets)
  <2> HIDE DEF SO
  <2>4. QED
    BY <2>1, <2>2, <2>3 DEF Entries, SO
<1>6. ASSUME NEW r \in 1 .. n PROVE RowIs(row(r), data, lo, hi, r)
  BY <1>4 DEF RowIs, notes, a, e
<1> HIDE DEF row
<1>7. rs \in [1 .. n -> Entries]
  BY <1>2, <1>5
<1>8. rs \in Seq(Entries) /\ Len(rs) = n
  BY <1>1, <1>7, FunctionIsSequence
<1>9. \A r \in 1 .. n : RowIs(rs[r], data, lo, hi, r)
  BY <1>2, <1>6
<1>10. QED
  BY <1>8, <1>9 DEF rs, n

\* The lines of boundary k of b: its label, then the rows up to the next.
Lab(b, k) == IF b[k] \in listed.labels THEN 1 ELSE 0
RowsIn(b, k) == IF k = Len(b) THEN 0 ELSE RowCount(b[k + 1] - b[k], Width)
RowAt(b, off, k, r) == off[k - 1] + Lab(b, k) + r

\* The lines are laid out so, those of boundary k behind line off[k - 1].
Laid(data, b, off) ==
  /\ off \in [0 .. Len(b) -> Nat] /\ off[0] = 0
  /\ DOMAIN lines = 1 .. off[Len(b)] /\ Len(lines) = off[Len(b)]
  /\ \A k \in 1 .. Len(b) : off[k] = off[k - 1] + (Lab(b, k) + RowsIn(b, k))
  /\ \A k \in 1 .. Len(b) : b[k] \in listed.labels => lines[off[k - 1] + 1] = LabelLine(b[k])
  /\ \A k \in 1 .. Len(b) : \A r \in 1 .. RowsIn(b, k) :
       RowIs(lines[RowAt(b, off, k, r)], data, b[k], b[k + 1], r)
  /\ \A j \in DOMAIN lines : \E k \in 1 .. Len(b) :
       \/ b[k] \in listed.labels /\ j = off[k - 1] + 1
       \/ \E r \in 1 .. RowsIn(b, k) : j = RowAt(b, off, k, r)

\* Boundaries are numbers up to n, in order.
Steps(b, n) ==
  /\ Len(b) \in Nat /\ DOMAIN b = 1 .. Len(b)
  /\ \A k \in 1 .. Len(b) : b[k] \in Nat /\ b[k] <= n
  /\ \A k \in 1 .. Len(b) : k # Len(b) => k + 1 \in 1 .. Len(b) /\ b[k] < b[k + 1]
  /\ \A k, l \in 1 .. Len(b) : k < l => b[k] < b[l]

\* bounds are such numbers.
LEMMA BoundsStep ==
  ASSUME ListedOK, NEW n \in Nat
  PROVE  Steps(Bounds(n), n)
<1> DEFINE b == Bounds(n)
           m == Len(b)
<1>1. CutSet(n) \subseteq 0 .. n /\ Rising(b, CutSet(n))
  BY Boundaries
<1> HIDE DEF b
<1>2. m \in Nat /\ DOMAIN b = 1 .. m /\ \A k \in 1 .. m : b[k] \in 0 .. n
  BY <1>1 DEF Rising
<1>3. \A k, l \in 1 .. m : k < l => b[k] < b[l]
  BY <1>1 DEF Rising
<1> HIDE DEF m
<1>4. \A k \in 1 .. m : k # m => k + 1 \in 1 .. m /\ k < k + 1
  BY <1>2
<1>5. \A k \in 1 .. m : k # m => k + 1 \in 1 .. m /\ b[k] < b[k + 1]
  BY <1>3, <1>4
<1>6. \A k \in 1 .. m : b[k] \in Nat /\ b[k] <= n
  BY <1>2
<1>7. Steps(b, n)
  BY <1>2, <1>3, <1>5, <1>6 DEF Steps, m
<1>8. QED
  BY <1>7 DEF b

\* The lines of one boundary.
LEMMA ChunkShape ==
  ASSUME ListedOK, NEW data, DataOK(data), NEW b, Steps(b, Len(data)), NEW k \in 1 .. Len(b)
  PROVE  LET c == Chunk(data, b, k) IN
         /\ Lab(b, k) \in {0, 1} /\ RowsIn(b, k) \in Nat
         /\ c \in Seq(Entries) /\ Len(c) = Lab(b, k) + RowsIn(b, k)
         /\ b[k] \in listed.labels => Lab(b, k) = 1 /\ c[1] = LabelLine(b[k])
         /\ \A r \in 1 .. RowsIn(b, k) : /\ Lab(b, k) + r \in 1 .. Lab(b, k) + RowsIn(b, k)
                                         /\ RowIs(c[Lab(b, k) + r], data, b[k], b[k + 1], r)
         /\ \A i \in 1 .. Lab(b, k) + RowsIn(b, k) :
              \/ b[k] \in listed.labels /\ i = 1
              \/ \E r \in 1 .. RowsIn(b, k) : i = Lab(b, k) + r
<1> DEFINE head == IF b[k] \in listed.labels THEN <<LabelLine(b[k])>> ELSE <<>>
           rest == IF k = Len(b) THEN <<>> ELSE Rows(data, b[k], b[k + 1])
           c == Chunk(data, b, k)
           l == Lab(b, k)
           n == RowsIn(b, k)
<1>1. b[k] \in Nat /\ Len(b) \in Nat /\ Len(data) \in Nat
  BY DEF Steps, DataOK
<1>2. l \in {0, 1} /\ (b[k] \in listed.labels <=> l = 1)
  BY DEF Lab
<1>3. head \in Seq(Entries) /\ Len(head) = l /\ (l = 1 => head[1] = LabelLine(b[k]))
  <2>1. LabelLine(b[k]) \in Entries
    <3>1. Start + b[k] \in Int
      BY <1>1, ListingAssumption DEF Start
    <3> DEFINE SO == Seq(Octets)
    <3> HIDE DEF SO
    <3>2. QED
      BY <3>1 DEF LabelLine, Entries, SO
  <2> DEFINE x == LabelLine(b[k])
  <2> HIDE DEF x
  <2>2. <<x>> \in Seq(Entries) /\ Len(<<x>>) = 1 /\ <<x>>[1] = x
    BY <2>1 DEF x
  <2>3. <<>> \in Seq(Entries) /\ Len(<<>>) = 0
    OBVIOUS
  <2>4. CASE l = 1
    BY <1>2, <2>2, <2>4 DEF x
  <2>5. CASE l = 0
    BY <1>2, <2>3, <2>5
  <2>6. QED
    BY <1>2, <2>4, <2>5
<1>4. /\ n \in Nat /\ rest \in Seq(Entries) /\ Len(rest) = n
      /\ \A r \in 1 .. n : RowIs(rest[r], data, b[k], b[k + 1], r)
  <2>1. CASE k = Len(b)
    <3>1. n = 0 /\ rest = <<>>
      BY <2>1 DEF RowsIn
    <3>2. <<>> \in Seq(Entries) /\ Len(<<>>) = 0
      OBVIOUS
    <3> HIDE DEF n, rest
    <3>3. QED
      BY <3>1, <3>2
  <2>2. CASE k # Len(b)
    <3>1. k + 1 \in 1 .. Len(b) /\ b[k] < b[k + 1]
      BY <2>2 DEF Steps
    <3>2. b[k + 1] \in Nat /\ b[k + 1] <= Len(data)
      BY <3>1 DEF Steps
    <3>3. n = RowCount(b[k + 1] - b[k], Width) /\ rest = Rows(data, b[k], b[k + 1])
      BY <2>2 DEF RowsIn
    <3>4. n \in Nat
      BY <1>1, <3>1, <3>2, <3>3, RowSpans
    <3> HIDE DEF n, rest
    <3>5. QED
      BY <1>1, <3>1, <3>2, <3>3, <3>4, RowsShape
  <2>3. QED
    BY <2>1, <2>2
<1>5. c = head \o rest
  BY DEF Chunk
<1> HIDE DEF c, head, rest, l, n
<1>6. /\ c \in Seq(Entries) /\ Len(c) = l + n
      /\ \A i \in 1 .. l + n : c[i] = IF i <= l THEN head[i] ELSE rest[i - l]
  BY <1>3, <1>4, <1>5, ConcatProperties
<1>7. l = 1 => c[1] = LabelLine(b[k])
  <2>1. l = 1 => 1 \in 1 .. l + n /\ 1 <= l
    BY <1>4
  <2>2. QED
    BY <1>3, <1>6, <2>1
<1>8. ASSUME NEW r \in 1 .. n PROVE l + r \in 1 .. l + n /\ c[l + r] = rest[r]
  <2>1. l + r \in 1 .. l + n /\ ~ (l + r <= l) /\ (l + r) - l = r
    BY <1>2, <1>4
  <2>2. QED
    BY <1>6, <2>1
<1>9. ASSUME NEW i \in 1 .. l + n PROVE (l = 1 /\ i = 1) \/ \E r \in 1 .. n : i = l + r
  <2>1. CASE l = 1 /\ i = 1
    BY <2>1
  <2>2. CASE ~ (l = 1 /\ i = 1)
    <3>1. i - l \in 1 .. n /\ i = l + (i - l)
      BY <1>2, <1>4, <2>2
    <3>2. QED
      BY <3>1
  <2>3. QED
    BY <2>1, <2>2
<1>10. QED
  BY <1>2, <1>4, <1>6, <1>7, <1>8, <1>9 DEF c, l, n

\* listing() lays the lines out so.
LEMMA LinesLaid ==
  ASSUME ListedOK, NEW data, DataOK(data), lines = Listing(data)
  PROVE  \E off : Laid(data, Bounds(Len(data)), off)
<1> DEFINE b == Bounds(Len(data))
           m == Len(b)
           ss == [k \in 1 .. m |-> Chunk(data, b, k)]
           SE == Seq(Entries)
<1>1. Len(data) \in Nat
  BY DEF DataOK
<1>2. Steps(b, Len(data))
  BY <1>1, BoundsStep
<1>3. lines = FlattenSeq(ss)
  <2>1. DOMAIN b = 1 .. m
    BY <1>2 DEF Steps
  <2>2. QED
    BY <2>1 DEF Listing
<1> HIDE DEF b
<1>4. m \in Nat
  BY <1>2 DEF Steps
<1>5. ASSUME NEW k \in 1 .. m
      PROVE  LET c == Chunk(data, b, k) IN
             /\ Lab(b, k) \in {0, 1} /\ RowsIn(b, k) \in Nat
             /\ c \in SE /\ Len(c) = Lab(b, k) + RowsIn(b, k)
             /\ b[k] \in listed.labels => Lab(b, k) = 1 /\ c[1] = LabelLine(b[k])
             /\ \A r \in 1 .. RowsIn(b, k) : /\ Lab(b, k) + r \in 1 .. Lab(b, k) + RowsIn(b, k)
                                             /\ RowIs(c[Lab(b, k) + r], data, b[k], b[k + 1], r)
             /\ \A i \in 1 .. Lab(b, k) + RowsIn(b, k) :
                  \/ b[k] \in listed.labels /\ i = 1
                  \/ \E r \in 1 .. RowsIn(b, k) : i = Lab(b, k) + r
  BY <1>2, ChunkShape
<1> HIDE DEF SE, m
<1>6. ss \in Seq(SE) /\ Len(ss) = m
  <2>1. ss \in [1 .. m -> SE]
    BY <1>5
  <2> HIDE DEF ss
  <2>2. QED
    BY <1>4, <2>1, FunctionIsSequence
<1>7. \A k \in 1 .. m : ss[k] = Chunk(data, b, k)
  OBVIOUS
<1> HIDE DEF ss
<1>8. ss \in Seq(Seq(Entries))
  BY <1>6 DEF SE
<1>9. PICK off : lines \in Seq(Entries) /\ Joined(ss, off, lines)
  BY <1>3, <1>8, FlattenJoins
<1>10. /\ off \in [0 .. m -> Nat] /\ off[0] = 0 /\ Len(lines) = off[m]
       /\ \A k \in 1 .. m : off[k] = off[k - 1] + (Lab(b, k) + RowsIn(b, k))
  <2>1. /\ off \in [0 .. m -> Nat] /\ off[0] = 0 /\ Len(lines) = off[m]
        /\ \A k \in 1 .. m : off[k] = off[k - 1] + Len(ss[k])
    BY <1>6, <1>9 DEF Joined
  <2>2. \A k \in 1 .. m : Len(ss[k]) = Lab(b, k) + RowsIn(b, k)
    BY <1>5, <1>7
  <2>3. QED
    BY <2>1, <2>2
<1>11. DOMAIN lines = 1 .. off[m]
  BY <1>9, <1>10, LenProperties
<1>12. \A k \in 1 .. m : \A i \in 1 .. Lab(b, k) + RowsIn(b, k) : lines[off[k - 1] + i] = Chunk(data, b, k)[i]
  BY <1>5, <1>6, <1>7, <1>9 DEF Joined
<1>13. ASSUME NEW k \in 1 .. m, b[k] \in listed.labels PROVE lines[off[k - 1] + 1] = LabelLine(b[k])
  <2>1. Lab(b, k) = 1 /\ RowsIn(b, k) \in Nat /\ Chunk(data, b, k)[1] = LabelLine(b[k])
    BY <1>5, <1>13
  <2>2. 1 \in 1 .. Lab(b, k) + RowsIn(b, k)
    BY <2>1
  <2>3. QED
    BY <1>12, <2>1, <2>2
<1>14. ASSUME NEW k \in 1 .. m, NEW r \in 1 .. RowsIn(b, k)
       PROVE  RowIs(lines[RowAt(b, off, k, r)], data, b[k], b[k + 1], r)
  <2>1. /\ Lab(b, k) + r \in 1 .. Lab(b, k) + RowsIn(b, k)
        /\ RowIs(Chunk(data, b, k)[Lab(b, k) + r], data, b[k], b[k + 1], r)
    BY <1>5
  <2>2. lines[off[k - 1] + (Lab(b, k) + r)] = Chunk(data, b, k)[Lab(b, k) + r]
    BY <1>12, <2>1
  <2>3. RowAt(b, off, k, r) = off[k - 1] + (Lab(b, k) + r)
    <3>1. k - 1 \in 0 .. m
      BY <1>4
    <3>2. off[k - 1] \in Nat
      BY <1>10, <3>1
    <3>3. Lab(b, k) \in {0, 1} /\ RowsIn(b, k) \in Nat
      BY <1>5
    <3>4. QED
      BY <3>2, <3>3 DEF RowAt
  <2>4. QED
    BY <2>1, <2>2, <2>3
<1>15. ASSUME NEW j \in DOMAIN lines
       PROVE  \E k \in 1 .. m : \/ b[k] \in listed.labels /\ j = off[k - 1] + 1
                                \/ \E r \in 1 .. RowsIn(b, k) : j = RowAt(b, off, k, r)
  <2>1. j \in 1 .. Len(lines)
    BY <1>10, <1>11
  <2>2. PICK k \in 1 .. m : \E i \in 1 .. Len(ss[k]) : j = off[k - 1] + i
    <3>1. Joined(ss, off, lines)
      BY <1>9
    <3>2. InPiece(ss, off, j)
      BY <1>8, <2>1, <3>1, PieceOfPosition
    <3>3. QED
      BY <1>6, <3>2 DEF InPiece
  <2>3. PICK i \in 1 .. Lab(b, k) + RowsIn(b, k) : j = off[k - 1] + i
    BY <1>5, <1>7, <2>2
  <2>4. \/ b[k] \in listed.labels /\ i = 1
        \/ \E r \in 1 .. RowsIn(b, k) : i = Lab(b, k) + r
    BY <1>5
  <2>5. CASE b[k] \in listed.labels /\ i = 1
    BY <2>3, <2>5
  <2>6. CASE \E r \in 1 .. RowsIn(b, k) : i = Lab(b, k) + r
    <3>1. PICK r \in 1 .. RowsIn(b, k) : i = Lab(b, k) + r
      BY <2>6
    <3>2. k - 1 \in 0 .. m
      BY <1>4
    <3>3. off[k - 1] \in Nat
      BY <1>10, <3>2
    <3>4. Lab(b, k) \in {0, 1} /\ RowsIn(b, k) \in Nat
      BY <1>5
    <3>5. j = RowAt(b, off, k, r)
      BY <2>3, <3>1, <3>3, <3>4 DEF RowAt
    <3>6. QED
      BY <3>5
  <2>7. QED
    BY <2>4, <2>5, <2>6
<1>16. QED
  BY <1>10, <1>11, <1>13, <1>14, <1>15 DEF Laid, m, b

\* Line j is row r of boundary k.
Place(b, off, j, k, r) == k \in 1 .. Len(b) /\ r \in 1 .. RowsIn(b, k) /\ j = RowAt(b, off, k, r)

\* What is known of lines laid out.
Layout(data, b, off) ==
  /\ ListedOK /\ DataOK(data) /\ Steps(b, Len(data)) /\ Laid(data, b, off)

\* Lines of a later boundary come later.
LEMMA LinesGrow ==
  ASSUME NEW data, NEW b, NEW off, Layout(data, b, off)
  PROVE  /\ \A k \in 1 .. Len(b) : /\ k - 1 \in 0 .. Len(b) /\ off[k - 1] \in Nat /\ off[k] \in Nat
                                   /\ Lab(b, k) \in {0, 1} /\ RowsIn(b, k) \in Nat
                                   /\ off[k] = off[k - 1] + (Lab(b, k) + RowsIn(b, k))
                                   /\ off[k] <= off[Len(b)]
         /\ \A k, l \in 1 .. Len(b) : k < l => off[k] <= off[l - 1]
<1> DEFINE m == Len(b)
<1>1. m \in Nat /\ Len(data) \in Nat
  BY DEF Layout, Steps, DataOK
<1>2. \A k \in 1 .. m : Lab(b, k) \in {0, 1} /\ RowsIn(b, k) \in Nat
  BY ChunkShape DEF Layout
<1>3. off \in [0 .. m -> Nat] /\ \A k \in 1 .. m : off[k] = off[k - 1] + (Lab(b, k) + RowsIn(b, k))
  BY DEF Layout, Laid
<1> HIDE DEF m
<1>4. \A k \in 1 .. m : k - 1 \in 0 .. m /\ k \in 0 .. m /\ m \in k .. m
  BY <1>1
<1>5. \A k \in 1 .. m : off[k - 1] \in Nat /\ off[k] \in Nat
  BY <1>3, <1>4
<1>6. \A k \in 1 .. m : off[k - 1] <= off[k]
  <2> SUFFICES ASSUME NEW k \in 1 .. m PROVE off[k - 1] <= off[k]
    OBVIOUS
  <2> DEFINE x == Lab(b, k)
             y == RowsIn(b, k)
             p == off[k - 1]
  <2>1. x \in {0, 1} /\ y \in Nat /\ p \in Nat /\ off[k] = p + (x + y)
    BY <1>2, <1>3, <1>5
  <2> HIDE DEF x, y, p
  <2>2. p <= off[k]
    BY <2>1
  <2>3. QED
    BY <2>2 DEF p
<1>7. \A k \in 1 .. m : off[k] <= off[m]
  BY <1>1, <1>3, <1>4, <1>6, SumsGrow
<1>8. ASSUME NEW k \in 1 .. m, NEW l \in 1 .. m, k < l PROVE off[k] <= off[l - 1]
  <2>1. k \in 0 .. m /\ l - 1 \in k .. m
    BY <1>1, <1>8
  <2>2. QED
    BY <1>1, <1>3, <1>6, <2>1, SumsGrow
<1>9. QED
  BY <1>2, <1>3, <1>4, <1>5, <1>7, <1>8 DEF m

\* A row stands where its place says, and shows bytes between two boundaries.
LEMMA PlaceIsRow ==
  ASSUME NEW data, NEW b, NEW off, Layout(data, b, off), NEW j, NEW k, NEW r, Place(b, off, j, k, r)
  PROVE  /\ j \in RowLines /\ j \in Nat
         /\ k # Len(b) /\ k + 1 \in 1 .. Len(b)
         /\ b[k] \in Nat /\ b[k + 1] \in Nat /\ b[k] < b[k + 1] /\ b[k + 1] <= Len(data)
         /\ r \in 1 .. RowCount(b[k + 1] - b[k], Width)
         /\ RowIs(lines[j], data, b[k], b[k + 1], r)
         /\ First(j) = At(b[k], r) /\ Behind(j) = EndAt(b[k], b[k + 1], r)
         /\ First(j) \in Nat /\ Behind(j) \in Nat
         /\ b[k] <= First(j) /\ First(j) < Behind(j) /\ Behind(j) <= b[k + 1] /\ Behind(j) <= First(j) + Width
         /\ off[k - 1] < j /\ j <= off[k]
<1> DEFINE x == Lab(b, k)
           y == RowsIn(b, k)
           p == off[k - 1]
           m == Len(b)
<1>1. k \in 1 .. m /\ r \in 1 .. y /\ j = p + x + r
  BY DEF Place, RowAt
<1>2. p \in Nat /\ off[k] \in Nat /\ x \in {0, 1} /\ y \in Nat /\ off[k] = p + (x + y) /\ off[k] <= off[m]
      /\ off[m] \in Nat
  <2>1. p \in Nat /\ off[k] \in Nat /\ x \in {0, 1} /\ y \in Nat /\ off[k] = p + (x + y) /\ off[k] <= off[m]
    BY <1>1, LinesGrow
  <2>2. m \in Nat /\ off \in [0 .. m -> Nat]
    BY DEF Layout, Laid, Steps
  <2> HIDE DEF m
  <2>3. m \in 0 .. m
    BY <2>2
  <2>4. QED
    BY <2>1, <2>2, <2>3
<1>3. k # m
  <2>1. k = m => y = 0
    BY DEF RowsIn
  <2>2. y # 0
    BY <1>1
  <2>3. QED
    BY <2>1, <2>2
<1>4. k + 1 \in 1 .. m /\ b[k] < b[k + 1] /\ b[k] \in Nat
  BY <1>1, <1>3 DEF Layout, Steps
<1>5. b[k + 1] \in Nat /\ b[k + 1] <= Len(data)
  BY <1>4 DEF Layout, Steps
<1>6. y = RowCount(b[k + 1] - b[k], Width)
  BY <1>3 DEF RowsIn
<1>7. RowIs(lines[j], data, b[k], b[k + 1], r)
  BY <1>1 DEF Layout, Laid, RowAt
<1>8. p < j /\ j <= off[k] /\ j \in 1 .. off[m] /\ j \in Nat
  <2> HIDE DEF x, y, p, m
  <2>1. QED
    BY <1>1, <1>2
<1>9. j \in RowLines
  BY <1>7, <1>8 DEF RowLines, Layout, Laid, RowIs
<1>10. /\ At(b[k], r) \in Nat /\ EndAt(b[k], b[k + 1], r) \in Nat
       /\ b[k] <= At(b[k], r) /\ At(b[k], r) < EndAt(b[k], b[k + 1], r)
       /\ EndAt(b[k], b[k + 1], r) <= b[k + 1] /\ EndAt(b[k], b[k + 1], r) <= At(b[k], r) + Width
  BY <1>1, <1>4, <1>5, <1>6, RowSpans
<1>11. First(j) = At(b[k], r)
  <2>1. Start \in Int /\ lines[j].address = Start + At(b[k], r)
    BY <1>7, ListingAssumption DEF Start, RowIs
  <2>2. QED
    BY <1>10, <2>1 DEF First
<1>12. Behind(j) = EndAt(b[k], b[k + 1], r)
  <2>1. Len(lines[j].bytes) = EndAt(b[k], b[k + 1], r) - At(b[k], r)
    BY <1>7 DEF RowIs
  <2>2. QED
    BY <1>10, <1>11, <2>1 DEF Behind
<1>13. QED
  BY <1>1, <1>3, <1>4, <1>5, <1>6, <1>7, <1>8, <1>9, <1>10, <1>11, <1>12

\* Every row has a place.
LEMMA RowPlaced ==
  ASSUME NEW data, NEW b, NEW off, Layout(data, b, off), NEW j \in RowLines
  PROVE  \E k, r : Place(b, off, j, k, r)
<1>1. j \in DOMAIN lines /\ lines[j].kind = "row"
  BY DEF RowLines
<1>2. PICK k \in 1 .. Len(b) : \/ b[k] \in listed.labels /\ j = off[k - 1] + 1
                               \/ \E r \in 1 .. RowsIn(b, k) : j = RowAt(b, off, k, r)
  BY <1>1 DEF Layout, Laid
<1>3. ~ (b[k] \in listed.labels /\ j = off[k - 1] + 1)
  <2>1. SUFFICES ASSUME b[k] \in listed.labels, j = off[k - 1] + 1 PROVE FALSE
    OBVIOUS
  <2>2. lines[j] = LabelLine(b[k])
    BY <2>1 DEF Layout, Laid
  <2>3. QED
    BY <1>1, <2>2 DEF LabelLine
<1>4. QED
  BY <1>2, <1>3 DEF Place

\* Rows are in the order of what they show.
LEMMA RowsInOrder ==
  ASSUME NEW data, NEW b, NEW off, Layout(data, b, off), NEW i \in RowLines, NEW j \in RowLines, i < j
  PROVE  Behind(i) <= First(j)
<1>1. PICK k, r : Place(b, off, i, k, r)
  BY RowPlaced
<1>2. PICK l, s : Place(b, off, j, l, s)
  BY RowPlaced
<1> DEFINE P(x, c, t) ==
             /\ x \in Nat /\ c + 1 \in 1 .. Len(b) /\ b[c] \in Nat /\ b[c + 1] \in Nat
             /\ b[c] < b[c + 1] /\ t \in 1 .. RowCount(b[c + 1] - b[c], Width)
             /\ First(x) = At(b[c], t) /\ Behind(x) = EndAt(b[c], b[c + 1], t)
             /\ First(x) \in Nat /\ Behind(x) \in Nat /\ b[c] <= First(x) /\ Behind(x) <= b[c + 1]
             /\ off[c - 1] < x /\ x <= off[c]
<1>3. P(i, k, r) /\ P(j, l, s)
  BY <1>1, <1>2, PlaceIsRow
<1>4. k \in 1 .. Len(b) /\ l \in 1 .. Len(b) /\ Len(b) \in Nat
  BY <1>1, <1>2 DEF Place, Layout, Steps
<1>5. CASE k < l
  <2>1. k + 1 = l \/ k + 1 < l
    BY <1>4, <1>5
  <2>2. b[k + 1] <= b[l]
    <3> DEFINE x == b[k + 1]
               y == b[l]
    <3>1. x \in Nat /\ y \in Nat
      BY <1>3
    <3>2. CASE k + 1 = l
      <4>1. x = y
        BY <3>2
      <4> HIDE DEF x, y
      <4>2. x <= y
        BY <3>1, <4>1
      <4>3. QED
        BY <4>2 DEF x, y
    <3>3. CASE k + 1 < l
      <4>1. b[k + 1] < b[l]
        BY <1>3, <1>4, <3>3 DEF Layout, Steps
      <4>2. x <= y
        BY <3>1, <4>1 DEF x, y
      <4>3. QED
        BY <4>2 DEF x, y
    <3>4. QED
      BY <2>1, <3>2, <3>3
  <2>3. /\ Behind(i) \in Nat /\ First(j) \in Nat /\ b[k + 1] \in Nat /\ b[l] \in Nat
        /\ Behind(i) <= b[k + 1] /\ b[l] <= First(j)
    BY <1>3
  <2> HIDE DEF P
  <2>4. QED
    BY <2>2, <2>3
<1>6. CASE k = l
  <2>1. RowAt(b, off, k, r) = i /\ RowAt(b, off, k, s) = j
    BY <1>1, <1>2, <1>6 DEF Place
  <2>2. off[k - 1] \in Nat /\ Lab(b, k) \in {0, 1} /\ r \in Int /\ s \in Int
    BY <1>3, <1>4, LinesGrow
  <2>3. r < s
    BY <2>1, <2>2 DEF RowAt
  <2>4. EndAt(b[k], b[k + 1], r) <= At(b[k], s)
    BY <1>3, <1>6, <2>3, RowSpans
  <2>5. QED
    BY <1>3, <1>6, <2>4
<1>7. CASE l < k
  <2>1. off[l] <= off[k - 1] /\ off[l] \in Nat /\ off[k - 1] \in Nat
    BY <1>4, <1>7, LinesGrow
  <2>2. j <= off[l] /\ off[k - 1] < i /\ i \in Nat /\ j \in Nat
    BY <1>3
  <2>3. FALSE
    BY <2>1, <2>2
  <2>4. QED
    BY <2>3
<1>8. QED
  BY <1>4, <1>5, <1>6, <1>7

\* What is before the last boundary is between two.
LEMMA BetweenBoundaries ==
  ASSUME NEW n \in Nat, NEW b, Steps(b, n), NEW o \in Nat, o < n,
         \E k \in 1 .. Len(b) : b[k] = 0, \E k \in 1 .. Len(b) : b[k] = n
  PROVE  \E k \in 1 .. Len(b) : k # Len(b) /\ b[k] <= o /\ o < b[k + 1]
<1> DEFINE m == Len(b)
<1>1. /\ m \in Nat
      /\ \A k \in 1 .. m : b[k] \in Nat /\ b[k] <= n
      /\ \A k \in 1 .. m : k # m => k + 1 \in 1 .. m
      /\ \A k, l \in 1 .. m : k < l => b[k] < b[l]
  BY DEF Steps
<1> HIDE DEF m
<1>2. SUFFICES ASSUME \A k \in 1 .. m : k # m => ~ (b[k] <= o /\ o < b[k + 1]) PROVE FALSE
  BY DEF m
<1>3. 1 \in 1 .. m /\ b[1] <= o
  <2>1. PICK k \in 1 .. m : b[k] = 0
    BY DEF m
  <2>2. 1 \in 1 .. m /\ (k = 1 \/ 1 < k)
    BY <1>1
  <2>3. b[1] \in Nat /\ ~ (b[1] < 0)
    BY <1>1, <2>2
  <2>4. k = 1
    BY <1>1, <2>1, <2>2, <2>3
  <2>5. QED
    BY <2>1, <2>2, <2>4
<1> DEFINE T == {j \in Nat : j + 1 <= m => b[j + 1] <= o}
<1>4. 0 \in T
  BY <1>3
<1>5. ASSUME NEW j \in Nat, j \in T PROVE j + 1 \in T
  <2> SUFFICES ASSUME (j + 1) + 1 <= m PROVE b[(j + 1) + 1] <= o
    OBVIOUS
  <2>1. j + 1 \in 1 .. m /\ j + 1 # m /\ (j + 1) + 1 \in 1 .. m /\ b[j + 1] <= o
    BY <1>1, <1>5
  <2>2. ~ (o < b[(j + 1) + 1]) /\ b[(j + 1) + 1] \in Nat
    BY <1>1, <1>2, <2>1
  <2>3. QED
    BY <2>2
<1> HIDE DEF T
<1>6. \A j \in Nat : j \in T
  BY <1>4, <1>5, AllNumbers
<1>7. PICK k \in 1 .. m : b[k] = n
  BY DEF m
<1>8. k - 1 \in Nat /\ (k - 1) + 1 = k /\ k <= m
  BY <1>1
<1>9. b[k] <= o
  BY <1>6, <1>8 DEF T
<1>10. QED
  BY <1>7, <1>9

\* The boundaries of all of the section: what is not within an instruction.
LEMMA SectionCuts ==
  ASSUME ListedOK
  PROVE  LET C == CutSet(listed.size) IN
         /\ listed.size \in C /\ listed.labels \subseteq C
         /\ \A i \in listed.insns : i.first \in C /\ i.end \in C /\ \A c \in C : ~ (i.first < c /\ c < i.end)
         /\ \A p \in listed.patches : p.off \in C \/ \E i \in listed.insns : i.first < p.off /\ p.off < i.end
<1> DEFINE n == listed.size
           In(c) == \E i \in listed.insns : i.first < c /\ c < i.end
<1>1. /\ n \in Nat
      /\ \A i \in listed.insns : i.first \in Nat /\ i.end \in Nat /\ i.first < i.end /\ i.end <= n
      /\ \A i, j \in listed.insns : i # j => i.end <= j.first \/ j.end <= i.first
      /\ \A l \in listed.labels : l \in Nat /\ l <= n
      /\ \A i \in listed.insns : \A l \in listed.labels : l <= i.first \/ i.end <= l
      /\ \A p \in listed.patches : p.off \in Nat /\ p.size \in Nat \ {0} /\ p.off + p.size <= n
  BY DEF ListedOK
<1>2. ASSUME NEW c \in Nat PROVE c \in WithinInsns <=> In(c)
  <2>1. c \in WithinInsns <=> \E i \in listed.insns : c \in (i.first + 1) .. (i.end - 1)
    BY DEF WithinInsns
  <2>2. \A i \in listed.insns : c \in (i.first + 1) .. (i.end - 1) <=> i.first < c /\ c < i.end
    BY <1>1
  <2>3. QED
    BY <2>1, <2>2
<1>3. \A c \in Cuts(n) : c \in Nat /\ c <= n /\ ~ In(c) => c \in CutSet(n)
  BY <1>2 DEF CutSet
<1>4. \A c \in CutSet(n) : c \in Nat /\ ~ In(c)
  <2>1. CutSet(n) \subseteq 0 .. n
    BY <1>1, Boundaries
  <2>2. \A c \in CutSet(n) : c \in Nat /\ c \notin WithinInsns
    BY <1>1, <2>1 DEF CutSet
  <2>3. QED
    BY <1>2, <2>2
<1>5. /\ n \in Cuts(n) /\ listed.labels \subseteq Cuts(n)
      /\ \A i \in listed.insns : i.first \in Cuts(n) /\ i.end \in Cuts(n)
      /\ \A p \in listed.patches : p.off \in Cuts(n)
  BY DEF Cuts
<1>6. n \in CutSet(n)
  <2>1. \A i \in listed.insns : ~ (n < i.end)
    BY <1>1
  <2>2. n <= n
    BY <1>1
  <2>3. QED
    BY <1>1, <1>3, <1>5, <2>1, <2>2
<1>7. ASSUME NEW l \in listed.labels PROVE l \in CutSet(n)
  <2>1. \A i \in listed.insns : ~ (i.first < l /\ l < i.end)
    BY <1>1
  <2>2. QED
    BY <1>1, <1>3, <1>5, <2>1
<1>8. ASSUME NEW i \in listed.insns PROVE i.first \in CutSet(n) /\ i.end \in CutSet(n)
  <2>1. \A j \in listed.insns : ~ (j.first < i.first /\ i.first < j.end)
    BY <1>1
  <2>2. \A j \in listed.insns : ~ (j.first < i.end /\ i.end < j.end)
    BY <1>1
  <2>3. i.first \in Nat /\ i.end \in Nat /\ i.first <= n /\ i.end <= n
    BY <1>1
  <2>4. i.first \in Cuts(n) /\ i.end \in Cuts(n)
    BY <1>5
  <2>5. QED
    BY <1>3, <2>1, <2>2, <2>3, <2>4
<1>9. ASSUME NEW p \in listed.patches PROVE p.off \in CutSet(n) \/ In(p.off)
  <2>1. p.off \in Nat /\ p.off <= n
    BY <1>1
  <2>2. p.off \in Cuts(n)
    BY <1>5
  <2> HIDE DEF In
  <2>3. QED
    BY <1>3, <2>1, <2>2
<1>10. QED
  BY <1>4, <1>6, <1>7, <1>8, <1>9

\* Of the bytes between two boundaries no others are.
LEMMA BoundariesApart ==
  ASSUME NEW n, NEW b, Steps(b, n), NEW k \in 1 .. Len(b), NEW l \in 1 .. Len(b), k # Len(b), l # Len(b)
  PROVE  /\ k + 1 \in 1 .. Len(b) /\ b[k] \in Nat /\ b[k + 1] \in Nat /\ b[l] \in Nat /\ b[l + 1] \in Nat
         /\ b[k + 1] <= b[l] \/ l = k \/ b[l + 1] <= b[k]
<1>1. /\ Len(b) \in Nat
      /\ k + 1 \in 1 .. Len(b) /\ l + 1 \in 1 .. Len(b)
      /\ \A x \in 1 .. Len(b) : b[x] \in Nat
      /\ \A x, y \in 1 .. Len(b) : x < y => b[x] < b[y]
  BY DEF Steps
<1>2. \A x, y \in 1 .. Len(b) : x <= y => b[x] <= b[y]
  <2> SUFFICES ASSUME NEW x \in 1 .. Len(b), NEW y \in 1 .. Len(b), x <= y PROVE b[x] <= b[y]
    OBVIOUS
  <2>1. x < y \/ x = y
    BY <1>1
  <2>2. b[x] \in Nat /\ b[y] \in Nat
    BY <1>1
  <2>3. CASE x < y
    <3>1. b[x] < b[y]
      BY <1>1, <2>3
    <3>2. QED
      BY <2>2, <3>1
  <2>4. CASE x = y
    BY <2>2, <2>4
  <2>5. QED
    BY <2>1, <2>3, <2>4
<1>3. k + 1 <= l \/ l = k \/ l + 1 <= k
  BY <1>1
<1>4. b[k + 1] <= b[l] \/ l = k \/ b[l + 1] <= b[k]
  BY <1>1, <1>2, <1>3
<1>5. b[k] \in Nat /\ b[k + 1] \in Nat /\ b[l] \in Nat /\ b[l + 1] \in Nat
  BY <1>1
<1>6. QED
  BY <1>1, <1>4, <1>5

\* An instruction is between two boundaries that follow each other.
LEMMA InsnApart ==
  ASSUME ListedOK, NEW b, b = Bounds(listed.size), NEW i \in listed.insns
  PROVE  \E k \in 1 .. Len(b) : k # Len(b) /\ b[k] = i.first /\ b[k + 1] = i.end
<1>1. listed.size \in Nat /\ i.first \in Nat /\ i.end \in Nat /\ i.first < i.end
  BY DEF ListedOK
<1>2. Steps(b, listed.size) /\ Rising(b, CutSet(listed.size))
  BY <1>1, BoundsStep, Boundaries
<1>3. /\ i.first \in CutSet(listed.size) /\ i.end \in CutSet(listed.size)
      /\ \A c \in CutSet(listed.size) : ~ (i.first < c /\ c < i.end)
  BY SectionCuts
<1>4. PICK k \in 1 .. Len(b) : b[k] = i.first
  BY <1>2, <1>3 DEF Rising
<1>5. PICK l \in 1 .. Len(b) : b[l] = i.end
  BY <1>2, <1>3 DEF Rising
<1>6. k < l
  <2>1. l < k => b[l] < b[k]
    BY <1>2 DEF Steps
  <2>2. Len(b) \in Nat /\ k # l /\ ~ (l < k)
    <3>1. l # k
      BY <1>1, <1>4, <1>5
    <3>2. ~ (i.end < i.first)
      BY <1>1
    <3>3. QED
      BY <1>2, <1>4, <1>5, <2>1, <3>1, <3>2 DEF Steps
  <2>3. QED
    BY <2>2
<1>7. k # Len(b) /\ k + 1 \in 1 .. Len(b) /\ b[k] < b[k + 1]
  <2>1. k # Len(b)
    BY <1>6
  <2>2. QED
    BY <1>2, <2>1 DEF Steps
<1>8. b[k + 1] \in CutSet(listed.size)
  BY <1>2, <1>7 DEF Rising
<1>9. k + 1 = l
  <2>1. k + 1 < l => b[k + 1] < b[l]
    BY <1>2, <1>7 DEF Steps
  <2>2. ~ (k + 1 < l)
    BY <1>3, <1>4, <1>5, <1>7, <1>8, <2>1
  <2>3. QED
    BY <1>6, <2>2
<1>10. QED
  BY <1>4, <1>5, <1>7, <1>9

\* All of it holds of the lines listing() returns.
LEMMA LinesLaidOut ==
  ASSUME ListedOK, lines = Listing(Data)
  PROVE  /\ Len(Data) \in Nat /\ Len(Data) <= listed.size /\ (Fresh => Len(Data) = listed.size)
         /\ \E off : Layout(Data, Bounds(Len(Data)), off)
<1>1. DataOK(Data)
  BY DataShown
<1>2. Len(Data) \in Nat /\ Len(Data) <= listed.size /\ (Fresh => Len(Data) = listed.size)
  BY <1>1 DEF DataOK
<1>3. PICK off : Laid(Data, Bounds(Len(Data)), off)
  BY <1>1, LinesLaid
<1>4. Layout(Data, Bounds(Len(Data)), off)
  BY <1>1, <1>2, <1>3, BoundsStep DEF Layout
<1>5. QED
  BY <1>2, <1>4

\* Bytes: each row shows those at its address, and every byte is in a row.
LEMMA BytesInPlace ==
  ASSUME ListedOK, lines = Listing(Data)
  PROVE  BytesShown
<1> DEFINE data == Data
           n == Len(data)
           b == Bounds(n)
<1>1. n \in Nat /\ n <= listed.size /\ (Fresh => n = listed.size) /\ listed.size \in Nat
  BY LinesLaidOut DEF ListedOK
<1>2. PICK off : Layout(data, b, off)
  BY LinesLaidOut
<1>3. DataOK(data)
  BY DataShown
<1> HIDE DEF data
<1>4. ASSUME NEW j \in RowLines
      PROVE  /\ First(j) < Behind(j) /\ Behind(j) <= First(j) + Width /\ Behind(j) <= listed.size
             /\ \A x \in DOMAIN lines[j].bytes :
                  First(j) + x - 1 < Known => lines[j].bytes[x] = Byte("listed", First(j) + x - 1)
  <2> HIDE DEF b, n
  <2>1. PICK k, r : Place(b, off, j, k, r)
    BY <1>2, RowPlaced
  <2>2. /\ b[k + 1] \in Nat /\ b[k + 1] <= n
        /\ RowIs(lines[j], data, b[k], b[k + 1], r)
        /\ First(j) = At(b[k], r) /\ Behind(j) = EndAt(b[k], b[k + 1], r)
        /\ First(j) \in Nat /\ Behind(j) \in Nat
        /\ First(j) < Behind(j) /\ Behind(j) <= b[k + 1] /\ Behind(j) <= First(j) + Width
    BY <1>2, <2>1, PlaceIsRow DEF n
  <2>3. Behind(j) <= n
    BY <1>1, <2>2
  <2>4. Behind(j) <= listed.size
    BY <1>1, <2>2, <2>3
  <2>5. ASSUME NEW x \in DOMAIN lines[j].bytes, First(j) + x - 1 < Known
        PROVE  lines[j].bytes[x] = Byte("listed", First(j) + x - 1)
    <3>1. x \in 1 .. Len(lines[j].bytes) /\ Len(lines[j].bytes) = Behind(j) - First(j)
          /\ lines[j].bytes[x] = data[First(j) + x]
      BY <2>2 DEF RowIs
    <3>2. First(j) + x \in 1 .. n /\ (First(j) + x) - 1 = First(j) + x - 1
      BY <1>1, <2>2, <2>3, <3>1
    <3>3. data[First(j) + x] = Byte("listed", (First(j) + x) - 1)
      BY <1>3, <2>5, <3>2 DEF DataOK, n
    <3>4. QED
      BY <3>1, <3>2, <3>3
  <2>6. QED
    BY <2>2, <2>4, <2>5
<1>5. \A i, j \in RowLines : i < j => Behind(i) <= First(j)
  BY <1>2, RowsInOrder
<1>6. ASSUME Fresh, NEW o \in 0 .. listed.size - 1
      PROVE  \E j \in RowLines : First(j) <= o /\ o < Behind(j)
  <2>1. n = listed.size /\ o \in Nat /\ o < n
    BY <1>1, <1>6
  <2>2. Steps(b, n) /\ Rising(b, CutSet(n)) /\ 0 \in CutSet(n)
    BY <1>1, BoundsStep, Boundaries
  <2>3. n \in CutSet(n)
    BY <2>1, SectionCuts DEF Layout
  <2> HIDE DEF b, n
  <2>4. (\E k \in 1 .. Len(b) : b[k] = 0) /\ \E k \in 1 .. Len(b) : b[k] = n
    BY <2>2, <2>3 DEF Rising
  <2>5. PICK k \in 1 .. Len(b) : k # Len(b) /\ b[k] <= o /\ o < b[k + 1]
    BY <1>1, <2>1, <2>2, <2>4, BetweenBoundaries
  <2>6. b[k] \in Nat /\ b[k + 1] \in Nat /\ b[k] < b[k + 1]
    BY <2>2, <2>5 DEF Steps
  <2>7. o \in b[k] .. b[k + 1] - 1
    BY <2>1, <2>5, <2>6
  <2>8. PICK r \in 1 .. RowCount(b[k + 1] - b[k], Width) : At(b[k], r) <= o /\ o < EndAt(b[k], b[k + 1], r)
    BY <2>6, <2>7, RowSpans
  <2> DEFINE j == RowAt(b, off, k, r)
  <2>9. Place(b, off, j, k, r)
    BY <2>5, <2>8 DEF Place, RowsIn
  <2> HIDE DEF j
  <2>10. j \in RowLines /\ First(j) = At(b[k], r) /\ Behind(j) = EndAt(b[k], b[k + 1], r)
    BY <1>2, <2>9, PlaceIsRow
  <2>11. QED
    BY <2>8, <2>10
<1>7. QED
  BY <1>4, <1>5, <1>6 DEF BytesShown, Known

\* Instructions: one is between two boundaries, so its rows are its own.
LEMMA InsnsInPlace ==
  ASSUME ListedOK, lines = Listing(Data)
  PROVE  InsnsShown
<1> SUFFICES ASSUME Fresh, NEW i \in listed.insns
             PROVE  /\ \E j \in RowLines : lines[j].insn /\ First(j) = i.first
                    /\ \A j \in RowLines : \/ Behind(j) <= i.first \/ i.end <= First(j)
                                           \/ (i.first <= First(j) /\ Behind(j) <= i.end)
  BY DEF InsnsShown
<1> DEFINE data == Data
           n == listed.size
           b == Bounds(n)
<1>1. n \in Nat /\ Len(data) = n
  BY LinesLaidOut DEF ListedOK
<1>2. PICK off : Layout(data, b, off)
  BY <1>1, LinesLaidOut
<1>3. PICK k \in 1 .. Len(b) : k # Len(b) /\ b[k] = i.first /\ b[k + 1] = i.end
  BY InsnApart
<1>4. Steps(b, n)
  BY <1>1, BoundsStep
<1> HIDE DEF data, b
<1>5. b[k] \in Nat /\ b[k + 1] \in Nat /\ b[k] < b[k + 1]
  BY <1>3, <1>4 DEF Steps
<1>6. \E j \in RowLines : lines[j].insn /\ First(j) = i.first
  <2> DEFINE j == RowAt(b, off, k, 1)
  <2>1. 1 \in 1 .. RowCount(b[k + 1] - b[k], Width) /\ At(b[k], 1) = b[k]
    BY <1>5, RowSpans
  <2>2. Place(b, off, j, k, 1)
    BY <1>3, <2>1 DEF Place, RowsIn
  <2> HIDE DEF j
  <2>3. j \in RowLines /\ First(j) = At(b[k], 1) /\ RowIs(lines[j], data, b[k], b[k + 1], 1)
    BY <1>2, <2>2, PlaceIsRow
  <2>4. IsInsn(b[k], b[k + 1])
    BY <1>3 DEF IsInsn
  <2>5. lines[j].insn
    BY <2>3, <2>4 DEF RowIs
  <2>6. QED
    BY <1>3, <2>1, <2>3, <2>5
<1>7. ASSUME NEW j \in RowLines
      PROVE  Behind(j) <= i.first \/ i.end <= First(j) \/ (i.first <= First(j) /\ Behind(j) <= i.end)
  <2>1. PICK l, r : Place(b, off, j, l, r)
    BY <1>2, RowPlaced
  <2>2. /\ l # Len(b) /\ First(j) \in Nat /\ Behind(j) \in Nat
        /\ b[l] <= First(j) /\ Behind(j) <= b[l + 1]
    BY <1>2, <2>1, PlaceIsRow
  <2>3. l \in 1 .. Len(b)
    BY <2>1 DEF Place
  <2>4. /\ b[l] \in Nat /\ b[l + 1] \in Nat
        /\ b[k + 1] <= b[l] \/ l = k \/ b[l + 1] <= b[k]
    BY <1>3, <1>4, <2>2, <2>3, BoundariesApart
  <2>5. CASE b[k + 1] <= b[l]
    <3>1. b[k + 1] <= First(j)
      BY <1>5, <2>2, <2>4, <2>5
    <3>2. QED
      BY <1>3, <3>1
  <2>6. CASE l = k
    BY <1>3, <2>2, <2>6
  <2>7. CASE b[l + 1] <= b[k]
    <3>1. Behind(j) <= b[k]
      BY <1>5, <2>2, <2>4, <2>7
    <3>2. QED
      BY <1>3, <3>1
  <2>8. QED
    BY <2>4, <2>5, <2>6, <2>7
<1>8. QED
  BY <1>6, <1>7

\* Labels: one is a boundary, so its line is the first of it.
LEMMA LabelsInPlace ==
  ASSUME ListedOK, lines = Listing(Data)
  PROVE  LabelsShown
<1> DEFINE data == Data
           n == Len(data)
           b == Bounds(n)
<1>1. n \in Nat /\ (Fresh => n = listed.size)
  BY LinesLaidOut
<1>2. PICK off : Layout(data, b, off)
  BY LinesLaidOut
<1>3. Steps(b, n)
  BY <1>1, BoundsStep
<1>4. Start \in Int
  BY ListingAssumption DEF Start
<1>5. Fresh => \A l \in listed.labels : \E k \in 1 .. Len(b) : b[k] = l
  <2>1. Rising(b, CutSet(n))
    BY <1>1, Boundaries
  <2>2. Fresh => \A l \in listed.labels : l \in CutSet(n)
    BY <1>1, SectionCuts
  <2>3. QED
    BY <2>1, <2>2 DEF Rising
<1> HIDE DEF data, b, n
\* The lines that are labels are those of boundaries.
<1>6. ASSUME NEW j \in DOMAIN lines, lines[j].kind = "label"
      PROVE  \E k \in 1 .. Len(b) : b[k] \in listed.labels /\ j = off[k - 1] + 1 /\ lines[j] = LabelLine(b[k])
  <2>1. PICK k \in 1 .. Len(b) : \/ b[k] \in listed.labels /\ j = off[k - 1] + 1
                                 \/ \E r \in 1 .. RowsIn(b, k) : j = RowAt(b, off, k, r)
    BY <1>2 DEF Layout, Laid
  <2>2. \A r \in 1 .. RowsIn(b, k) : j # RowAt(b, off, k, r)
    <3>1. \A r \in 1 .. RowsIn(b, k) : lines[RowAt(b, off, k, r)].kind = "row"
      BY <1>2 DEF Layout, Laid, RowIs
    <3>2. "row" # "label"
      OBVIOUS
    <3>3. QED
      BY <1>6, <3>1, <3>2
  <2>3. b[k] \in listed.labels /\ j = off[k - 1] + 1
    BY <2>1, <2>2
  <2>4. lines[j] = LabelLine(b[k])
    BY <1>2, <2>3 DEF Layout, Laid
  <2>5. QED
    BY <2>3, <2>4
<1>7. \A k \in 1 .. Len(b) : b[k] \in Nat
  BY <1>3 DEF Steps
<1>8. ASSUME Fresh, NEW l \in listed.labels
      PROVE  Count({j \in DOMAIN lines : lines[j] = LabelLine(l)}) = 1
  <2>1. PICK k \in 1 .. Len(b) : b[k] = l
    BY <1>5, <1>8
  <2> DEFINE i == off[k - 1] + 1
             x == Lab(b, k)
             y == RowsIn(b, k)
  <2>2. lines[i] = LabelLine(l)
    BY <1>2, <2>1 DEF Layout, Laid
  <2>3. i \in DOMAIN lines
    <3>1. /\ off[k - 1] \in Nat /\ off[k] \in Nat /\ y \in Nat
          /\ off[k] = off[k - 1] + (x + y) /\ off[k] <= off[Len(b)]
      BY <1>2, LinesGrow
    <3>2. x = 1
      BY <2>1 DEF Lab
    <3>3. DOMAIN lines = 1 .. off[Len(b)] /\ off[Len(b)] \in Nat
      <4>1. Len(b) \in Nat /\ off \in [0 .. Len(b) -> Nat]
        BY <1>2, <1>3 DEF Layout, Laid, Steps
      <4>2. Len(b) \in 0 .. Len(b)
        BY <4>1
      <4>3. QED
        BY <1>2, <4>1, <4>2 DEF Layout, Laid
    <3> HIDE DEF x, y
    <3>4. QED
      BY <3>1, <3>2, <3>3
  <2> HIDE DEF i
  <2>4. ASSUME NEW j \in DOMAIN lines, lines[j] = LabelLine(l) PROVE j = i
    <3>1. lines[j].kind = "label" /\ lines[j].address = Start + l
      BY <2>4 DEF LabelLine
    <3>2. PICK m \in 1 .. Len(b) : b[m] \in listed.labels /\ j = off[m - 1] + 1 /\ lines[j] = LabelLine(b[m])
      BY <1>6, <3>1
    <3>3. Start + b[m] = Start + l
      BY <3>1, <3>2 DEF LabelLine
    <3>4. b[m] = b[k]
      BY <1>4, <1>7, <2>1, <3>3
    <3>5. m = k
      <4>1. (m < k => b[m] < b[k]) /\ (k < m => b[k] < b[m]) /\ b[k] \in Nat /\ Len(b) \in Nat
        BY <1>3 DEF Steps
      <4>2. ~ (b[m] < b[k]) /\ ~ (b[k] < b[m])
        BY <3>4, <4>1
      <4>3. QED
        BY <4>1, <4>2
    <3>6. QED
      BY <3>2, <3>5 DEF i
  <2>5. {j \in DOMAIN lines : lines[j] = LabelLine(l)} = {i}
    BY <2>2, <2>3, <2>4
  <2>6. QED
    BY <2>5, FS_Singleton DEF Count
<1>9. ASSUME NEW j \in DOMAIN lines, lines[j].kind = "label", j < Len(lines)
      PROVE  lines[j + 1].address = lines[j].address
  <2>1. PICK k \in 1 .. Len(b) : b[k] \in listed.labels /\ j = off[k - 1] + 1 /\ lines[j] = LabelLine(b[k])
    BY <1>6, <1>9
  <2> DEFINE x == Lab(b, k)
             y == RowsIn(b, k)
  <2>2. off[k - 1] \in Nat /\ y \in Nat /\ off[k] = off[k - 1] + (x + y)
    BY <1>2, LinesGrow
  <2>3. x = 1
    BY <2>1 DEF Lab
  <2>4. k # Len(b)
    <3>1. SUFFICES ASSUME k = Len(b) PROVE FALSE
      OBVIOUS
    <3>2. y = 0
      BY <3>1 DEF RowsIn
    <3> HIDE DEF x, y
    <3>3. off[k] = j
      BY <2>1, <2>2, <2>3, <3>2
    <3>4. Len(lines) = off[Len(b)]
      BY <1>2 DEF Layout, Laid
    <3>5. j = Len(lines)
      BY <3>1, <3>3, <3>4
    <3>6. j \in Nat
      BY <2>1, <2>2
    <3>7. QED
      BY <1>9, <3>5, <3>6
  <2>5. k + 1 \in 1 .. Len(b) /\ b[k] < b[k + 1] /\ b[k] \in Nat
    BY <1>3, <2>4 DEF Steps
  <2>6. b[k + 1] \in Nat
    BY <1>7, <2>5
  <2>7. 1 \in 1 .. RowCount(b[k + 1] - b[k], Width) /\ At(b[k], 1) = b[k]
    BY <2>5, <2>6, RowSpans
  <2>8. Place(b, off, RowAt(b, off, k, 1), k, 1)
    BY <2>4, <2>7 DEF Place, RowsIn
  <2>9. RowIs(lines[RowAt(b, off, k, 1)], data, b[k], b[k + 1], 1)
    BY <1>2, <2>8, PlaceIsRow
  <2>10. RowAt(b, off, k, 1) = j + 1
    BY <2>1, <2>2, <2>3 DEF RowAt
  <2>11. lines[j + 1].address = Start + b[k]
    BY <2>7, <2>9, <2>10 DEF RowIs
  <2>12. QED
    BY <2>1, <2>11 DEF LabelLine
<1>10. QED
  BY <1>8, <1>9 DEF LabelsShown

\* Patches: one is between two boundaries, so only their first row names it.
LEMMA PatchesInPlace ==
  ASSUME ListedOK, lines = Listing(Data)
  PROVE  PatchesShown
<1> SUFFICES ASSUME Fresh, NEW p \in listed.patches
             PROVE  LET noted == {j \in RowLines : p \in lines[j].notes} IN
                    Count(noted) = 1 /\ \A j \in noted : lines[j].insn \/ First(j) = p.off
  BY DEF PatchesShown
<1> DEFINE data == Data
           n == listed.size
           b == Bounds(n)
           noted == {j \in RowLines : p \in lines[j].notes}
<1>1. n \in Nat /\ Len(data) = n
  BY LinesLaidOut DEF ListedOK
<1>2. PICK off : Layout(data, b, off)
  BY <1>1, LinesLaidOut
<1>3. Steps(b, n) /\ Rising(b, CutSet(n)) /\ 0 \in CutSet(n) /\ n \in CutSet(n)
  BY <1>1, BoundsStep, Boundaries, SectionCuts
<1>4. p.off \in Nat /\ p.off < n
  <2>1. p.off \in Nat /\ p.size \in Nat \ {0} /\ p.off + p.size <= n
    BY DEF ListedOK
  <2>2. QED
    BY <1>1, <2>1
\* It is between two boundaries: those of its instruction, or it starts there.
<1>5. PICK k \in 1 .. Len(b) :
        /\ k # Len(b) /\ b[k] <= p.off /\ p.off < b[k + 1]
        /\ IsInsn(b[k], b[k + 1]) \/ p.off = b[k]
  <2>1. CASE \E i \in listed.insns : i.first < p.off /\ p.off < i.end
    <3>1. PICK i \in listed.insns : i.first < p.off /\ p.off < i.end
      BY <2>1
    <3>2. PICK k \in 1 .. Len(b) : k # Len(b) /\ b[k] = i.first /\ b[k + 1] = i.end
      BY InsnApart
    <3>3. b[k] <= p.off
      <4>1. i.first \in Nat
        BY DEF ListedOK
      <4>2. QED
        BY <1>4, <3>1, <3>2, <4>1
    <3>4. IsInsn(b[k], b[k + 1])
      BY <3>2 DEF IsInsn
    <3>5. QED
      BY <3>1, <3>2, <3>3, <3>4
  <2>2. CASE ~ \E i \in listed.insns : i.first < p.off /\ p.off < i.end
    <3>1. p.off \in CutSet(n)
      BY <2>2, SectionCuts
    <3> HIDE DEF b, n
    <3>2. PICK k \in 1 .. Len(b) : b[k] = p.off
      BY <1>3, <3>1 DEF Rising
    <3>3. k # Len(b)
      <4>1. PICK l \in 1 .. Len(b) : b[l] = n
        BY <1>3 DEF Rising
      <4>2. l < k => b[l] < b[k]
        BY <1>3 DEF Steps
      <4>3. ~ (n < p.off) /\ l # k
        BY <1>1, <1>4, <3>2, <4>1
      <4>4. ~ (l < k) /\ l # k /\ Len(b) \in Nat
        BY <1>3, <3>2, <4>1, <4>2, <4>3 DEF Steps
      <4>5. QED
        BY <4>4
    <3>4. b[k] < b[k + 1]
      BY <1>3, <3>3 DEF Steps
    <3>5. b[k] <= p.off
      BY <1>4, <3>2
    <3>6. QED
      BY <3>2, <3>3, <3>4, <3>5
  <2>3. QED
    BY <2>1, <2>2
<1> HIDE DEF data, b, n
<1>6. b[k] \in Nat /\ b[k + 1] \in Nat /\ b[k] < b[k + 1]
  <2>1. k + 1 \in 1 .. Len(b) /\ b[k] < b[k + 1]
    BY <1>3, <1>5 DEF Steps
  <2>2. QED
    BY <1>3, <2>1 DEF Steps
<1> DEFINE i == RowAt(b, off, k, 1)
<1>7. /\ 1 \in 1 .. RowCount(b[k + 1] - b[k], Width) /\ At(b[k], 1) = b[k]
      /\ \A s \in 1 .. RowCount(b[k + 1] - b[k], Width) : 1 < s => EndAt(b[k], b[k + 1], 1) <= At(b[k], s)
      /\ EndAt(b[k], b[k + 1], 1) \in Nat /\ At(b[k], 1) < EndAt(b[k], b[k + 1], 1)
  <2>1. 1 \in 1 .. RowCount(b[k + 1] - b[k], Width) /\ At(b[k], 1) = b[k]
    BY <1>6, RowSpans
  <2>2. \A s \in 1 .. RowCount(b[k + 1] - b[k], Width) : 1 < s => EndAt(b[k], b[k + 1], 1) <= At(b[k], s)
    BY <1>6, <2>1, RowSpans
  <2>3. EndAt(b[k], b[k + 1], 1) \in Nat /\ At(b[k], 1) < EndAt(b[k], b[k + 1], 1)
    BY <1>6, <2>1, RowSpans
  <2>4. QED
    BY <2>1, <2>2, <2>3
<1>8. Place(b, off, i, k, 1)
  BY <1>5, <1>7 DEF Place, RowsIn
<1> HIDE DEF i
<1>9. i \in noted
  <2>1. i \in RowLines /\ RowIs(lines[i], data, b[k], b[k + 1], 1)
    BY <1>2, <1>8, PlaceIsRow
  <2>2. p.off \in b[k] .. b[k + 1] - 1
    BY <1>4, <1>5, <1>6
  <2>3. p \in lines[i].notes
    BY <1>5, <1>7, <2>1, <2>2 DEF RowIs
  <2>4. QED
    BY <2>1, <2>3
<1>10. ASSUME NEW j \in noted
       PROVE  j = i /\ (lines[j].insn \/ First(j) = p.off)
  <2>1. j \in RowLines /\ p \in lines[j].notes
    OBVIOUS
  <2>2. PICK l, s : Place(b, off, j, l, s)
    BY <1>2, <2>1, RowPlaced
  <2>3. /\ l # Len(b) /\ First(j) \in Nat /\ Behind(j) \in Nat /\ b[l] \in Nat /\ b[l + 1] \in Nat
        /\ b[l] <= First(j) /\ First(j) < Behind(j) /\ Behind(j) <= b[l + 1]
        /\ First(j) = At(b[l], s) /\ RowIs(lines[j], data, b[l], b[l + 1], s)
        /\ s \in 1 .. RowCount(b[l + 1] - b[l], Width)
    BY <1>2, <2>2, PlaceIsRow
  <2>4. l \in 1 .. Len(b) /\ j = RowAt(b, off, l, s)
    BY <2>2 DEF Place
  <2>5. IF IsInsn(b[l], b[l + 1]) THEN s = 1 /\ p.off \in b[l] .. b[l + 1] - 1 ELSE p.off = First(j)
    BY <2>1, <2>3 DEF RowIs
  <2>6. b[l] <= p.off /\ p.off < b[l + 1]
    <3>1. CASE IsInsn(b[l], b[l + 1])
      BY <2>3, <2>5, <3>1
    <3>2. CASE ~ IsInsn(b[l], b[l + 1])
      BY <2>3, <2>5, <3>2
    <3>3. QED
      BY <3>1, <3>2
  <2>7. l = k
    <3>1. b[k + 1] <= b[l] \/ l = k \/ b[l + 1] <= b[k]
      BY <1>3, <1>5, <2>3, <2>4, BoundariesApart
    <3> DEFINE x == b[k]
               y == b[k + 1]
               u == b[l]
               v == b[l + 1]
               z == p.off
    <3>2. /\ x \in Nat /\ y \in Nat /\ u \in Nat /\ v \in Nat /\ z \in Nat
          /\ x <= z /\ z < y /\ u <= z /\ z < v
      BY <1>4, <1>5, <1>6, <2>3, <2>6
    <3>3. y <= u \/ l = k \/ v <= x
      BY <3>1
    <3> HIDE DEF x, y, u, v, z
    <3>4. QED
      BY <3>2, <3>3
  <2>8. s = 1
    <3>1. CASE IsInsn(b[l], b[l + 1])
      BY <2>5, <3>1
    <3>2. CASE ~ IsInsn(b[l], b[l + 1])
      <4>1. At(b[k], s) = b[k] /\ s \in 1 .. RowCount(b[k + 1] - b[k], Width)
        BY <1>5, <2>3, <2>5, <2>7, <3>2
      <4>2. ~ (1 < s)
        <5>1. 1 < s => EndAt(b[k], b[k + 1], 1) <= b[k]
          BY <1>7, <4>1
        <5>2. b[k] < EndAt(b[k], b[k + 1], 1)
          BY <1>7
        <5>3. QED
          BY <1>6, <1>7, <5>1, <5>2
      <4>3. QED
        BY <4>1, <4>2
    <3>3. QED
      BY <3>1, <3>2
  <2>9. j = i
    BY <2>4, <2>7, <2>8 DEF i
  <2>10. lines[j].insn \/ First(j) = p.off
    <3>1. IsInsn(b[l], b[l + 1]) => lines[j].insn
      BY <2>3, <2>8 DEF RowIs
    <3>2. QED
      BY <2>5, <3>1
  <2>11. QED
    BY <2>9, <2>10
<1>11. noted = {i}
  <2> HIDE DEF noted
  <2>1. QED
    BY <1>9, <1>10
<1>12. Count(noted) = 1
  BY <1>11, FS_Singleton DEF Count
<1>13. QED
  BY <1>10, <1>12

\* The inductive invariant of listing: a section an assembler can hold, and no
\* lines or those that listing() makes of it.
ListingInv == ListingChosen /\ (lines = Unlisted \/ lines = Listing(Data))

\* It is invariant: making the lines leaves the section and the image alone.
LEMMA ListingStays == ListingSpec => []ListingInv
<1>1. ListingInit => ListingInv
  BY DEF ListingInit, ListingInv
<1>2. ListingInv /\ [MakeListing]_listingVars => ListingInv'
  <2> SUFFICES ASSUME ListingInv, [MakeListing]_listingVars PROVE ListingInv'
    OBVIOUS
  <2>1. listed' = listed /\ image' = image /\ (lines' = lines \/ lines' = Listing(Data))
    BY DEF MakeListing, listingVars
  <2>2. ListingChosen'
    BY <2>1 DEF ListingInv, ListingChosen
  <2>3. Data' = Data
    BY <2>1 DEF Data, Buffer, ImageData
  <2>4. Listing(Data)' = Listing(Data)
    <3>1. Start' = Start /\ WithinInsns' = WithinInsns
      BY <2>1 DEF Start, WithinInsns
    <3>2. ASSUME NEW n PROVE Bounds(n)' = Bounds(n)
      <4>1. Cuts(n)' = Cuts(n)
        BY <2>1 DEF Cuts
      <4>2. QED
        BY <3>1, <4>1 DEF Bounds
    <3>3. ASSUME NEW data, NEW lo, NEW hi PROVE Rows(data, lo, hi)' = Rows(data, lo, hi)
      BY <2>1, <3>1 DEF Rows
    <3>4. ASSUME NEW data, NEW b, NEW k PROVE Chunk(data, b, k)' = Chunk(data, b, k)
      BY <2>1, <3>1, <3>3 DEF Chunk, LabelLine
    <3>5. ASSUME NEW data PROVE Listing(data)' = Listing(data)
      BY <3>2, <3>4 DEF Listing
    <3>6. QED
      BY <2>3, <3>5
  <2>5. QED
    BY <2>1, <2>2, <2>4 DEF ListingInv
<1>3. QED
  BY <1>1, <1>2, PTL DEF ListingSpec

\* A listing shows every byte of its section once, in order and at its address,
\* also where the image is older than the section (listing).
THEOREM ListedBytes == ListingSpec => []BytesShown
<1>1. ListingInv => BytesShown
  <2>1. lines = Unlisted => BytesShown
    BY DEF BytesShown
  <2>2. QED
    BY <2>1, ChosenOK, BytesInPlace DEF ListingInv
<1>2. QED
  BY <1>1, ListingStays, PTL

\* Every instruction starts a row that names it and shares none with other bytes,
\* wherever patched fields begin and end (listing, _rows).
THEOREM ListedInsns == ListingSpec => []InsnsShown
<1>1. ListingInv => InsnsShown
  <2>1. lines = Unlisted => InsnsShown
    BY DEF InsnsShown
  <2>2. QED
    BY <2>1, ChosenOK, InsnsInPlace DEF ListingInv
<1>2. QED
  BY <1>1, ListingStays, PTL

\* Every label stands once, before the row at its offset (listing).
THEOREM ListedLabels == ListingSpec => []LabelsShown
<1>1. ListingInv => LabelsShown
  <2>1. lines = Unlisted => LabelsShown
    BY DEF LabelsShown
  <2>2. QED
    BY <2>1, ChosenOK, LabelsInPlace DEF ListingInv
<1>2. QED
  BY <1>1, ListingStays, PTL

\* Every patch is noted once, at its instruction or at its field, however fields
\* overlap (_rows).
THEOREM ListedPatches == ListingSpec => []PatchesShown
<1>1. ListingInv => PatchesShown
  <2>1. lines = Unlisted => PatchesShown
    BY DEF PatchesShown
  <2>2. QED
    BY <2>1, ChosenOK, PatchesInPlace DEF ListingInv
<1>2. QED
  BY <1>1, ListingStays, PTL

\* A listing shows the bytes, the instructions, the labels and the patches of
\* the section it is made of, all of them together (listing).
THEOREM ListingSound == ListingSpec => []ListingShows
BY ListedBytes, ListedInsns, ListedLabels, ListedPatches, PTL DEF ListingShows

-----------------------------------------------------------------------------
(* Constants in instructions: powers of two                                 *)

Pow(n) == 2^n

LEMMA WidthsInUse ==
  /\ LowBits \in Nat /\ WordBits \in Nat /\ RegBits \in Nat /\ 0 < LowBits
  /\ LowBits < WordBits /\ WordBits < RegBits /\ RegBits <= Widest
  /\ \A i \in 1 .. 4 : Parts[i] \in Nat /\ Parts[i] > 1
  /\ LowHalf \in Nat /\ FullWidth \in Nat /\ FullWidth <= Widest /\ Widest \in Nat
  /\ LogMaskBits \in Nat /\ 1 < LogMaskBits /\ LogMaskBits < MaskBits
  /\ MaskBits \in Nat /\ MaskBits <= Widest
<1>1. LowBits \in Nat /\ WordBits \in Nat /\ RegBits \in Nat
      /\ 0 < LowBits /\ LowBits < WordBits /\ WordBits < RegBits
  BY ImmediateAssumption
<1>2. \A i \in 1 .. 4 : Parts[i] \in Nat /\ Parts[i] > 1
  BY ImmediateAssumption
<1>3. LowHalf \in Nat /\ FullWidth \in Nat
  BY <1>2 DEF LowHalf, FullWidth
<1>4. LogMaskBits \in Nat /\ 1 < LogMaskBits /\ LogMaskBits < MaskBits /\ MaskBits \in Nat
  BY ImmediateAssumption
<1>5. Widest \in Nat /\ RegBits <= Widest /\ FullWidth <= Widest /\ MaskBits <= Widest
  BY <1>2, <1>3, ImmediateAssumption, PowersAssumption DEF LowHalf, FullWidth
<1>6. QED
  BY <1>1, <1>2, <1>3, <1>4, <1>5

LEMMA PowerDoubles ==
  ASSUME NEW n \in Nat, n <= Widest
  PROVE  Pow(n) \in Nat \ {0} /\ Pow(n + 1) = 2 * Pow(n) /\ Pow(0) = 1
<1> DEFINE T == {m \in Nat : m <= Widest => Pow(m) \in Nat \ {0}}
<1>1. Pow(0) = 1 /\ \A m \in 0 .. Widest : Pow(m + 1) = 2 * Pow(m)
  BY PowersAssumption DEF Pow
<1>2. Widest \in Nat
  BY WidthsInUse
<1>3. 0 \in T
  BY <1>1
<1>4. ASSUME NEW m \in Nat, m \in T PROVE m + 1 \in T
  <2>1. SUFFICES ASSUME m + 1 <= Widest PROVE Pow(m + 1) \in Nat \ {0}
    OBVIOUS
  <2>2. m \in 0 .. Widest
    BY <1>2, <2>1
  <2>3. Pow(m + 1) = 2 * Pow(m) /\ Pow(m) \in Nat \ {0}
    BY <1>1, <1>4, <2>2
  <2>4. QED
    BY <2>3
<1> HIDE DEF T
<1>5. n \in T
  BY <1>3, <1>4, AllNumbers
<1>6. n \in 0 .. Widest
  BY <1>2
<1>7. QED
  BY <1>1, <1>5, <1>6 DEF T

LEMMA PowersTimes ==
  ASSUME NEW a \in Nat, NEW b \in Nat, a + b <= Widest
  PROVE  Pow(a + b) = Pow(a) * Pow(b)
<1> DEFINE T == {m \in Nat : a + m <= Widest => Pow(a + m) = Pow(a) * Pow(m)}
<1>1. Widest \in Nat
  BY WidthsInUse
<1>2. 0 \in T
  <2>1. a <= Widest /\ a + 0 = a
    BY <1>1
  <2>2. Pow(a) \in Nat \ {0} /\ Pow(0) = 1
    BY <2>1, PowerDoubles
  <2>3. QED
    BY <2>1, <2>2
<1>3. ASSUME NEW m \in Nat, m \in T PROVE m + 1 \in T
  <2>1. SUFFICES ASSUME a + (m + 1) <= Widest PROVE Pow(a + (m + 1)) = Pow(a) * Pow(m + 1)
    OBVIOUS
  <2>2. a + m \in Nat /\ a + m <= Widest /\ m <= Widest /\ a <= Widest /\ a + (m + 1) = (a + m) + 1
    BY <1>1, <2>1
  <2>3. Pow(a + (m + 1)) = 2 * Pow(a + m)
    BY <2>2, PowerDoubles
  <2>4. Pow(m + 1) = 2 * Pow(m) /\ Pow(m) \in Nat \ {0} /\ Pow(a) \in Nat \ {0}
    BY <2>2, PowerDoubles
  <2>5. Pow(a + m) = Pow(a) * Pow(m)
    BY <1>3, <2>2
  <2> DEFINE x == Pow(a)
             y == Pow(m)
  <2> HIDE DEF x, y
  <2>6. x \in Nat /\ y \in Nat
    BY <2>4 DEF x, y
  <2>7. 2 * (x * y) = x * (2 * y)
    BY <2>6
  <2>8. QED
    BY <2>3, <2>4, <2>5, <2>7 DEF x, y
<1> HIDE DEF T
<1>4. b \in T
  BY <1>2, <1>3, AllNumbers
<1>5. QED
  BY <1>4 DEF T

LEMMA PowerEven ==
  ASSUME NEW b \in Nat, b > 0, b <= Widest
  PROVE  /\ Pow(b) \in Even /\ Pow(b) = 2 * Pow(b - 1) /\ Pow(b - 1) \in Nat \ {0}
         /\ Pow(b) \div 2 = Pow(b - 1) /\ Pow(b) \in Nat /\ Pow(b) >= 2
<1>1. b - 1 \in Nat /\ b - 1 <= Widest /\ (b - 1) + 1 = b
  BY WidthsInUse
<1>2. Pow(b - 1) \in Nat \ {0} /\ Pow((b - 1) + 1) = 2 * Pow(b - 1)
  BY <1>1, PowerDoubles
<1> DEFINE h == Pow(b - 1)
<1> HIDE DEF h
<1>3. Pow(b) = 2 * h /\ h \in Nat \ {0}
  BY <1>1, <1>2 DEF h
<1>4. 2 * h \in Nat \ {0} /\ (2 * h) % 2 = 0 /\ (2 * h) \div 2 = h /\ 2 * h >= 2
  BY <1>3
<1>5. QED
  BY <1>3, <1>4 DEF h, Even, Positive

-----------------------------------------------------------------------------
(* Numbers with the same pattern                                            *)

Alike(x, y, V) == \E k \in Int : x = y + k * V

LEMMA AlikeItself ==
  ASSUME NEW V \in Int, NEW x \in Int
  PROVE  Alike(x, x, V)
<1>1. 0 \in Int /\ x = x + 0 * V
  OBVIOUS
<1>2. QED
  BY <1>1 DEF Alike

LEMMA AlikeBack ==
  ASSUME NEW V \in Int, NEW x \in Int, NEW y \in Int, Alike(x, y, V)
  PROVE  Alike(y, x, V)
<1>1. PICK k \in Int : x = y + k * V
  BY DEF Alike
<1>2. -k \in Int /\ k * V \in Int /\ (-k) * V = -(k * V)
  OBVIOUS
<1>3. y = x + (-k) * V
  BY <1>1, <1>2
<1>4. QED
  BY <1>2, <1>3 DEF Alike

LEMMA AlikeThrough ==
  ASSUME NEW V \in Int, NEW x \in Int, NEW y \in Int, NEW z \in Int,
         Alike(x, y, V), Alike(y, z, V)
  PROVE  Alike(x, z, V)
<1>1. PICK k \in Int : x = y + k * V
  BY DEF Alike
<1>2. PICK j \in Int : y = z + j * V
  BY DEF Alike
<1>3. k + j \in Int /\ k * V \in Int /\ j * V \in Int /\ (k + j) * V = k * V + j * V
  OBVIOUS
<1>4. x = z + (k + j) * V
  BY <1>1, <1>2, <1>3
<1>5. QED
  BY <1>3, <1>4 DEF Alike

LEMMA AlikePlus ==
  ASSUME NEW V \in Int, NEW x \in Int, NEW y \in Int, NEW c \in Int, Alike(x, y, V)
  PROVE  Alike(x + c, y + c, V)
<1>1. PICK k \in Int : x = y + k * V
  BY DEF Alike
<1>2. k * V \in Int
  OBVIOUS
<1>3. x + c = (y + c) + k * V
  BY <1>1, <1>2
<1>4. QED
  BY <1>3 DEF Alike

LEMMA AlikeTimes ==
  ASSUME NEW V \in Int, NEW x \in Int, NEW y \in Int, NEW c \in Int, Alike(x, y, V)
  PROVE  Alike(x * c, y * c, V * c)
<1>1. PICK k \in Int : x = y + k * V
  BY DEF Alike
<1>2. (y + k * V) * c = y * c + (k * V) * c /\ (k * V) * c = k * (V * c)
  <2> DEFINE w == k * V
  <2>1. w \in Int /\ (y + w) * c = y * c + w * c
    BY SMT
  <2>2. (k * V) * c = k * (V * c)
    BY SMT
  <2>3. QED
    BY <2>1, <2>2
<1>3. QED
  BY <1>1, <1>2 DEF Alike

\* A pattern of fewer bits.
LEMMA AlikeFewer ==
  ASSUME NEW V \in Int, NEW W \in Int, NEW x \in Int, NEW y \in Int, Alike(x, y, V * W)
  PROVE  Alike(x, y, V)
<1>1. PICK k \in Int : x = y + k * (V * W)
  BY DEF Alike
<1>2. k * W \in Int /\ k * (V * W) = (k * W) * V
  BY SMT
<1>3. QED
  BY <1>1, <1>2 DEF Alike

LEMMA AlikeLow ==
  ASSUME NEW V \in Nat \ {0}, NEW x \in Int
  PROVE  x % V \in 0 .. V - 1 /\ x % V \in Int /\ Alike(x % V, x, V)
<1> DEFINE q == x \div V
           r == x % V
<1>1. q \in Int /\ r \in Int /\ 0 <= r /\ r < V /\ x = q * V + r
  BY DivMod
<1> HIDE DEF q, r
<1>2. -q \in Int /\ q * V \in Int /\ (-q) * V = -(q * V)
  BY <1>1
<1>3. r = x + (-q) * V
  BY <1>1, <1>2
<1>4. r \in 0 .. V - 1
  BY <1>1
<1>5. Alike(r, x, V)
  BY <1>2, <1>3 DEF Alike
<1>6. QED
  BY <1>1, <1>4, <1>5 DEF r

LEMMA AlikeSigned ==
  ASSUME NEW V \in Even, NEW x \in Int
  PROVE  LET s == Signed(x % V, V) IN s \in Int /\ FitsSigned(s, V) /\ Alike(s, x, V)
<1>1. V \in Nat \ {0} /\ V \in Int
  BY HalfOf
<1> DEFINE r == x % V
<1>2. r \in 0 .. V - 1 /\ r \in Int /\ Alike(r, x, V)
  BY <1>1, AlikeLow
<1> HIDE DEF r
<1>3. Signed(r, V) \in Int /\ FitsSigned(Signed(r, V), V)
  BY <1>2, PatternFits
<1>4. Signed(r, V) = r + (-1) * V \/ Signed(r, V) = r + 0 * V
  BY <1>1, <1>2 DEF Signed
<1>5. Alike(Signed(r, V), r, V)
  BY <1>4 DEF Alike
<1>6. Alike(Signed(r, V), x, V)
  BY <1>1, <1>2, <1>3, <1>5, AlikeThrough
<1>7. QED
  BY <1>3, <1>6 DEF r

LEMMA AlikeModulo ==
  ASSUME NEW V \in Nat \ {0}, NEW x \in Int, NEW y \in Int, Alike(x, y, V)
  PROVE  x % V = y % V
<1>1. PICK k \in Int : x = y + k * V
  BY DEF Alike
<1> DEFINE q == y \div V
           r == y % V
<1>2. q \in Int /\ r \in Int /\ 0 <= r /\ r < V /\ y = q * V + r
  BY DivMod
<1> HIDE DEF q, r
<1>3. q + k \in Int /\ q * V \in Int /\ k * V \in Int /\ (q + k) * V = q * V + k * V
  BY <1>2
<1>4. x = (q + k) * V + r
  BY <1>1, <1>2, <1>3
<1>5. x % V = r
  BY <1>2, <1>3, <1>4, DivUnique
<1>6. QED
  BY <1>5 DEF r

\* Of the numbers that fit only one has a pattern.
LEMMA AlikeOne ==
  ASSUME NEW V \in Even, NEW x \in Int, NEW s \in Int, FitsSigned(s, V), Alike(x, s, V)
  PROVE  Signed(x % V, V) = s
<1>1. V \in Nat \ {0}
  BY HalfOf
<1>2. x % V = s % V
  BY <1>1, AlikeModulo
<1>3. QED
  BY <1>2, SignedOfPattern

-----------------------------------------------------------------------------
(* Sign extension                                                           *)

IsWidth(b) == b \in Nat /\ 0 < b /\ b <= Widest

LEMMA SextReads ==
  ASSUME NEW v \in Int, NEW b, IsWidth(b)
  PROVE  /\ Sext(v, b) = Signed(v % Pow(b), Pow(b))
         /\ Sext(v, b) \in Int /\ FitsSigned(Sext(v, b), Pow(b))
         /\ Alike(Sext(v, b), v, Pow(b))
<1> DEFINE V == Pow(b)
           h == Pow(b - 1)
           p == v % V
<1>1. V \in Even /\ V \in Nat \ {0} /\ V = 2 * h /\ h \in Nat \ {0}
  BY PowerEven, HalfOf DEF IsWidth
<1>2. Sext(v, b) = IF p >= h THEN p - V ELSE p
  BY DEF Sext, Low, Pow
<1> HIDE DEF V, h
<1>3. p \in Int
  BY <1>1, AlikeLow
<1> HIDE DEF p
<1>4. Sext(v, b) = Signed(p, V)
  BY <1>1, <1>2, <1>3 DEF Signed
<1>5. LET s == Signed(p, V) IN s \in Int /\ FitsSigned(s, V) /\ Alike(s, v, V)
  BY <1>1, AlikeSigned DEF p
<1>6. QED
  BY <1>4, <1>5 DEF p, V

\* The only number that fits and has the pattern of v.
LEMMA SextIs ==
  ASSUME NEW v \in Int, NEW b, IsWidth(b), NEW s \in Int, FitsSigned(s, Pow(b)),
         Alike(v, s, Pow(b))
  PROVE  Sext(v, b) = s
<1>1. Pow(b) \in Even
  BY PowerEven DEF IsWidth
<1>2. Signed(v % Pow(b), Pow(b)) = s
  BY <1>1, AlikeOne
<1>3. QED
  BY <1>2, SextReads

LEMMA SextAlike ==
  ASSUME NEW v \in Int, NEW w \in Int, NEW b, IsWidth(b), Alike(v, w, Pow(b))
  PROVE  Sext(v, b) = Sext(w, b)
<1>1. Pow(b) \in Nat \ {0}
  BY PowerEven, HalfOf DEF IsWidth
<1>2. v % Pow(b) = w % Pow(b)
  BY <1>1, AlikeModulo
<1>3. QED
  BY <1>2, SextReads

LEMMA FitsBounds ==
  ASSUME NEW v \in Int, NEW b, IsWidth(b)
  PROVE  FitsSigned(v, Pow(b)) <=> -Pow(b - 1) <= v /\ v < Pow(b - 1)
BY PowerEven DEF FitsSigned, IsWidth

LEMMA LowReads ==
  ASSUME NEW v \in Int, NEW b, IsWidth(b)
  PROVE  /\ Low(v, b) = v % Pow(b)
         /\ Low(v, b) \in Int /\ 0 <= Low(v, b) /\ Low(v, b) < Pow(b)
         /\ Alike(Low(v, b), v, Pow(b))
<1>1. Pow(b) \in Nat \ {0}
  BY PowerEven, HalfOf DEF IsWidth
<1>2. Low(v, b) = v % Pow(b)
  BY DEF Low, Pow
<1> DEFINE p == v % Pow(b)
<1>3. p \in 0 .. Pow(b) - 1 /\ p \in Int /\ Alike(p, v, Pow(b))
  BY <1>1, AlikeLow
<1> HIDE DEF p
<1>4. 0 <= p /\ p < Pow(b)
  BY <1>1, <1>3
<1>5. QED
  BY <1>2, <1>3, <1>4 DEF p

\* A wider field.
LEMMA PowerSplits ==
  ASSUME NEW a, NEW b, IsWidth(a), IsWidth(b), a < b
  PROVE  /\ b - a \in Nat /\ IsWidth(b - a) /\ Pow(b) = Pow(a) * Pow(b - a)
         /\ Pow(a) \in Nat \ {0} /\ Pow(b - a) \in Nat /\ Pow(b - a) >= 2 /\ 2 * Pow(a) <= Pow(b)
<1>1. b - a \in Nat /\ IsWidth(b - a) /\ a + (b - a) = b /\ a \in Nat /\ a + (b - a) <= Widest
  BY WidthsInUse DEF IsWidth
<1>2. Pow(b) = Pow(a) * Pow(b - a)
  BY <1>1, PowersTimes
<1> DEFINE x == Pow(a)
           y == Pow(b - a)
<1>3. x \in Nat \ {0} /\ y \in Nat /\ y >= 2
  BY <1>1, PowerEven, HalfOf DEF IsWidth
<1> HIDE DEF x, y
<1>4. 2 * x <= x * y
  BY <1>3
<1>5. QED
  BY <1>1, <1>2, <1>3, <1>4 DEF x, y

LEMMA FitsWider ==
  ASSUME NEW a, NEW b, IsWidth(a), IsWidth(b), a < b, NEW v \in Int, FitsSigned(v, Pow(a))
  PROVE  FitsSigned(v, Pow(b))
<1>1. -Pow(a - 1) <= v /\ v < Pow(a - 1)
  BY FitsBounds
<1>2. Pow(a) = 2 * Pow(a - 1) /\ Pow(b) = 2 * Pow(b - 1) /\ Pow(a - 1) \in Nat /\ Pow(b - 1) \in Nat
  BY PowerEven DEF IsWidth
<1>3. 2 * Pow(a) <= Pow(b)
  BY PowerSplits
<1>4. -Pow(b - 1) <= v /\ v < Pow(b - 1)
  BY <1>1, <1>2, <1>3
<1>5. QED
  BY <1>4, FitsBounds

LEMMA AlikeNarrower ==
  ASSUME NEW a, NEW b, IsWidth(a), IsWidth(b), a < b, NEW v \in Int, NEW w \in Int, Alike(v, w, Pow(b))
  PROVE  Alike(v, w, Pow(a))
<1>1. Pow(b) = Pow(a) * Pow(b - a) /\ Pow(a) \in Int /\ Pow(b - a) \in Int
  BY PowerSplits
<1>2. QED
  BY <1>1, AlikeFewer

-----------------------------------------------------------------------------
(* What words leave in the register                                         *)

RiscvWords ==
  [op : {"addi", "addiw", "lui"}, imm : Int] \cup [op : {"slli"}, imm : 1 .. RegBits - 1]
LoongWords ==
  [op : {"ori_zero", "or_zero", "addi_w", "lu12i_w", "ori", "lu32i_d", "lu52i_d",
         "lu52i_d_zero"}, imm : Int]
WordsOf(isa) == IF isa = "riscv64" THEN RiscvWords ELSE LoongWords
WordDoes(isa, x, w) == IF isa = "riscv64" THEN StepRiscv(x, w) ELSE StepLoongarch(x, w)
Isas == {"riscv64", "loongarch64"}

LEMMA PartWidths ==
  /\ IsWidth(LowBits) /\ IsWidth(WordBits) /\ IsWidth(RegBits)
  /\ \A i \in 1 .. 4 : IsWidth(Parts[i]) /\ Parts[i] > 1
  /\ IsWidth(LowHalf) /\ IsWidth(LowHalf + Parts[3]) /\ IsWidth(FullWidth)
  /\ LowHalf = Parts[1] + Parts[2] /\ FullWidth = (LowHalf + Parts[3]) + Parts[4]
<1>1. LowHalf = Parts[1] + Parts[2] /\ FullWidth = (LowHalf + Parts[3]) + Parts[4]
  BY WidthsInUse DEF LowHalf, FullWidth
<1>2. \A i \in 1 .. 4 : Parts[i] \in Nat /\ Parts[i] > 1
  BY WidthsInUse
<1>3. /\ Parts[1] \in Nat /\ Parts[1] > 1 /\ Parts[2] \in Nat /\ Parts[2] > 1
      /\ Parts[3] \in Nat /\ Parts[3] > 1 /\ Parts[4] \in Nat /\ Parts[4] > 1
  BY <1>2
<1>4. IsWidth(LowBits) /\ IsWidth(WordBits) /\ IsWidth(RegBits)
  BY WidthsInUse DEF IsWidth
<1>5. IsWidth(Parts[1]) /\ IsWidth(Parts[2]) /\ IsWidth(Parts[3]) /\ IsWidth(Parts[4])
      /\ IsWidth(LowHalf) /\ IsWidth(LowHalf + Parts[3]) /\ IsWidth(FullWidth)
  BY <1>1, <1>3, WidthsInUse DEF IsWidth
<1>6. \A i \in 1 .. 4 : i = 1 \/ i = 2 \/ i = 3 \/ i = 4
  OBVIOUS
<1>7. \A i \in 1 .. 4 : IsWidth(Parts[i])
  BY <1>5, <1>6
<1>8. QED
  BY <1>1, <1>2, <1>4, <1>5, <1>7

LEMMA RiscvWordTyped ==
  ASSUME NEW x \in Int, NEW w \in RiscvWords
  PROVE  StepRiscv(x, w) \in Int
<1>1. w.imm \in Int
  BY WidthsInUse DEF RiscvWords
<1>2. IsWidth(LowBits) /\ IsWidth(WordBits) /\ IsWidth(RegBits)
  BY PartWidths
<1>3. Sext(w.imm, LowBits) \in Int
  BY <1>1, <1>2, SextReads
<1>4. x + Sext(w.imm, LowBits) \in Int
  BY <1>3
<1>5. CASE w.op = "addi"
  BY <1>2, <1>4, <1>5, SextReads DEF StepRiscv
<1>6. CASE w.op = "addiw"
  BY <1>2, <1>4, <1>6, SextReads DEF StepRiscv
<1>7. CASE w.op = "lui"
  <2>1. w.imm * Pow(LowBits) \in Int
    BY <1>1, <1>2, PowerEven DEF IsWidth
  <2>2. w.imm * 2^LowBits \in Int
    BY <2>1 DEF Pow
  <2>3. QED
    BY <1>2, <1>7, <2>2, SextReads DEF StepRiscv
<1>8. CASE w.op = "slli"
  <2>1. w.imm \in 1 .. RegBits - 1
    BY <1>8 DEF RiscvWords
  <2>2. IsWidth(w.imm)
    BY <2>1, WidthsInUse DEF IsWidth
  <2>3. x * Pow(w.imm) \in Int
    BY <2>2, PowerEven DEF IsWidth
  <2>4. x * 2^w.imm \in Int
    BY <2>3 DEF Pow
  <2>5. QED
    BY <1>2, <1>8, <2>4, SextReads DEF StepRiscv
<1>9. w.op \in {"addi", "addiw", "lui", "slli"}
  BY DEF RiscvWords
<1>10. QED
  BY <1>5, <1>6, <1>7, <1>8, <1>9

LEMMA InsertTyped ==
  ASSUME NEW i \in Int, NEW x \in Int, NEW b, IsWidth(b)
  PROVE  Insert(i, x, b) = i * Pow(b) + (x % Pow(b)) /\ Insert(i, x, b) \in Int
<1>1. Pow(b) \in Nat
  BY PowerEven DEF IsWidth
<1>2. Low(x, b) = x % Pow(b) /\ Low(x, b) \in Int
  BY LowReads
<1>3. Insert(i, x, b) = i * Pow(b) + Low(x, b)
  BY DEF Insert, Pow
<1> DEFINE m == i * Pow(b)
           l == Low(x, b)
<1>4. m \in Int
  BY <1>1
<1> HIDE DEF m, l
<1>5. l \in Int /\ Insert(i, x, b) = m + l /\ m + l \in Int
  BY <1>2, <1>3, <1>4 DEF m, l
<1>6. Insert(i, x, b) = m + (x % Pow(b)) /\ Insert(i, x, b) \in Int
  <2>1. l = x % Pow(b)
    BY <1>2 DEF l
  <2>2. QED
    BY <1>5, <2>1, Zenon
<1>7. QED
  BY <1>6, Zenon DEF m

LEMMA LoongWordTyped ==
  ASSUME NEW x \in Int, NEW w \in LoongWords
  PROVE  StepLoongarch(x, w) \in Int
<1>1. w.imm \in Int /\ w.op \in {"ori_zero", "or_zero", "addi_w", "lu12i_w", "ori", "lu32i_d",
                                 "lu52i_d", "lu52i_d_zero"}
  BY DEF LoongWords
<1>2. IsWidth(Parts[1]) /\ IsWidth(Parts[3]) /\ IsWidth(LowHalf) /\ IsWidth(LowHalf + Parts[3])
      /\ IsWidth(FullWidth)
  BY PartWidths
<1>3. CASE w.op = "ori_zero"
  BY <1>1, <1>3 DEF StepLoongarch
<1>4. CASE w.op = "or_zero"
  BY <1>4 DEF StepLoongarch
<1>5. CASE w.op = "addi_w"
  <2>1. Sext(w.imm, Parts[1]) \in Int
    BY <1>1, <1>2, SextReads
  <2>2. Sext(Sext(w.imm, Parts[1]), LowHalf) \in Int
    BY <1>2, <2>1, SextReads
  <2>3. QED
    BY <1>5, <2>2 DEF StepLoongarch
<1>6. CASE w.op = "lu12i_w"
  <2>1. w.imm * Pow(Parts[1]) \in Int
    BY <1>1, <1>2, PowerEven DEF IsWidth
  <2>2. Sext(w.imm * 2^Parts[1], LowHalf) \in Int
    BY <1>2, <2>1, SextReads DEF Pow
  <2>3. QED
    BY <1>6, <2>2 DEF StepLoongarch
<1>7. CASE w.op = "ori"
  <2>1. Pow(Parts[1]) \in Nat \ {0}
    BY <1>2, PowerEven, HalfOf DEF IsWidth
  <2>2. x \div Pow(Parts[1]) \in Int
    BY <2>1
  <2>3. Insert(x \div 2^Parts[1], w.imm, Parts[1]) \in Int
    BY <1>1, <1>2, <2>2, InsertTyped DEF Pow
  <2>4. QED
    BY <1>7, <2>3 DEF StepLoongarch
<1>8. CASE w.op = "lu32i_d"
  <2>1. Sext(w.imm, Parts[3]) \in Int
    BY <1>1, <1>2, SextReads
  <2>2. Insert(Sext(w.imm, Parts[3]), x, LowHalf) \in Int
    BY <1>2, <2>1, InsertTyped
  <2>3. QED
    BY <1>8, <2>2 DEF StepLoongarch
<1>9. CASE w.op = "lu52i_d"
  <2>1. Insert(w.imm, x, LowHalf + Parts[3]) \in Int
    BY <1>1, <1>2, InsertTyped
  <2>2. Sext(Insert(w.imm, x, LowHalf + Parts[3]), FullWidth) \in Int
    BY <1>2, <2>1, SextReads
  <2>3. QED
    BY <1>9, <2>2 DEF StepLoongarch
<1>10. CASE w.op = "lu52i_d_zero"
  <2>1. Insert(w.imm, 0, LowHalf + Parts[3]) \in Int
    BY <1>1, <1>2, InsertTyped
  <2>2. Sext(Insert(w.imm, 0, LowHalf + Parts[3]), FullWidth) \in Int
    BY <1>2, <2>1, SextReads
  <2>3. QED
    BY <1>10, <2>2 DEF StepLoongarch
<1>11. QED
  BY <1>1, <1>3, <1>4, <1>5, <1>6, <1>7, <1>8, <1>9, <1>10

LEMMA WordTyped ==
  ASSUME NEW isa \in Isas, NEW x \in Int, NEW w \in WordsOf(isa)
  PROVE  WordDoes(isa, x, w) \in Int
BY RiscvWordTyped, LoongWordTyped DEF WordDoes, WordsOf, Isas

\* RegisterAfter, by one word at a time.
LEMMA AfterRuns ==
  ASSUME NEW isa \in Isas, NEW words \in Seq(WordsOf(isa))
  PROVE  \E f \in [0 .. Len(words) -> Int] :
           /\ f[0] = 0 /\ RegisterAfter(isa, words) = f[Len(words)]
           /\ \A k \in 1 .. Len(words) : f[k] = WordDoes(isa, f[k - 1], words[k])
<1> DEFINE N == Len(words)
           Runs(f) == [k \in 0 .. N |->
                         IF k = 0 THEN 0
                         ELSE IF isa = "riscv64" THEN StepRiscv(f[k - 1], words[k])
                              ELSE StepLoongarch(f[k - 1], words[k])]
           after == CHOOSE f : f = Runs(f)
           step == [k \in 1 .. N |-> [x \in Int |-> WordDoes(isa, x, words[k])]]
<1>1. N \in Nat /\ \A k \in 1 .. N : words[k] \in WordsOf(isa)
  BY LenProperties
<1>2. RegisterAfter(isa, words) = after[N]
  BY DEF RegisterAfter
<1> HIDE DEF N
<1>3. step \in [1 .. N -> [Int -> Int]]
  <2>1. \A k \in 1 .. N : [x \in Int |-> WordDoes(isa, x, words[k])] \in [Int -> Int]
    BY <1>1, WordTyped
  <2>2. QED
    BY <2>1
<1>4. PICK f \in [0 .. N -> Int] : Recurs(f, N, 0, step)
  <2> HIDE DEF step
  <2>1. 0 \in Int
    OBVIOUS
  <2>2. QED
    BY <1>1, <1>3, <2>1, RecursionTo, Zenon
<1> DEFINE One(g, k) == WordDoes(isa, g[k - 1], words[k])
<1>5. \A g : Runs(g) = [k \in 0 .. N |-> IF k = 0 THEN 0 ELSE One(g, k)]
  BY DEF WordDoes
<1> HIDE DEF Runs
<1>6. f[0] = 0 /\ \A k \in 1 .. N : f[k] = One(f, k)
  <2>1. f[0] = 0
    BY <1>4 DEF Recurs
  <2>2. ASSUME NEW k \in 1 .. N PROVE f[k] = One(f, k)
    <3> HIDE DEF step
    <3>1. f[k] = step[k][f[k - 1]] /\ f[k - 1] \in Int
      BY <1>1, <1>4 DEF Recurs
    <3>2. QED
      BY <3>1 DEF step
  <2>3. QED
    BY <2>1, <2>2
<1>7. f = Runs(f)
  <2> HIDE DEF One
  <2>1. \A k \in 0 .. N : k = 0 \/ k \in 1 .. N
    BY <1>1
  <2>2. \A k \in 0 .. N : f[k] = IF k = 0 THEN 0 ELSE One(f, k)
    BY <1>6, <2>1
  <2>3. f = [k \in 0 .. N |-> IF k = 0 THEN 0 ELSE One(f, k)]
    BY <1>4, <2>2
  <2>4. QED
    BY <1>5, <2>3
<1>8. after = Runs(after)
  BY <1>7
<1> HIDE DEF after
<1>9. after = [k \in 0 .. N |-> IF k = 0 THEN 0 ELSE One(after, k)]
  BY <1>5, <1>8
<1>10. after[0] = 0 /\ \A k \in 1 .. N : after[k] = One(after, k)
  <2> HIDE DEF One
  <2>1. 0 \in 0 .. N /\ \A k \in 1 .. N : k \in 0 .. N /\ k # 0
    BY <1>1
  <2>2. QED
    BY <1>9, <2>1
<1>11. after \in [0 .. N -> Int]
  <2> DEFINE T == {m \in Nat : m <= N => after[m] \in Int}
  <2>1. 0 \in T
    BY <1>10
  <2>2. ASSUME NEW m \in Nat, m \in T PROVE m + 1 \in T
    <3>1. SUFFICES ASSUME m + 1 <= N PROVE after[m + 1] \in Int
      OBVIOUS
    <3>2. m + 1 \in 1 .. N /\ (m + 1) - 1 = m /\ after[m] \in Int
      BY <1>1, <2>2, <3>1
    <3>3. after[m + 1] = WordDoes(isa, after[m], words[m + 1])
      BY <1>10, <3>2
    <3>4. QED
      BY <1>1, <3>2, <3>3, WordTyped
  <2> HIDE DEF T
  <2>3. \A m \in Nat : m \in T
    BY <2>1, <2>2, AllNumbers
  <2>4. \A m \in 0 .. N : after[m] \in Int
    BY <1>1, <2>3 DEF T
  <2> HIDE DEF One
  <2>5. QED
    BY <1>9, <2>4
<1>12. QED
  BY <1>2, <1>10, <1>11 DEF N

LEMMA AfterByOne ==
  ASSUME NEW isa \in Isas, NEW words \in Seq(WordsOf(isa)), NEW w \in WordsOf(isa)
  PROVE  /\ RegisterAfter(isa, words) \in Int
         /\ RegisterAfter(isa, words \o <<w>>) = WordDoes(isa, RegisterAfter(isa, words), w)
<1> DEFINE N == Len(words)
           more == words \o <<w>>
<1>1. /\ more \in Seq(WordsOf(isa)) /\ Len(more) = N + 1 /\ N \in Nat
      /\ \A k \in 1 .. N : more[k] = words[k]
      /\ more[N + 1] = w
  BY AppendProperties, AppendIsConcat, LenProperties
<1> HIDE DEF more, N
<1>2. PICK f \in [0 .. N -> Int] :
        /\ f[0] = 0 /\ RegisterAfter(isa, words) = f[N]
        /\ \A k \in 1 .. N : f[k] = WordDoes(isa, f[k - 1], words[k])
  BY AfterRuns DEF N
<1>3. PICK g \in [0 .. N + 1 -> Int] :
        /\ g[0] = 0 /\ RegisterAfter(isa, more) = g[N + 1]
        /\ \A k \in 1 .. N + 1 : g[k] = WordDoes(isa, g[k - 1], more[k])
  <2>1. \E g \in [0 .. Len(more) -> Int] :
          /\ g[0] = 0 /\ RegisterAfter(isa, more) = g[Len(more)]
          /\ \A k \in 1 .. Len(more) : g[k] = WordDoes(isa, g[k - 1], more[k])
    BY <1>1, AfterRuns
  <2>2. QED
    BY <1>1, <2>1
<1> DEFINE T == {m \in Nat : m <= N => g[m] = f[m]}
<1>4. 0 \in T
  BY <1>2, <1>3
<1>5. ASSUME NEW m \in Nat, m \in T PROVE m + 1 \in T
  <2>1. SUFFICES ASSUME m + 1 <= N PROVE g[m + 1] = f[m + 1]
    OBVIOUS
  <2>2. m + 1 \in 1 .. N /\ m + 1 \in 1 .. N + 1 /\ (m + 1) - 1 = m /\ g[m] = f[m]
    BY <1>1, <1>5, <2>1
  <2>3. g[m + 1] = WordDoes(isa, g[m], more[m + 1]) /\ f[m + 1] = WordDoes(isa, f[m], words[m + 1])
    BY <1>2, <1>3, <2>2
  <2>4. QED
    BY <1>1, <2>2, <2>3
<1>6. g[N] = f[N]
  <2> HIDE DEF T
  <2>1. N \in T
    BY <1>1, <1>4, <1>5, AllNumbers
  <2>2. QED
    BY <1>1, <2>1 DEF T
<1>7. f[N] \in Int
  BY <1>1, <1>2
<1>8. N + 1 \in 1 .. N + 1 /\ (N + 1) - 1 = N
  BY <1>1
<1>9. g[N + 1] = WordDoes(isa, f[N], w)
  BY <1>1, <1>3, <1>6, <1>8
<1>10. QED
  BY <1>2, <1>3, <1>7, <1>9 DEF more

LEMMA AfterNothing ==
  ASSUME NEW isa \in Isas
  PROVE  RegisterAfter(isa, <<>>) = 0
<1>1. <<>> \in Seq(WordsOf(isa)) /\ Len(<<>>) = 0
  OBVIOUS
<1>2. QED
  BY <1>1, AfterRuns

\* One word, and two.
LEMMA AfterOne ==
  ASSUME NEW isa \in Isas, NEW w \in WordsOf(isa)
  PROVE  RegisterAfter(isa, <<w>>) = WordDoes(isa, 0, w)
<1>1. <<>> \in Seq(WordsOf(isa)) /\ <<>> \o <<w>> = <<w>>
  BY ConcatEmptySeq
<1>2. QED
  BY <1>1, AfterNothing, AfterByOne

-----------------------------------------------------------------------------
(* riscv64: what is left above the low part                                 *)

Multiple(x, V) == \E k \in Int : x = k * V

LEMMA MultipleSmall ==
  ASSUME NEW V \in Nat \ {0}, NEW x \in Int, Multiple(x, V), -V < x, x < V
  PROVE  x = 0
<1>1. PICK k \in Int : x = k * V
  BY DEF Multiple
<1>2. k < 1
  <2>1. k * V < 1 * V
    BY <1>1
  <2>2. 1 \in Int
    OBVIOUS
  <2>3. QED
    BY <1>1, <2>1, <2>2, FewerPages
<1>3. -1 < k
  <2>1. (-1) * V < k * V
    BY <1>1
  <2>2. -1 \in Int
    OBVIOUS
  <2>3. QED
    BY <1>1, <2>1, <2>2, FewerPages
<1>4. k = 0
  BY <1>2, <1>3
<1>5. QED
  BY <1>1, <1>4

LEMMA MultipleAlike ==
  ASSUME NEW V \in Int, NEW x \in Int, NEW y \in Int, Multiple(y, V), Alike(x, y, V)
  PROVE  Multiple(x, V)
<1>1. PICK k \in Int : x = y + k * V
  BY DEF Alike
<1>2. PICK j \in Int : y = j * V
  BY DEF Multiple
<1>3. j + k \in Int /\ j * V \in Int /\ k * V \in Int /\ (j + k) * V = j * V + k * V
  OBVIOUS
<1>4. x = (j + k) * V
  BY <1>1, <1>2, <1>3
<1>5. QED
  BY <1>3, <1>4 DEF Multiple

\* The instruction's own field reads back the low part.
LEMMA LowField ==
  ASSUME NEW v \in Int, NEW b, IsWidth(b)
  PROVE  Low(v, b) \in Int /\ Sext(Low(v, b), b) = Sext(v, b)
<1>1. Low(v, b) \in Int /\ Alike(Low(v, b), v, Pow(b))
  BY LowReads
<1>2. QED
  BY <1>1, SextAlike

LEMMA LowerReads ==
  ASSUME NEW v \in Int
  PROVE  /\ Lower(v) \in Int /\ FitsSigned(Lower(v), Pow(LowBits))
         /\ Sext(Low(Lower(v), LowBits), LowBits) = Lower(v) /\ Low(Lower(v), LowBits) \in Int
         /\ Upper(v) \in Int /\ Upper(v) + Lower(v) = v /\ Multiple(Upper(v), Pow(LowBits))
<1> DEFINE l == Lower(v)
           V == Pow(LowBits)
<1>1. IsWidth(LowBits) /\ V \in Int
  BY PartWidths, PowerEven DEF IsWidth
<1>2. l \in Int /\ FitsSigned(l, V) /\ Alike(l, v, V)
  BY <1>1, SextReads DEF Lower
<1>3. Upper(v) = v - l
  BY DEF Upper
<1> HIDE DEF l, V
<1>4. PICK k \in Int : l = v + k * V
  BY <1>2 DEF Alike
<1>5. k * V \in Int /\ -k \in Int /\ (-k) * V = -(k * V)
  BY <1>1
<1>6. Upper(v) \in Int /\ Upper(v) + l = v /\ Upper(v) = (-k) * V
  BY <1>2, <1>3, <1>4, <1>5
<1>7. Multiple(Upper(v), V)
  BY <1>5, <1>6 DEF Multiple
<1>8. Alike(l, l, V)
  BY <1>1, <1>2, AlikeItself
<1>9. Sext(l, LowBits) = l
  BY <1>1, <1>2, <1>8, SextIs DEF V
<1>10. Sext(Low(l, LowBits), LowBits) = l /\ Low(l, LowBits) \in Int
  BY <1>1, <1>2, <1>9, LowField
<1>11. QED
  BY <1>2, <1>6, <1>7, <1>10 DEF l, V

\* The steps of the processor.
LEMMA RiscvSteps ==
  ASSUME NEW x \in Int, NEW n
  PROVE  /\ WordDoes("riscv64", x, Word("addi", n)) = Sext(x + Sext(n, LowBits), RegBits)
         /\ WordDoes("riscv64", x, Word("addiw", n)) = Sext(x + Sext(n, LowBits), WordBits)
         /\ WordDoes("riscv64", x, Word("lui", n)) = Sext(n * Pow(LowBits), WordBits)
         /\ WordDoes("riscv64", x, Word("slli", n)) = Sext(x * Pow(n), RegBits)
BY DEF WordDoes, StepRiscv, Word, Pow

LEMMA RiscvWord ==
  /\ \A n \in Int : /\ Word("addi", n) \in RiscvWords /\ Word("addiw", n) \in RiscvWords
                    /\ Word("lui", n) \in RiscvWords
  /\ \A n \in 1 .. RegBits - 1 : Word("slli", n) \in RiscvWords
  /\ WordsOf("riscv64") = RiscvWords /\ "riscv64" \in Isas
BY DEF Word, RiscvWords, WordsOf, Isas

LEMMA LuiLoads ==
  ASSUME NEW v \in Int
  PROVE  LET n == Low(Upper(v) \div 2^LowBits, WordBits - LowBits)
         IN  n \in Int /\ Sext(n * Pow(LowBits), WordBits) = Sext(Upper(v), WordBits)
<1> DEFINE V == Pow(LowBits)
           W == Pow(WordBits - LowBits)
           q == Upper(v) \div V
           n == Low(q, WordBits - LowBits)
<1>1. V \in Nat \ {0} /\ W \in Int /\ IsWidth(WordBits - LowBits) /\ Pow(WordBits) = V * W
      /\ IsWidth(WordBits)
  <2>1. IsWidth(LowBits) /\ IsWidth(WordBits) /\ LowBits < WordBits
    BY PartWidths, WidthsInUse
  <2>2. QED
    BY <2>1, PowerSplits
<1>2. PICK k \in Int : Upper(v) = k * V
  BY LowerReads DEF Multiple
<1>3. Upper(v) \in Int
  BY LowerReads
<1>4. q = k
  <2> HIDE DEF V
  <2>1. Upper(v) = k * V + 0 /\ 0 < V /\ 0 \in Int /\ 0 <= 0
    BY <1>1, <1>2
  <2>2. QED
    BY <1>1, <1>3, <2>1, DivUnique
<1> HIDE DEF q
<1>5. n \in Int /\ Alike(n, k, W)
  BY <1>1, <1>4, LowReads
<1> HIDE DEF n, V, W
<1>6. Alike(n * V, k * V, W * V)
  <2>1. V \in Int
    BY <1>1
  <2>2. QED
    BY <1>1, <1>5, <2>1, AlikeTimes
<1>7. W * V = V * W /\ n * V \in Int
  BY <1>1, <1>5
<1>8. Alike(n * V, Upper(v), Pow(WordBits))
  BY <1>1, <1>2, <1>6, <1>7
<1>9. Sext(n * V, WordBits) = Sext(Upper(v), WordBits)
  BY <1>1, <1>3, <1>7, <1>8, SextAlike
<1>10. QED
  BY <1>5, <1>9 DEF n, q, V, Pow

\* A constant that is the sign extension of a word.
LEMMA WordLoads ==
  ASSUME NEW v \in Int, InWord(v)
  PROVE  LoadWord(v) \in Seq(RiscvWords) /\ RegisterAfter("riscv64", LoadWord(v)) = v
<1> DEFINE n == Low(Upper(v) \div 2^LowBits, WordBits - LowBits)
           m == Low(Lower(v), LowBits)
           lui == Word("lui", n)
           addiw == Word("addiw", m)
           u == Upper(v)
           l == Lower(v)
           isa == "riscv64"
<1>1. n \in Int /\ Sext(n * Pow(LowBits), WordBits) = Sext(u, WordBits)
  BY LuiLoads
<1>2. m \in Int /\ Sext(m, LowBits) = l /\ l \in Int /\ u \in Int /\ u + l = v
  BY LowerReads
<1>3. LoadWord(v) = (IF u # 0 THEN <<lui>> ELSE <<>>) \o (IF l # 0 \/ u = 0 THEN <<addiw>> ELSE <<>>)
  BY DEF LoadWord
<1>4. IsWidth(WordBits)
  BY PartWidths
<1>5. FitsSigned(v, Pow(WordBits))
  BY <1>4, FitsBounds DEF InWord, Pow
<1> HIDE DEF n, m, u, l
<1>6. lui \in RiscvWords /\ addiw \in RiscvWords /\ WordsOf(isa) = RiscvWords /\ isa \in Isas
  BY <1>1, <1>2, RiscvWord
<1>7. \A x \in Int : /\ WordDoes(isa, x, lui) = Sext(u, WordBits)
                     /\ WordDoes(isa, x, addiw) = Sext(x + l, WordBits)
  BY <1>1, <1>2, RiscvSteps
<1> HIDE DEF lui, addiw, isa
<1>8. Sext(v, WordBits) = v
  <2>1. Pow(WordBits) \in Int
    BY <1>4, PowerEven DEF IsWidth
  <2>2. Alike(v, v, Pow(WordBits))
    BY <2>1, AlikeItself
  <2>3. QED
    BY <1>4, <1>5, <2>2, SextIs
<1>9. <<lui>> \in Seq(RiscvWords) /\ <<addiw>> \in Seq(RiscvWords)
      /\ <<lui>> \o <<>> = <<lui>> /\ <<>> \o <<addiw>> = <<addiw>>
      /\ <<lui>> \o <<addiw>> \in Seq(RiscvWords)
  <2>1. <<lui>> \in Seq(RiscvWords) /\ <<addiw>> \in Seq(RiscvWords)
    BY <1>6
  <2>2. QED
    BY <2>1, ConcatProperties, ConcatEmptySeq
<1>10. CASE u = 0
  <2>1. LoadWord(v) = <<addiw>>
    BY <1>3, <1>9, <1>10
  <2>2. l = v
    BY <1>2, <1>10
  <2>3. 0 + l = v /\ 0 \in Int
    BY <2>2
  <2>4. RegisterAfter(isa, <<addiw>>) = WordDoes(isa, 0, addiw)
    BY <1>6, AfterOne
  <2>5. RegisterAfter(isa, <<addiw>>) = v
    BY <1>7, <1>8, <2>3, <2>4
  <2>6. QED
    BY <1>9, <2>1, <2>5 DEF isa
<1>11. CASE u # 0 /\ l = 0
  <2>1. LoadWord(v) = <<lui>>
    BY <1>3, <1>9, <1>11
  <2>2. u = v /\ 0 \in Int
    BY <1>2, <1>11
  <2>3. RegisterAfter(isa, <<lui>>) = WordDoes(isa, 0, lui)
    BY <1>6, AfterOne
  <2>4. RegisterAfter(isa, <<lui>>) = v
    BY <1>7, <1>8, <2>2, <2>3
  <2>5. QED
    BY <1>9, <2>1, <2>4 DEF isa
<1>12. CASE u # 0 /\ l # 0
  <2>1. LoadWord(v) = <<lui>> \o <<addiw>>
    BY <1>3, <1>12
  <2> DEFINE x == Sext(u, WordBits)
  <2>2. x \in Int /\ Alike(x, u, Pow(WordBits)) /\ Pow(WordBits) \in Int
    BY <1>2, <1>4, SextReads, PowerEven DEF IsWidth
  <2>3. RegisterAfter(isa, <<lui>>) = x
    <3>1. RegisterAfter(isa, <<lui>>) = WordDoes(isa, 0, lui) /\ 0 \in Int
      BY <1>6, AfterOne
    <3>2. QED
      BY <1>7, <3>1
  <2> HIDE DEF x
  <2>4. RegisterAfter(isa, <<lui>> \o <<addiw>>) = Sext(x + l, WordBits)
    <3>1. RegisterAfter(isa, <<lui>> \o <<addiw>>) = WordDoes(isa, x, addiw)
      BY <1>6, <1>9, <2>3, AfterByOne
    <3>2. QED
      BY <1>7, <2>2, <3>1
  <2>5. Alike(x + l, v, Pow(WordBits)) /\ x + l \in Int
    <3>1. Alike(x + l, u + l, Pow(WordBits))
      BY <1>2, <2>2, AlikePlus
    <3>2. QED
      BY <1>2, <2>2, <3>1
  <2>6. Sext(x + l, WordBits) = v
    BY <1>4, <1>5, <2>5, SextIs
  <2>7. QED
    BY <1>9, <2>1, <2>4, <2>6 DEF isa
<1>13. QED
  BY <1>10, <1>11, <1>12

\* The shift leaves nothing behind: below the lowest one there are zeros.
ZerosTo(u, s) == \A r \in LowBits .. s - 1 : Bit(u, r) = 0

LEMMA ZerosMultiple ==
  ASSUME NEW u \in Int, Multiple(u, Pow(LowBits)), NEW s \in LowBits .. RegBits, ZerosTo(u, s)
  PROVE  Multiple(u, Pow(s))
<1> DEFINE T == {m \in Nat : LowBits + m <= s => Multiple(u, Pow(LowBits + m))}
<1>1. LowBits \in Nat /\ RegBits \in Nat /\ s \in Nat /\ s <= Widest /\ LowBits <= s
  BY WidthsInUse
<1>2. 0 \in T
  <2>1. LowBits + 0 = LowBits
    BY <1>1
  <2>2. QED
    BY <2>1
<1>3. ASSUME NEW m \in Nat, m \in T PROVE m + 1 \in T
  <2>1. SUFFICES ASSUME LowBits + (m + 1) <= s PROVE Multiple(u, Pow(LowBits + (m + 1)))
    OBVIOUS
  <2> DEFINE r == LowBits + m
  <2>2. r \in Nat /\ r <= Widest /\ r \in LowBits .. s - 1 /\ LowBits + (m + 1) = r + 1 /\ r <= s
    BY <1>1, <2>1, WidthsInUse
  <2>3. Multiple(u, Pow(r))
    BY <1>3, <2>2
  <2> HIDE DEF r
  <2>4. Bit(u, r) = 0
    BY <2>2 DEF ZerosTo
  <2> DEFINE V == Pow(r)
  <2>5. V \in Nat \ {0} /\ Pow(r + 1) = 2 * V
    BY <2>2, PowerDoubles
  <2>6. (u \div V) % 2 = 0
    BY <2>4 DEF Bit, Pow
  <2> HIDE DEF V
  <2>7. PICK k \in Int : u = k * V
    BY <2>3 DEF Multiple, V
  <2>8. u \div V = k
    <3>1. u = k * V + 0 /\ 0 \in Int /\ 0 < V /\ 0 <= 0
      BY <2>5, <2>7
    <3>2. QED
      BY <2>5, <3>1, DivUnique
  <2>9. k = 2 * (k \div 2) /\ k \div 2 \in Int
    BY <2>6, <2>8
  <2> DEFINE j == k \div 2
  <2> HIDE DEF j
  <2>10. j \in Int /\ u = (2 * j) * V
    BY <2>7, <2>9 DEF j
  <2>11. (2 * j) * V = j * (2 * V)
    BY <2>5, <2>10, SMT
  <2>12. Multiple(u, Pow(r + 1))
    BY <2>5, <2>10, <2>11 DEF Multiple
  <2>13. QED
    BY <2>2, <2>12
<1> HIDE DEF T
<1>4. \A m \in Nat : m \in T
  BY <1>2, <1>3, AllNumbers
<1>5. s - LowBits \in Nat /\ LowBits + (s - LowBits) = s
  BY <1>1
<1>6. QED
  BY <1>1, <1>4, <1>5 DEF T

LEMMA ShiftFound ==
  ASSUME NEW u \in Int, u # 0, FitsSigned(u, Pow(RegBits)), Multiple(u, Pow(LowBits))
  PROVE  /\ ShiftCount(u) \in LowBits .. RegBits - 1 /\ Multiple(u, Pow(ShiftCount(u)))
<1> DEFINE Lowest(s) == Bit(u, s) = 1 /\ ZerosTo(u, s)
           T == {m \in Nat : LowBits + m <= RegBits => ZerosTo(u, LowBits + m)}
<1>1. LowBits \in Nat /\ RegBits \in Nat /\ LowBits < RegBits
  BY WidthsInUse
<1>2. \E s \in LowBits .. RegBits - 1 : Lowest(s)
  <2> SUFFICES ASSUME \A s \in LowBits .. RegBits - 1 : ~Lowest(s) PROVE FALSE
    OBVIOUS
  <2>1. 0 \in T
    BY <1>1 DEF ZerosTo
  <2>2. ASSUME NEW m \in Nat, m \in T PROVE m + 1 \in T
    <3>1. SUFFICES ASSUME LowBits + (m + 1) <= RegBits PROVE ZerosTo(u, LowBits + (m + 1))
      OBVIOUS
    <3> DEFINE s == LowBits + m
    <3>2. s \in LowBits .. RegBits - 1 /\ LowBits + (m + 1) = s + 1 /\ s \in Nat /\ s <= RegBits
          /\ s <= Widest
      BY <1>1, <3>1, WidthsInUse
    <3>3. ZerosTo(u, s)
      BY <2>2, <3>2
    <3> HIDE DEF s
    <3>4. Bit(u, s) # 1
      BY <3>2, <3>3
    <3>5. Bit(u, s) = 0
      <4> DEFINE q == u \div Pow(s)
      <4>1. q \in Int
        BY <3>2, PowerDoubles
      <4>2. Bit(u, s) = q % 2
        BY DEF Bit, Pow
      <4> HIDE DEF q
      <4>3. q % 2 = 0 \/ q % 2 = 1
        BY <4>1
      <4>4. QED
        BY <3>4, <4>2, <4>3
    <3>6. \A r \in LowBits .. (s + 1) - 1 : r = s \/ r \in LowBits .. s - 1
      BY <1>1, <3>2
    <3>7. ZerosTo(u, s + 1)
      BY <3>3, <3>5, <3>6 DEF ZerosTo
    <3>8. QED
      BY <3>2, <3>7
  <2> HIDE DEF T
  <2>3. \A m \in Nat : m \in T
    BY <2>1, <2>2, AllNumbers
  <2>4. RegBits - LowBits \in Nat /\ LowBits + (RegBits - LowBits) = RegBits
        /\ RegBits \in LowBits .. RegBits
    BY <1>1
  <2>5. ZerosTo(u, RegBits)
    BY <1>1, <2>3, <2>4 DEF T
  <2>6. Multiple(u, Pow(RegBits))
    BY <2>4, <2>5, ZerosMultiple
  <2>7. IsWidth(RegBits)
    BY PartWidths
  <2> DEFINE V == Pow(RegBits)
  <2>8. V \in Nat \ {0} /\ -V < u /\ u < V
    BY <2>7, PowerEven, FitsBounds DEF IsWidth
  <2> HIDE DEF V
  <2>9. u = 0
    BY <2>6, <2>8, MultipleSmall DEF V
  <2>10. QED
    BY <2>9
<1>3. ShiftCount(u) = CHOOSE s \in LowBits .. RegBits - 1 : Lowest(s)
  BY DEF ShiftCount, ZerosTo
<1> HIDE DEF Lowest
<1>4. ShiftCount(u) \in LowBits .. RegBits - 1 /\ Lowest(ShiftCount(u))
  BY <1>2, <1>3
<1>5. ShiftCount(u) \in LowBits .. RegBits
  BY <1>1, <1>4
<1>6. ZerosTo(u, ShiftCount(u))
  BY <1>4 DEF Lowest
<1>7. QED
  BY <1>4, <1>5, <1>6, ZerosMultiple

\* How far a number is from zero.
Size(v) == IF v < 0 THEN -v ELSE v

\* A constant beyond the word, reduced: nearer to zero, and shifting it back
\* gives what is above the low part.
Reduced(v) == WrappedUpper(v) \div 2^ShiftCount(WrappedUpper(v))

LEMMA UpperNear ==
  ASSUME NEW v \in Int, FitsSigned(v, Pow(RegBits)), ~InWord(v)
  PROVE  /\ WrappedUpper(v) \in Int /\ FitsSigned(WrappedUpper(v), Pow(RegBits))
         /\ Alike(WrappedUpper(v), Upper(v), Pow(RegBits))
         /\ Multiple(WrappedUpper(v), Pow(LowBits)) /\ WrappedUpper(v) # 0
         /\ 2 * Size(WrappedUpper(v)) <= 2 * Size(v) + Pow(LowBits) /\ Pow(LowBits) <= Size(v)
<1> DEFINE u == WrappedUpper(v)
           up == Upper(v)
           l == Lower(v)
           L == Pow(LowBits)
           R == Pow(RegBits)
           W == Pow(WordBits)
           h == Pow(LowBits - 1)
           w == Pow(WordBits - 1)
           g == Pow(RegBits - 1)
<1>1. IsWidth(LowBits) /\ IsWidth(WordBits) /\ IsWidth(RegBits) /\ LowBits < WordBits
      /\ WordBits < RegBits /\ LowBits < RegBits
  BY PartWidths, WidthsInUse
<1>2. L = 2 * h /\ W = 2 * w /\ R = 2 * g /\ h \in Nat \ {0} /\ w \in Nat \ {0} /\ g \in Nat \ {0}
  BY <1>1, PowerEven DEF IsWidth
<1>3. 2 * L <= W /\ 2 * W <= R
  BY <1>1, PowerSplits
<1>4. PICK m \in Int : R = L * m
  <2>1. Pow(RegBits) = Pow(LowBits) * Pow(RegBits - LowBits) /\ Pow(RegBits - LowBits) \in Int
    BY <1>1, PowerSplits
  <2>2. QED
    BY <2>1
<1>5. -g <= v /\ v < g
  BY <1>1, FitsBounds
<1>6. v < -w \/ v >= w
  BY <1>2 DEF InWord, Pow
<1>7. l \in Int /\ up \in Int /\ up + l = v /\ FitsSigned(l, L) /\ Multiple(up, L)
  BY LowerReads
<1>8. -h <= l /\ l < h
  BY <1>1, <1>7, FitsBounds
<1>9. u \in Int /\ FitsSigned(u, R) /\ Alike(u, up, R)
  BY <1>1, <1>7, SextReads DEF WrappedUpper
<1>10. -g <= u /\ u < g
  BY <1>1, <1>9, FitsBounds
<1>11. FitsSigned(up, R) => u = up
  <2> SUFFICES ASSUME FitsSigned(up, R) PROVE u = up
    OBVIOUS
  <2>1. R \in Int
    BY <1>2
  <2>2. Alike(up, up, R)
    BY <1>7, <2>1, AlikeItself
  <2>3. QED
    BY <1>1, <1>7, <2>2, SextIs DEF WrappedUpper
<1>12. FitsSigned(up, R) <=> -g <= up /\ up < g
  BY <1>1, <1>7, FitsBounds
<1> HIDE DEF u, up, l, L, R, W, h, w, g
<1>13. L \in Int /\ R \in Int /\ W \in Int
  BY <1>2
<1>14. up # 0 /\ -R < up /\ up < R
  BY <1>2, <1>3, <1>5, <1>6, <1>7, <1>8, <1>13
<1>15. Multiple(u, L)
  <2>1. Alike(u, up, L)
    BY <1>4, <1>7, <1>9, <1>13, AlikeFewer
  <2>2. QED
    BY <1>7, <1>9, <1>13, <2>1, MultipleAlike
<1>16. u # 0
  <2> SUFFICES ASSUME u = 0 PROVE FALSE
    OBVIOUS
  <2>1. Alike(up, 0, R) /\ 0 \in Int
    BY <1>7, <1>9, <1>13, AlikeBack
  <2>2. Multiple(up, R)
    <3>1. PICK k \in Int : up = 0 + k * R
      BY <2>1 DEF Alike
    <3>2. k * R \in Int
      BY <1>13
    <3>3. up = k * R
      BY <3>1, <3>2
    <3>4. QED
      BY <3>3 DEF Multiple
  <2>3. R \in Nat \ {0}
    BY <1>2
  <2>4. QED
    BY <1>7, <1>14, <2>2, <2>3, MultipleSmall
<1>17. L <= Size(v)
  BY <1>2, <1>3, <1>6, <1>13 DEF Size
<1>18. 2 * Size(u) <= 2 * Size(v) + L
  <2>1. CASE FitsSigned(up, R)
    <3>1. u = up
      BY <1>11, <2>1
    <3>2. QED
      BY <1>2, <1>7, <1>8, <3>1 DEF Size
  <2>2. CASE ~FitsSigned(up, R)
    <3>1. up < -g \/ up >= g
      BY <1>2, <1>7, <1>12, <2>2
    <3>2. Size(u) <= g
      BY <1>2, <1>9, <1>10 DEF Size
    <3>3. g <= Size(v) + h
      BY <1>2, <1>7, <1>8, <3>1 DEF Size
    <3>4. QED
      BY <1>2, <1>9, <3>2, <3>3 DEF Size
  <2>3. QED
    BY <2>1, <2>2
<1>19. QED
  BY <1>9, <1>15, <1>16, <1>17, <1>18 DEF u, up, L, R

LEMMA Nearer ==
  ASSUME NEW L \in Nat, L >= 2, NEW P \in Nat, L <= P, NEW x \in Nat, NEW a \in Nat,
         2 * (x * P) <= 2 * a + L, L <= a
  PROVE  x < a
<1> SUFFICES ASSUME a <= x PROVE FALSE
  OBVIOUS
<1>1. a * 2 <= a * P /\ a * P \in Nat
  BY SMT
<1>2. a * P <= x * P /\ x * P \in Nat
  BY SMT
<1>3. QED
  BY <1>1, <1>2

LEMMA ReducedNearer ==
  ASSUME NEW v \in Int, FitsSigned(v, Pow(RegBits)), ~InWord(v)
  PROVE  LET u == WrappedUpper(v)
             s == ShiftCount(u)
         IN  /\ s \in LowBits .. RegBits - 1 /\ s \in 1 .. RegBits - 1
             /\ Reduced(v) \in Int /\ Reduced(v) * Pow(s) = u
             /\ Size(Reduced(v)) < Size(v)
<1> DEFINE u == WrappedUpper(v)
           s == ShiftCount(u)
           P == Pow(s)
           L == Pow(LowBits)
           w == u \div P
<1>1. /\ u \in Int /\ FitsSigned(u, Pow(RegBits)) /\ Multiple(u, L) /\ u # 0
      /\ 2 * Size(u) <= 2 * Size(v) + L /\ L <= Size(v)
  BY UpperNear
<1> HIDE DEF u
<1>2. s \in LowBits .. RegBits - 1 /\ Multiple(u, P)
  BY <1>1, ShiftFound
<1>3. s \in 1 .. RegBits - 1 /\ IsWidth(s) /\ IsWidth(LowBits) /\ LowBits <= s
  BY <1>2, WidthsInUse DEF IsWidth
<1> HIDE DEF s
<1>4. P \in Nat \ {0} /\ L \in Nat /\ L >= 2
  BY <1>3, PowerEven, HalfOf DEF IsWidth
<1>5. L <= P
  <2>1. CASE LowBits = s
    BY <1>4, <2>1
  <2>2. CASE LowBits < s
    BY <1>3, <1>4, <2>2, PowerSplits
  <2>3. QED
    BY <1>3, <2>1, <2>2, WidthsInUse DEF IsWidth
<1>6. Reduced(v) = w
  BY DEF Reduced, Pow, u, s
<1> HIDE DEF P, L
<1>7. PICK k \in Int : u = k * P
  BY <1>2 DEF Multiple
<1>8. w = k
  <2>1. u = k * P + 0 /\ 0 \in Int /\ 0 < P /\ 0 <= 0
    BY <1>4, <1>7
  <2>2. QED
    BY <1>1, <1>4, <2>1, DivUnique
<1> HIDE DEF w
<1>9. Size(k) \in Nat /\ Size(v) \in Nat
  BY DEF Size
<1>10. Size(u) = Size(k) * P
  <2>1. CASE k >= 0
    <3>1. k * P >= 0
      BY <1>4, <2>1, SMT
    <3>2. QED
      BY <1>1, <1>7, <2>1, <3>1 DEF Size
  <2>2. CASE k < 0
    <3>1. k * P < 0 /\ (-k) * P = -(k * P)
      BY <1>4, <2>2, SMT
    <3>2. QED
      BY <1>1, <1>7, <2>2, <3>1 DEF Size
  <2>3. QED
    BY <2>1, <2>2
<1>11. Size(k) < Size(v)
  BY <1>1, <1>4, <1>5, <1>9, <1>10, Nearer
<1>12. QED
  BY <1>2, <1>3, <1>6, <1>7, <1>8, <1>11 DEF P, s, u

LEMMA ValuesFit ==
  /\ \A v \in RegisterValues : v \in Int /\ FitsSigned(v, Pow(RegBits))
  /\ \A v \in Int : FitsSigned(v, Pow(RegBits)) => v \in RegisterValues
  /\ \E g \in Nat : \A v \in RegisterValues : Size(v) <= g
  /\ \A v \in RegisterValues, w \in Int : Size(w) < Size(v) => w \in RegisterValues
<1> DEFINE g == Pow(RegBits - 1)
<1>1. IsWidth(RegBits)
  BY PartWidths
<1>2. g \in Nat \ {0}
  BY <1>1, PowerEven DEF IsWidth
<1>3. RegisterValues = -g .. g - 1
  BY DEF RegisterValues, Pow
<1>4. \A v \in Int : FitsSigned(v, Pow(RegBits)) <=> -g <= v /\ v < g
  BY <1>1, FitsBounds
<1> HIDE DEF g
<1>5. \A v \in RegisterValues : v \in Int /\ -g <= v /\ v < g
  BY <1>2, <1>3
<1>6. \A v \in Int : -g <= v /\ v < g => v \in RegisterValues
  BY <1>2, <1>3
<1>7. \A v \in RegisterValues : Size(v) <= g
  BY <1>2, <1>5 DEF Size
<1>8. ASSUME NEW v \in RegisterValues, NEW w \in Int, Size(w) < Size(v) PROVE w \in RegisterValues
  <2>1. Size(v) <= g /\ Size(v) \in Int /\ Size(w) \in Int
    BY <1>5, <1>7 DEF Size
  <2>2. -g <= w /\ w < g
    BY <1>2, <1>8, <2>1 DEF Size
  <2>3. QED
    BY <1>6, <2>2
<1>9. QED
  BY <1>2, <1>4, <1>5, <1>6, <1>7, <1>8

\* What follows the words that load the reduced constant.
Shifted(words, v) ==
  words \o <<Word("slli", ShiftCount(WrappedUpper(v)))>>
        \o (IF Lower(v) # 0 THEN <<Addi(Lower(v))>> ELSE <<>>)
LoadBy(f, v) == IF InWord(v) THEN LoadWord(v) ELSE Shifted(f[Reduced(v)], v)

\* LoadConst is what its definition says: the recursion comes nearer to zero.
LEMMA LoadConstUnfolds ==
  ASSUME NEW v \in RegisterValues
  PROVE  LoadConst[v] = LoadBy(LoadConst, v)
<1> DEFINE D == RegisterValues
           Loads(f) == [x \in D |-> LoadBy(f, x)]
           Near(n) == \E f : f = [x \in D |-> f[x]]
                             /\ \A x \in D : Size(x) <= n => f[x] = LoadBy(f, x)
           T == {n \in Nat : Near(n)}
<1>1. LoadConst = CHOOSE f : f = Loads(f)
  BY DEF LoadConst, LoadBy, Shifted, Reduced
<1>2. ASSUME NEW x \in D, ~InWord(x)
      PROVE  Reduced(x) \in D /\ Size(Reduced(x)) < Size(x) /\ Size(Reduced(x)) \in Nat /\ Size(x) \in Nat
  <2>1. x \in Int /\ FitsSigned(x, Pow(RegBits))
    BY ValuesFit
  <2>2. Reduced(x) \in Int /\ Size(Reduced(x)) < Size(x)
    BY <1>2, <2>1, ReducedNearer
  <2>3. Size(Reduced(x)) \in Nat /\ Size(x) \in Nat
    BY <2>1, <2>2 DEF Size
  <2>4. QED
    BY <2>2, <2>3, ValuesFit
<1>3. ASSUME NEW x \in D PROVE Size(x) \in Nat
  BY ValuesFit DEF Size
<1>4. ASSUME NEW f, NEW g, NEW x \in D,
             \A y \in D : Size(y) < Size(x) => f[y] = g[y]
      PROVE  LoadBy(f, x) = LoadBy(g, x)
  BY <1>2, <1>4 DEF LoadBy
<1>5. Near(0)
  <2> DEFINE f == [x \in D |-> LoadWord(x)]
  <2>1. f = [x \in D |-> f[x]]
    OBVIOUS
  <2>2. ASSUME NEW x \in D, Size(x) <= 0 PROVE f[x] = LoadBy(f, x)
    <3>1. InWord(x)
      <4> SUFFICES ASSUME ~InWord(x) PROVE FALSE
        OBVIOUS
      <4>1. Size(Reduced(x)) < Size(x) /\ Size(Reduced(x)) \in Nat /\ Size(x) \in Nat
        BY <1>2
      <4>2. QED
        BY <2>2, <4>1
    <3>2. QED
      BY <3>1 DEF LoadBy
  <2> HIDE DEF f
  <2>3. QED
    BY <2>1, <2>2
<1>6. ASSUME NEW n \in Nat, Near(n) PROVE Near(n + 1)
  <2>1. PICK f : f = [x \in D |-> f[x]] /\ \A x \in D : Size(x) <= n => f[x] = LoadBy(f, x)
    BY <1>6
  <2> DEFINE g == [x \in D |-> IF Size(x) <= n THEN f[x] ELSE LoadBy(f, x)]
  <2>2. g = [x \in D |-> g[x]]
    OBVIOUS
  <2>3. \A x \in D : g[x] = LoadBy(f, x)
    BY <2>1
  <2>4. \A y \in D : Size(y) <= n => g[y] = f[y]
    OBVIOUS
  <2> HIDE DEF g
  <2>5. ASSUME NEW x \in D, Size(x) <= n + 1 PROVE g[x] = LoadBy(g, x)
    <3>1. \A y \in D : Size(y) < Size(x) => Size(y) <= n
      BY <1>3, <2>5
    <3>2. \A y \in D : Size(y) < Size(x) => f[y] = g[y]
      BY <2>4, <3>1
    <3>3. LoadBy(f, x) = LoadBy(g, x)
      BY <1>4, <3>2
    <3>4. QED
      BY <2>3, <3>3
  <2>6. QED
    BY <2>2, <2>5
<1> HIDE DEF Near
<1>7. \A n \in Nat : n \in T
  <2>1. 0 \in T /\ \A n \in Nat : n \in T => n + 1 \in T
    BY <1>5, <1>6
  <2> HIDE DEF T
  <2>2. QED
    BY <2>1, AllNumbers
<1>8. PICK g \in Nat : \A x \in D : Size(x) <= g
  BY ValuesFit
<1>9. Near(g)
  BY <1>7
<1>10. PICK f : f = [x \in D |-> f[x]] /\ \A x \in D : Size(x) <= g => f[x] = LoadBy(f, x)
  BY <1>9 DEF Near
<1>11. f = Loads(f)
  <2>1. \A x \in D : f[x] = LoadBy(f, x)
    BY <1>8, <1>10
  <2> DEFINE h == [x \in D |-> f[x]]
  <2>2. h = [x \in D |-> LoadBy(f, x)]
    BY <2>1
  <2>3. QED
    BY <1>10, <2>2
<1> HIDE DEF Loads
<1>12. LoadConst = Loads(LoadConst)
  BY <1>1, <1>11
<1>13. QED
  BY <1>12 DEF Loads

\* Shifting the reduced constant back and adding the low part gives the
\* constant.
LEMMA ShiftedLoads ==
  ASSUME NEW v \in RegisterValues, ~InWord(v), NEW words \in Seq(RiscvWords),
         RegisterAfter("riscv64", words) = Reduced(v)
  PROVE  Shifted(words, v) \in Seq(RiscvWords) /\ RegisterAfter("riscv64", Shifted(words, v)) = v
<1> DEFINE u == WrappedUpper(v)
           s == ShiftCount(u)
           l == Lower(v)
           isa == "riscv64"
           slli == Word("slli", s)
           m == Low(l, LowBits)
           addi == Word("addi", m)
           R == Pow(RegBits)
           w == Reduced(v)
<1>1. v \in Int /\ FitsSigned(v, R)
  BY ValuesFit
<1>2. u \in Int /\ FitsSigned(u, R) /\ Alike(u, Upper(v), R)
  BY <1>1, UpperNear
<1>3. s \in 1 .. RegBits - 1 /\ w \in Int /\ w * Pow(s) = u
  BY <1>1, ReducedNearer
<1>4. l \in Int /\ Sext(m, LowBits) = l /\ m \in Int /\ Upper(v) \in Int /\ Upper(v) + l = v
  BY <1>1, LowerReads
<1>5. IsWidth(RegBits) /\ R \in Int
  BY PartWidths, PowerEven DEF IsWidth
<1> HIDE DEF u, l, m, R, w
<1>6. slli \in RiscvWords /\ addi \in RiscvWords /\ WordsOf(isa) = RiscvWords /\ isa \in Isas
  BY <1>3, <1>4, RiscvWord
<1>7. WordDoes(isa, w, slli) = Sext(u, RegBits)
  BY <1>3, RiscvSteps
<1>8. WordDoes(isa, u, addi) = Sext(u + l, RegBits)
  BY <1>2, <1>4, RiscvSteps
<1>9. Shifted(words, v) = (words \o <<slli>>) \o (IF l # 0 THEN <<addi>> ELSE <<>>)
  BY DEF Shifted, Addi, u, l, m
<1> HIDE DEF slli, addi, s, isa
<1>10. Sext(u, RegBits) = u
  <2>1. Alike(u, u, R)
    BY <1>2, <1>5, AlikeItself
  <2>2. QED
    BY <1>2, <1>5, <2>1, SextIs DEF R
<1>11. Alike(u + l, v, R) /\ u + l \in Int
  <2>1. Alike(u + l, Upper(v) + l, R)
    BY <1>2, <1>4, <1>5, AlikePlus
  <2>2. QED
    BY <1>2, <1>4, <2>1
<1>12. Sext(u + l, RegBits) = v
  BY <1>1, <1>5, <1>11, SextIs DEF R
<1> DEFINE more == words \o <<slli>>
<1>13. more \in Seq(RiscvWords) /\ more \o <<>> = more
  <2>1. <<slli>> \in Seq(RiscvWords)
    BY <1>6
  <2>2. more \in Seq(RiscvWords)
    BY <2>1, ConcatProperties
  <2> HIDE DEF more
  <2>3. QED
    BY <2>2, ConcatEmptySeq
<1>14. RegisterAfter(isa, words) = w
  BY DEF isa, w
<1>15. RegisterAfter(isa, more) = u
  <2>1. RegisterAfter(isa, more) = WordDoes(isa, w, slli)
    BY <1>6, <1>14, AfterByOne
  <2>2. QED
    BY <1>7, <1>10, <2>1
<1> HIDE DEF more
<1>16. CASE l = 0
  <2>1. Shifted(words, v) = more
    BY <1>9, <1>13, <1>16 DEF more
  <2>2. u + l = u
    BY <1>2, <1>16
  <2>3. u = v
    BY <1>10, <1>12, <2>2
  <2>4. QED
    BY <1>13, <1>15, <2>1, <2>3 DEF isa
<1>17. CASE l # 0
  <2>1. Shifted(words, v) = more \o <<addi>>
    BY <1>9, <1>17 DEF more
  <2>2. RegisterAfter(isa, more \o <<addi>>) = WordDoes(isa, u, addi)
    BY <1>6, <1>13, <1>15, AfterByOne
  <2>3. more \o <<addi>> \in Seq(RiscvWords)
    <3>1. <<addi>> \in Seq(RiscvWords)
      BY <1>6
    <3>2. QED
      BY <1>13, <3>1, ConcatProperties
  <2>4. QED
    BY <1>8, <1>12, <2>1, <2>2, <2>3 DEF isa
<1>18. QED
  BY <1>16, <1>17

LEMMA ConstLoads ==
  ASSUME NEW v \in RegisterValues
  PROVE  LoadConst[v] \in Seq(RiscvWords) /\ RegisterAfter("riscv64", LoadConst[v]) = v
<1> DEFINE OK(x) == LoadConst[x] \in Seq(RiscvWords) /\ RegisterAfter("riscv64", LoadConst[x]) = x
           T == {n \in Nat : \A x \in RegisterValues : Size(x) <= n => OK(x)}
<1>1. ASSUME NEW x \in RegisterValues, InWord(x) PROVE OK(x)
  <2>1. x \in Int
    BY ValuesFit
  <2>2. LoadConst[x] = LoadWord(x)
    BY <1>1, LoadConstUnfolds DEF LoadBy
  <2>3. QED
    BY <1>1, <2>1, <2>2, WordLoads
<1>2. ASSUME NEW x \in RegisterValues, ~InWord(x), Reduced(x) \in RegisterValues => OK(Reduced(x))
      PROVE  OK(x)
  <2>1. x \in Int /\ FitsSigned(x, Pow(RegBits))
    BY ValuesFit
  <2>2. Reduced(x) \in RegisterValues
    BY <1>2, <2>1, ReducedNearer, ValuesFit
  <2>3. LoadConst[x] = Shifted(LoadConst[Reduced(x)], x)
    BY <1>2, LoadConstUnfolds DEF LoadBy
  <2>4. QED
    BY <1>2, <2>2, <2>3, ShiftedLoads
<1>3. \A x \in RegisterValues : x \in Int /\ FitsSigned(x, Pow(RegBits)) /\ Size(x) \in Nat
  BY ValuesFit DEF Size
<1>4. ASSUME NEW x \in RegisterValues, ~InWord(x)
      PROVE  Reduced(x) \in Int /\ Size(Reduced(x)) < Size(x) /\ Size(Reduced(x)) \in Nat
  <2>1. Reduced(x) \in Int /\ Size(Reduced(x)) < Size(x)
    BY <1>3, <1>4, ReducedNearer
  <2>2. QED
    BY <2>1 DEF Size
<1> HIDE DEF OK
<1>5. 0 \in T
  <2>1. ASSUME NEW x \in RegisterValues, Size(x) <= 0 PROVE OK(x)
    <3>1. CASE InWord(x)
      BY <1>1, <3>1
    <3>2. CASE ~InWord(x)
      <4>1. FALSE
        BY <1>3, <1>4, <2>1, <3>2
      <4>2. QED
        BY <4>1
    <3>3. QED
      BY <3>1, <3>2
  <2>2. QED
    BY <2>1
<1>6. ASSUME NEW n \in Nat, n \in T PROVE n + 1 \in T
  <2>1. ASSUME NEW x \in RegisterValues, Size(x) <= n + 1 PROVE OK(x)
    <3>1. CASE InWord(x)
      BY <1>1, <3>1
    <3>2. CASE ~InWord(x)
      <4>1. Size(Reduced(x)) <= n
        BY <1>3, <1>4, <2>1, <3>2
      <4>2. Reduced(x) \in RegisterValues => OK(Reduced(x))
        BY <1>6, <4>1
      <4>3. QED
        BY <1>2, <3>2, <4>2
    <3>3. QED
      BY <3>1, <3>2
  <2>2. QED
    BY <2>1
<1>7. \A n \in Nat : n \in T
  <2> HIDE DEF T
  <2>1. QED
    BY <1>5, <1>6, AllNumbers
<1>8. OK(v)
  BY <1>3, <1>7
<1>9. QED
  BY <1>8 DEF OK

LEMMA RiscvLoads ==
  ASSUME NEW value \in Int
  PROVE  /\ LiRiscv(value) \in Seq(RiscvWords)
         /\ RegisterAfter("riscv64", LiRiscv(value)) = Sext(value, RegBits)
<1> DEFINE v == Sext(value, RegBits)
           isa == "riscv64"
           m == Low(v, LowBits)
           addi == Word("addi", m)
           h == Pow(LowBits - 1)
           short == -h <= v /\ v < h
<1>1. IsWidth(RegBits) /\ IsWidth(LowBits) /\ Pow(RegBits) \in Int /\ Pow(LowBits) \in Int
  BY PartWidths, PowerEven DEF IsWidth
<1>2. v \in Int /\ FitsSigned(v, Pow(RegBits))
  BY <1>1, SextReads
<1>3. v \in RegisterValues
  BY <1>2, ValuesFit
<1>4. LiRiscv(value) = IF short THEN <<addi>> ELSE LoadConst[v]
  BY DEF LiRiscv, Addi, Pow
<1> HIDE DEF v, short
<1>5. CASE ~short
  BY <1>3, <1>4, <1>5, ConstLoads DEF v
<1>6. CASE short
  <2>1. FitsSigned(v, Pow(LowBits))
    BY <1>1, <1>2, <1>6, FitsBounds DEF short
  <2>2. Alike(v, v, Pow(LowBits)) /\ Alike(v, v, Pow(RegBits))
    BY <1>1, <1>2, AlikeItself
  <2>3. Sext(v, LowBits) = v /\ Sext(v, RegBits) = v
    BY <1>1, <1>2, <2>1, <2>2, SextIs
  <2>4. m \in Int /\ Sext(m, LowBits) = v
    BY <1>1, <1>2, <2>3, LowField
  <2> HIDE DEF m
  <2>5. addi \in RiscvWords /\ WordsOf(isa) = RiscvWords /\ isa \in Isas /\ 0 \in Int
    BY <2>4, RiscvWord
  <2>6. WordDoes(isa, 0, addi) = Sext(0 + v, RegBits)
    BY <2>4, <2>5, RiscvSteps
  <2>7. 0 + v = v
    BY <1>2
  <2> HIDE DEF addi, isa
  <2>8. RegisterAfter(isa, <<addi>>) = v
    BY <2>3, <2>5, <2>6, <2>7, AfterOne
  <2>9. <<addi>> \in Seq(RiscvWords)
    BY <2>5
  <2>10. QED
    BY <1>4, <1>6, <2>8, <2>9 DEF v, isa
<1>7. QED
  BY <1>5, <1>6

-----------------------------------------------------------------------------
(* loongarch64: a part above another                                        *)

\* q is a part of N values above what x is up to M, r.
OnTop(x, M, N, V, q, r) ==
  /\ r \in 0 .. M - 1 /\ q \in 0 .. N - 1
  /\ x % V = q * M + r
  /\ 2 * (x % V) >= V <=> 2 * q >= N
  /\ Signed(x % V, V) = Signed(q, N) * M + r
  /\ q = (IF 2 * r >= M THEN N - 1 ELSE 0) => Signed(x % V, V) = Signed(r, M)

LEMMA PartAbove ==
  ASSUME NEW M \in Even, NEW N \in Even, NEW x \in Int
  PROVE  OnTop(x, M, N, M * N, (x \div M) % N, x % M)
<1> DEFINE r == x % M
           q == (x \div M) % N
           V == M * N
           e == x \div M
           d == (x \div M) \div N
           h == N \div 2
           y == x % V
<1>1. M \in Nat \ {0} /\ N \in Nat \ {0} /\ N = 2 * h /\ h \in Nat \ {0}
  BY HalfOf
<1>2. e \in Int /\ r \in Int /\ 0 <= r /\ r < M /\ x = e * M + r
  BY <1>1, DivMod
<1> HIDE DEF e, r
<1>3. d \in Int /\ q \in Int /\ 0 <= q /\ q < N /\ e = d * N + q
  BY <1>1, <1>2, DivMod DEF e
<1> HIDE DEF d, q, h
<1>4. V \in Nat \ {0}
  BY <1>1
<1>5. d * N \in Int /\ q * M \in Int /\ (d * N) * M = d * V /\ d * V \in Int
  BY <1>1, <1>3, SMT
<1>6. (d * N + q) * M = (d * N) * M + q * M
  <2> DEFINE w == d * N
  <2>1. w \in Int
    BY <1>5
  <2> HIDE DEF w
  <2>2. (w + q) * M = w * M + q * M
    BY <1>1, <1>3, <2>1, SMT
  <2>3. QED
    BY <2>2 DEF w
<1>7. x = d * V + (q * M + r)
  BY <1>2, <1>3, <1>5, <1>6
<1>8. q * M + M <= V /\ 0 <= q * M
  <2>1. q + 1 <= N /\ q + 1 \in Int /\ N \in Int
    BY <1>1, <1>3
  <2>2. (q + 1) * M <= N * M
    BY <1>1, <2>1, MultiplesOrdered
  <2>3. (q + 1) * M = q * M + M /\ N * M = M * N /\ M * N \in Int
    BY <1>1, <1>3, SMT
  <2>4. 0 * M <= q * M
    BY <1>1, <1>3, MultiplesOrdered
  <2>5. QED
    BY <1>1, <1>5, <2>2, <2>3, <2>4
<1> HIDE DEF V
<1>9. y = q * M + r
  <2> DEFINE s == q * M + r
  <2>1. s \in Int /\ 0 <= s /\ s < V /\ x = d * V + s
    BY <1>1, <1>2, <1>4, <1>5, <1>7, <1>8
  <2> HIDE DEF s
  <2>2. x % V = s
    BY <1>3, <1>4, <2>1, DivUnique
  <2>3. QED
    BY <2>2 DEF s
<1> HIDE DEF y
<1>10. V = 2 * (h * M) /\ h * M \in Int
  <2>1. M * (2 * h) = 2 * (h * M)
    BY <1>1, SMT
  <2>2. QED
    BY <1>1, <2>1 DEF V
<1>11. 2 * y >= V <=> 2 * q >= N
  <2>1. CASE q >= h
    <3>1. h * M <= q * M
      BY <1>1, <1>3, <2>1, MultiplesOrdered
    <3>2. QED
      BY <1>1, <1>2, <1>3, <1>5, <1>9, <1>10, <2>1, <3>1
  <2>2. CASE q < h
    <3>1. q + 1 <= h /\ q + 1 \in Int
      BY <1>1, <1>3, <2>2
    <3>2. (q + 1) * M <= h * M
      BY <1>1, <3>1, MultiplesOrdered
    <3>3. (q + 1) * M = q * M + M
      BY <1>1, <1>3, SMT
    <3>4. QED
      BY <1>1, <1>2, <1>3, <1>5, <1>9, <1>10, <2>2, <3>2, <3>3
  <2>3. QED
    BY <1>1, <1>3, <2>1, <2>2
<1>12. Signed(y, V) = Signed(q, N) * M + r
  <2>1. CASE 2 * q >= N
    <3>1. (q - N) * M = q * M - N * M /\ N * M = V
      BY <1>1, <1>3, SMT DEF V
    <3>2. Signed(q, N) = q - N /\ Signed(y, V) = y - V
      BY <1>11, <2>1 DEF Signed
    <3>3. y - V = (q * M - V) + r
      BY <1>2, <1>4, <1>5, <1>9
    <3>4. QED
      BY <3>1, <3>2, <3>3
  <2>2. CASE ~(2 * q >= N)
    BY <1>9, <1>11, <2>2 DEF Signed
  <2>3. QED
    BY <2>1, <2>2
<1>13. ASSUME q = (IF 2 * r >= M THEN N - 1 ELSE 0) PROVE Signed(y, V) = Signed(r, M)
  <2>1. CASE 2 * r >= M
    <3>1. q = N - 1 /\ 2 * q >= N
      BY <1>1, <1>13, <2>1
    <3>2. Signed(q, N) = -1
      BY <1>1, <3>1 DEF Signed
    <3>3. Signed(r, M) = r - M
      BY <2>1 DEF Signed
    <3>4. (-1) * M + r = r - M
      BY <1>1, <1>2
    <3>5. QED
      BY <1>12, <3>2, <3>3, <3>4
  <2>2. CASE ~(2 * r >= M)
    <3>1. q = 0 /\ ~(2 * q >= N)
      BY <1>1, <1>13, <2>2
    <3>2. Signed(q, N) = 0
      BY <3>1 DEF Signed
    <3>3. Signed(r, M) = r
      BY <2>2 DEF Signed
    <3>4. 0 * M + r = r
      BY <1>1, <1>2
    <3>5. QED
      BY <1>12, <3>2, <3>3, <3>4
  <2>3. QED
    BY <2>1, <2>2
<1>14. r \in 0 .. M - 1 /\ q \in 0 .. N - 1
  BY <1>1, <1>2, <1>3
<1>15. QED
  BY <1>9, <1>11, <1>12, <1>13, <1>14 DEF y, V, r, q, OnTop

\* The four parts of v, and what it is up to each of them.
PartsOf(v) == [k \in 1 .. 4 |-> Low(v \div 2^Above(k), Parts[k])]
Above3 == LowHalf + Parts[3]

LEMMA PartWeights ==
  LET A == Pow(Parts[1])
      B == Pow(Parts[2])
      C == Pow(Parts[3])
      E == Pow(Parts[4])
  IN  /\ A \in Even /\ B \in Even /\ C \in Even /\ E \in Even
      /\ Pow(LowHalf) \in Even /\ Pow(Above3) \in Even
      /\ Pow(LowHalf) = A * B /\ Pow(Above3) = Pow(LowHalf) * C /\ Pow(FullWidth) = Pow(Above3) * E
<1>1. /\ Parts[1] \in Nat /\ Parts[2] \in Nat /\ Parts[3] \in Nat /\ Parts[4] \in Nat
      /\ Parts[1] > 0 /\ Parts[2] > 0 /\ Parts[3] > 0 /\ Parts[4] > 0
  <2>1. 1 \in 1 .. 4 /\ 2 \in 1 .. 4 /\ 3 \in 1 .. 4 /\ 4 \in 1 .. 4
    OBVIOUS
  <2>2. \A i \in 1 .. 4 : Parts[i] \in Nat /\ Parts[i] > 1
    BY WidthsInUse
  <2>3. QED
    BY <2>1, <2>2
<1>2. LowHalf = Parts[1] + Parts[2] /\ FullWidth = Above3 + Parts[4] /\ Above3 = LowHalf + Parts[3]
  BY PartWidths DEF Above3
<1>3. FullWidth <= Widest /\ Widest \in Nat
  BY WidthsInUse
<1>4. Pow(LowHalf) = Pow(Parts[1]) * Pow(Parts[2])
  <2>1. Parts[1] + Parts[2] <= Widest
    BY <1>1, <1>2, <1>3
  <2>2. QED
    BY <1>1, <1>2, <2>1, PowersTimes
<1>5. Pow(Above3) = Pow(LowHalf) * Pow(Parts[3])
  <2>1. LowHalf \in Nat /\ LowHalf + Parts[3] <= Widest
    BY <1>1, <1>2, <1>3
  <2>2. QED
    BY <1>1, <1>2, <2>1, PowersTimes
<1>6. Pow(FullWidth) = Pow(Above3) * Pow(Parts[4])
  <2>1. Above3 \in Nat /\ Above3 + Parts[4] <= Widest
    BY <1>1, <1>2, <1>3
  <2>2. QED
    BY <1>1, <1>2, <2>1, PowersTimes
<1>7. /\ IsWidth(Parts[1]) /\ IsWidth(Parts[2]) /\ IsWidth(Parts[3]) /\ IsWidth(Parts[4])
      /\ IsWidth(LowHalf) /\ IsWidth(Above3)
  BY <1>1, <1>2, <1>3 DEF IsWidth
<1>8. \A b : IsWidth(b) => Pow(b) \in Even
  BY PowerEven DEF IsWidth
<1>9. QED
  BY <1>4, <1>5, <1>6, <1>7, <1>8

\* Each part above what is below it.
LEMMA PartsRead ==
  ASSUME NEW v \in Int
  PROVE  LET p == PartsOf(v)
             A == Pow(Parts[1])
             B == Pow(Parts[2])
             C == Pow(Parts[3])
             E == Pow(Parts[4])
             H == Pow(LowHalf)
             G == Pow(Above3)
             F == Pow(FullWidth)
         IN  /\ p[1] \in 0 .. A - 1 /\ p[2] \in 0 .. B - 1 /\ p[3] \in 0 .. C - 1 /\ p[4] \in 0 .. E - 1
             /\ v % A = p[1] /\ v % H = p[2] * A + p[1]
             /\ v % G = p[3] * H + (v % H) /\ v % F = p[4] * G + (v % G)
             /\ Sext(v, LowHalf) = Signed(p[2], B) * A + p[1]
             /\ Sext(v, Above3) = Signed(p[3], C) * H + (v % H)
             /\ Extends(p, 1) <=> p[1] = 0
             /\ Extends(p, 2) => Sext(v, LowHalf) = Signed(p[1], A)
             /\ Extends(p, 2) /\ p[1] = 0 => p[2] = 0
             /\ Extends(p, 3) => Sext(v, Above3) = Sext(v, LowHalf)
             /\ Extends(p, 3) /\ p[2] = 0 => p[3] = 0
             /\ Extends(p, 4) => Sext(v, FullWidth) = Sext(v, Above3)
<1> DEFINE p == PartsOf(v)
           A == Pow(Parts[1])
           B == Pow(Parts[2])
           C == Pow(Parts[3])
           E == Pow(Parts[4])
           H == Pow(LowHalf)
           G == Pow(Above3)
           F == Pow(FullWidth)
<1>1. /\ A \in Even /\ B \in Even /\ C \in Even /\ E \in Even /\ H \in Even /\ G \in Even
      /\ H = A * B /\ G = H * C /\ F = G * E
  BY PartWeights
<1>2. /\ IsWidth(Parts[1]) /\ IsWidth(Parts[2]) /\ IsWidth(Parts[3]) /\ IsWidth(Parts[4])
      /\ IsWidth(LowHalf) /\ IsWidth(Above3) /\ IsWidth(FullWidth)
  BY PartWidths DEF Above3
<1>3. Pow(0) = 1
  BY WidthsInUse, PowerDoubles
<1>4. Above(1) = 0 /\ Above(2) = Parts[1] /\ Above(3) = LowHalf /\ Above(4) = Above3
  BY DEF Above, Above3
<1>5. v \div Pow(0) = v
  BY <1>3
<1>6. /\ p[1] = v % A /\ p[2] = (v \div A) % B /\ p[3] = (v \div H) % C /\ p[4] = (v \div G) % E
  <2>1. \A k \in 1 .. 4 : p[k] = (v \div Pow(Above(k))) % Pow(Parts[k])
    BY DEF PartsOf, Low, Pow
  <2>2. 1 \in 1 .. 4 /\ 2 \in 1 .. 4 /\ 3 \in 1 .. 4 /\ 4 \in 1 .. 4
    OBVIOUS
  <2>3. QED
    BY <1>4, <1>5, <2>1, <2>2
<1>7. /\ Sext(v, LowHalf) = Signed(v % H, H) /\ Sext(v, Above3) = Signed(v % G, G)
      /\ Sext(v, FullWidth) = Signed(v % F, F)
  BY <1>2, SextReads
<1>8. /\ A = 2 * Pow(Parts[1] - 1) /\ B = 2 * Pow(Parts[2] - 1) /\ C = 2 * Pow(Parts[3] - 1)
      /\ Pow(Parts[1] - 1) \in Nat \ {0} /\ Pow(Parts[2] - 1) \in Nat \ {0}
      /\ Pow(Parts[3] - 1) \in Nat \ {0}
  BY <1>2, PowerEven DEF IsWidth
<1>9. /\ Extends(p, 1) <=> p[1] = 0
      /\ Extends(p, 2) <=> p[2] = IF p[1] >= Pow(Parts[1] - 1) THEN B - 1 ELSE 0
      /\ Extends(p, 3) <=> p[3] = IF p[2] >= Pow(Parts[2] - 1) THEN C - 1 ELSE 0
      /\ Extends(p, 4) <=> p[4] = IF p[3] >= Pow(Parts[3] - 1) THEN E - 1 ELSE 0
  <2> HIDE DEF p
  <2>1. Extends(p, 1) <=> p[1] = 0
    BY DEF Extends
  <2>2. ASSUME NEW k \in {2, 3, 4}
        PROVE  Extends(p, k) <=> p[k] = IF p[k - 1] >= 2^(Parts[k - 1] - 1) THEN 2^Parts[k] - 1 ELSE 0
    <3>1. k > 1
      OBVIOUS
    <3>2. QED
      BY <3>1 DEF Extends
  <2>3. 2 - 1 = 1 /\ 3 - 1 = 2 /\ 4 - 1 = 3 /\ 2 \in {2, 3, 4} /\ 3 \in {2, 3, 4} /\ 4 \in {2, 3, 4}
    OBVIOUS
  <2>4. /\ Extends(p, 2) <=> p[2] = IF p[2 - 1] >= 2^(Parts[2 - 1] - 1) THEN 2^Parts[2] - 1 ELSE 0
        /\ Extends(p, 3) <=> p[3] = IF p[3 - 1] >= 2^(Parts[3 - 1] - 1) THEN 2^Parts[3] - 1 ELSE 0
        /\ Extends(p, 4) <=> p[4] = IF p[4 - 1] >= 2^(Parts[4 - 1] - 1) THEN 2^Parts[4] - 1 ELSE 0
    BY <2>2, <2>3
  <2>5. QED
    BY <2>1, <2>3, <2>4 DEF Pow
<1> HIDE DEF p, A, B, C, E, H, G, F
<1>10. /\ p[1] \in 0 .. A - 1 /\ p[2] \in 0 .. B - 1
       /\ v % H = p[2] * A + p[1]
       /\ 2 * (v % H) >= H <=> 2 * p[2] >= B
       /\ Signed(v % H, H) = Signed(p[2], B) * A + p[1]
       /\ p[2] = (IF 2 * p[1] >= A THEN B - 1 ELSE 0) => Signed(v % H, H) = Signed(p[1], A)
  <2>1. OnTop(v, A, B, A * B, (v \div A) % B, v % A)
    BY <1>1, PartAbove
  <2>2. QED
    BY <1>1, <1>6, <2>1 DEF OnTop
<1>11. /\ v % H \in 0 .. H - 1 /\ p[3] \in 0 .. C - 1
       /\ v % G = p[3] * H + (v % H)
       /\ 2 * (v % G) >= G <=> 2 * p[3] >= C
       /\ Signed(v % G, G) = Signed(p[3], C) * H + (v % H)
       /\ p[3] = (IF 2 * (v % H) >= H THEN C - 1 ELSE 0) => Signed(v % G, G) = Signed(v % H, H)
  <2>1. OnTop(v, H, C, H * C, (v \div H) % C, v % H)
    BY <1>1, PartAbove
  <2>2. QED
    BY <1>1, <1>6, <2>1 DEF OnTop
<1>12. /\ p[4] \in 0 .. E - 1
       /\ v % F = p[4] * G + (v % G)
       /\ p[4] = (IF 2 * (v % G) >= G THEN E - 1 ELSE 0) => Signed(v % F, F) = Signed(v % G, G)
  <2>1. OnTop(v, G, E, G * E, (v \div G) % E, v % G)
    BY <1>1, PartAbove
  <2>2. QED
    BY <1>1, <1>6, <2>1 DEF OnTop
<1>13. A \in Int /\ B \in Int /\ C \in Int /\ E \in Int
  BY <1>1, HalfOf
<1>14. p[1] \in Int /\ p[2] \in Int /\ p[3] \in Int /\ p[4] \in Int
  BY <1>10, <1>11, <1>12, <1>13
<1>15. /\ p[1] >= Pow(Parts[1] - 1) <=> 2 * p[1] >= A
       /\ p[2] >= Pow(Parts[2] - 1) <=> 2 * p[2] >= B
       /\ p[3] >= Pow(Parts[3] - 1) <=> 2 * p[3] >= C
  BY <1>8, <1>14
<1>16. Extends(p, 2) => Sext(v, LowHalf) = Signed(p[1], A)
  BY <1>7, <1>9, <1>10, <1>15
<1>17. Extends(p, 3) => Sext(v, Above3) = Sext(v, LowHalf)
  BY <1>7, <1>9, <1>10, <1>11, <1>15
<1>18. Extends(p, 4) => Sext(v, FullWidth) = Sext(v, Above3)
  BY <1>7, <1>9, <1>11, <1>12, <1>15
<1>19. Extends(p, 2) /\ p[1] = 0 => p[2] = 0
  BY <1>8, <1>9
<1>20. Extends(p, 3) /\ p[2] = 0 => p[3] = 0
  BY <1>8, <1>9
<1>21. Extends(p, 1) <=> p[1] = 0
  BY <1>9
<1>22. Sext(v, LowHalf) = Signed(p[2], B) * A + p[1] /\ Sext(v, Above3) = Signed(p[3], C) * H + (v % H)
  BY <1>7, <1>10, <1>11
<1>23. QED
  BY <1>6, <1>10, <1>11, <1>12, <1>16, <1>17, <1>18, <1>19, <1>20, <1>21, <1>22 DEF p, A, B, C, E, H, G, F

\* The steps of the processor.
LEMMA LoongSteps ==
  ASSUME NEW x \in Int, NEW n
  PROVE  LET isa == "loongarch64" IN
         /\ WordDoes(isa, x, Word("ori_zero", n)) = n
         /\ WordDoes(isa, x, Word("or_zero", n)) = 0
         /\ WordDoes(isa, x, Word("addi_w", n)) = Sext(Sext(n, Parts[1]), LowHalf)
         /\ WordDoes(isa, x, Word("lu12i_w", n)) = Sext(n * Pow(Parts[1]), LowHalf)
         /\ WordDoes(isa, x, Word("ori", n)) = Insert(x \div Pow(Parts[1]), n, Parts[1])
         /\ WordDoes(isa, x, Word("lu32i_d", n)) = Insert(Sext(n, Parts[3]), x, LowHalf)
         /\ WordDoes(isa, x, Word("lu52i_d", n)) = Sext(Insert(n, x, Above3), FullWidth)
         /\ WordDoes(isa, x, Word("lu52i_d_zero", n)) = Sext(Insert(n, 0, Above3), FullWidth)
BY DEF WordDoes, StepLoongarch, Word, Pow, Above3

LEMMA LoongWord ==
  ASSUME NEW n \in Int
  PROVE  /\ \A op \in {"ori_zero", "or_zero", "addi_w", "lu12i_w", "ori", "lu32i_d", "lu52i_d",
                       "lu52i_d_zero"} : Word(op, n) \in LoongWords
         /\ WordsOf("loongarch64") = LoongWords /\ "loongarch64" \in Isas
BY DEF Word, LoongWords, WordsOf, Isas

\* A pattern is its own rest, and a part its own field.
LEMMA OwnRest ==
  ASSUME NEW M \in Nat \ {0}, NEW n \in 0 .. M - 1
  PROVE  n % M = n /\ n \in Int
<1>1. n = 0 * M + n /\ n \in Int /\ 0 <= n /\ n < M /\ 0 \in Int
  OBVIOUS
<1>2. QED
  BY <1>1, DivUnique

LEMMA FieldSigned ==
  ASSUME NEW b, IsWidth(b), NEW n \in 0 .. Pow(b) - 1
  PROVE  n \in Int /\ Sext(n, b) = Signed(n, Pow(b))
<1>1. Pow(b) \in Nat \ {0}
  BY PowerEven, HalfOf DEF IsWidth
<1>2. n % Pow(b) = n /\ n \in Int
  BY <1>1, OwnRest
<1>3. QED
  BY <1>2, SextReads

\* The second part without the first.
LEMMA SecondPart ==
  ASSUME NEW n \in 0 .. Pow(Parts[2]) - 1
  PROVE  /\ Signed(n, Pow(Parts[2])) \in Int
         /\ Sext(n * Pow(Parts[1]), LowHalf) = Signed(n, Pow(Parts[2])) * Pow(Parts[1])
<1> DEFINE A == Pow(Parts[1])
           B == Pow(Parts[2])
           x == n * A
<1>1. A \in Even /\ B \in Even /\ Pow(LowHalf) = A * B /\ IsWidth(LowHalf)
  BY PartWeights, PartWidths
<1>2. A \in Nat \ {0} /\ B \in Nat \ {0} /\ n \in 0 .. B - 1
  BY <1>1, HalfOf
<1> HIDE DEF A, B
<1>3. n \in Int /\ n % B = n
  BY <1>2, OwnRest
<1>4. x \in Int /\ x = n * A + 0 /\ 0 \in Int /\ 0 <= 0 /\ 0 < A
  BY <1>2, <1>3
<1> HIDE DEF x
<1>5. x \div A = n /\ x % A = 0
  BY <1>2, <1>3, <1>4, DivUnique
<1>6. OnTop(x, A, B, A * B, (x \div A) % B, x % A)
  BY <1>1, <1>4, PartAbove
<1>7. OnTop(x, A, B, A * B, n, 0)
  BY <1>3, <1>5, <1>6
<1>8. Signed(x % (A * B), A * B) = Signed(n, B) * A + 0
  BY <1>7 DEF OnTop
<1>9. Sext(x, LowHalf) = Signed(x % (A * B), A * B)
  BY <1>1, <1>4, SextReads
<1>10. Signed(n, B) \in Int
  BY <1>2, <1>3 DEF Signed
<1>11. Signed(n, B) * A + 0 = Signed(n, B) * A
  BY <1>2, <1>10
<1>12. QED
  BY <1>8, <1>9, <1>10, <1>11 DEF x, A, B

\* One word and another.
LEMMA OneAndOne ==
  ASSUME NEW a, NEW b
  PROVE  <<a>> \o <<b>> = <<a, b>>
<1>1. <<a>> \in Seq({a, b}) /\ <<b>> \in Seq({a, b}) /\ <<a, b>> \in Seq({a, b})
  OBVIOUS
<1>2. /\ Len(<<a>>) = 1 /\ Len(<<b>>) = 1 /\ Len(<<a, b>>) = 2
      /\ <<a>>[1] = a /\ <<b>>[1] = b /\ <<a, b>>[1] = a /\ <<a, b>>[2] = b
  OBVIOUS
<1> DEFINE p == <<a>>
           q == <<b>>
           r == <<a, b>>
<1> HIDE DEF p, q, r
<1>3. p \o q \in Seq({a, b}) /\ Len(p \o q) = 2 /\ (p \o q)[1] = a /\ (p \o q)[2] = b
  <2>1. /\ p \o q \in Seq({a, b})
         /\ Len(p \o q) = Len(p) + Len(q)
         /\ \A i \in 1 .. Len(p) + Len(q) : (p \o q)[i] = IF i <= Len(p) THEN p[i] ELSE q[i - Len(p)]
    BY <1>1, ConcatProperties DEF p, q
  <2>2. Len(p) = 1 /\ Len(q) = 1 /\ p[1] = a /\ q[1] = b
    BY <1>2 DEF p, q
  <2>3. QED
    BY <2>1, <2>2
<1>4. Len(r) = 2 /\ r[1] = a /\ r[2] = b /\ r \in Seq({a, b})
  BY <1>1, <1>2 DEF r
<1>5. \A i \in 1 .. 2 : i = 1 \/ i = 2
  OBVIOUS
<1>6. \A i \in 1 .. 2 : (p \o q)[i] = r[i]
  BY <1>3, <1>4, <1>5
<1>7. p \o q = r
  BY <1>3, <1>4, <1>6, SeqEqual
<1>8. QED
  BY <1>7 DEF p, q, r

\* The lower half, sign extended.
LEMMA LowerLoads ==
  ASSUME NEW v \in Int
  PROVE  /\ LowerWords(PartsOf(v)) \in Seq(LoongWords)
         /\ RegisterAfter("loongarch64", LowerWords(PartsOf(v))) = Sext(v, LowHalf)
<1> DEFINE p == PartsOf(v)
           isa == "loongarch64"
           A == Pow(Parts[1])
           B == Pow(Parts[2])
           S == Sext(v, LowHalf)
           s == Signed(p[2], B)
<1>1. /\ p[1] \in 0 .. A - 1 /\ p[2] \in 0 .. B - 1
      /\ S = s * A + p[1]
      /\ Extends(p, 1) <=> p[1] = 0
      /\ Extends(p, 2) => S = Signed(p[1], A)
      /\ Extends(p, 2) /\ p[1] = 0 => p[2] = 0
  BY PartsRead
<1>2. IsWidth(Parts[1]) /\ IsWidth(LowHalf) /\ Parts[1] < LowHalf
  <2>1. 1 \in 1 .. 4 /\ 2 \in 1 .. 4
    OBVIOUS
  <2>2. Parts[1] \in Nat /\ Parts[2] \in Nat /\ Parts[2] > 1
    BY <2>1, WidthsInUse
  <2>3. IsWidth(Parts[1]) /\ IsWidth(LowHalf) /\ LowHalf = Parts[1] + Parts[2]
    BY <2>1, PartWidths
  <2>4. QED
    BY <2>2, <2>3
<1>3. A \in Nat \ {0} /\ B \in Nat \ {0} /\ A >= 2 /\ B >= 2
  BY PartWeights, HalfOf
<1>4. s \in Int /\ Sext(p[2] * A, LowHalf) = s * A
  BY <1>1, SecondPart
<1>5. p[1] \in Int /\ Sext(p[1], Parts[1]) = Signed(p[1], A)
  BY <1>1, <1>2, FieldSigned
<1>6. p[1] % A = p[1]
  BY <1>1, <1>3, OwnRest
<1>7. p[2] \in Int
  BY <1>1, <1>3
<1>8. LowerWords(p) =
        IF p[2] = 0 /\ p[1] # 0 THEN <<Word("ori_zero", p[1])>>
        ELSE IF Extends(p, 2) /\ Extends(p, 1) THEN <<Word("or_zero", 0)>>
        ELSE IF Extends(p, 2) THEN <<Word("addi_w", p[1])>>
        ELSE IF Extends(p, 1) THEN <<Word("lu12i_w", p[2])>>
        ELSE <<Word("lu12i_w", p[2]), Word("ori", p[1])>>
  BY DEF LowerWords
<1>9. 0 \in Int /\ isa \in Isas /\ WordsOf(isa) = LoongWords
  BY LoongWord
<1> DEFINE Does(w) == <<w>> \in Seq(LoongWords) /\ RegisterAfter(isa, <<w>>) = WordDoes(isa, 0, w)
<1>10. ASSUME NEW w \in LoongWords PROVE Does(w)
  <2> HIDE DEF isa
  <2>1. RegisterAfter(isa, <<w>>) = WordDoes(isa, 0, w)
    BY <1>9, AfterOne
  <2>2. <<w>> \in Seq(LoongWords)
    OBVIOUS
  <2>3. QED
    BY <2>1, <2>2
<1>11. /\ Word("ori_zero", p[1]) \in LoongWords /\ Word("or_zero", 0) \in LoongWords
       /\ Word("addi_w", p[1]) \in LoongWords /\ Word("lu12i_w", p[2]) \in LoongWords
       /\ Word("ori", p[1]) \in LoongWords
  BY <1>5, <1>7, <1>9, LoongWord
<1>12. /\ WordDoes(isa, 0, Word("ori_zero", p[1])) = p[1]
       /\ WordDoes(isa, 0, Word("or_zero", 0)) = 0
       /\ WordDoes(isa, 0, Word("addi_w", p[1])) = Sext(Sext(p[1], Parts[1]), LowHalf)
       /\ WordDoes(isa, 0, Word("lu12i_w", p[2])) = Sext(p[2] * A, LowHalf)
  BY <1>9, LoongSteps
<1>13. S \in Int
  BY <1>2, SextReads
<1>14. Signed(0, B) = 0
  BY <1>3 DEF Signed
<1>15. CASE p[2] = 0 /\ p[1] # 0
  <2>1. s = 0
    BY <1>14, <1>15
  <2> HIDE DEF S, s, A, p
  <2>2. S = p[1]
    BY <1>1, <1>3, <1>5, <2>1
  <2>3. QED
    BY <1>8, <1>10, <1>11, <1>12, <1>15, <2>2 DEF p, S
<1>16. CASE ~(p[2] = 0 /\ p[1] # 0) /\ Extends(p, 2) /\ Extends(p, 1)
  <2>1. p[1] = 0 /\ p[2] = 0
    BY <1>1, <1>16
  <2>2. s = 0
    BY <1>14, <2>1
  <2> HIDE DEF S, s, A, p
  <2>3. S = 0
    BY <1>1, <1>3, <2>1, <2>2
  <2>4. QED
    BY <1>8, <1>10, <1>11, <1>12, <1>16, <2>3 DEF p, S
<1>17. CASE ~(p[2] = 0 /\ p[1] # 0) /\ Extends(p, 2) /\ ~Extends(p, 1)
  <2> DEFINE t == Sext(p[1], Parts[1])
  <2>1. t \in Int /\ FitsSigned(t, Pow(Parts[1]))
    BY <1>2, <1>5, SextReads
  <2>2. S = t
    BY <1>1, <1>5, <1>17
  <2> HIDE DEF t, p
  <2>3. FitsSigned(t, Pow(LowHalf)) /\ Pow(LowHalf) \in Int
    BY <1>2, <2>1, FitsWider, PowerEven DEF IsWidth
  <2>4. Alike(t, t, Pow(LowHalf))
    BY <2>1, <2>3, AlikeItself
  <2>5. Sext(t, LowHalf) = t
    BY <1>2, <2>1, <2>3, <2>4, SextIs
  <2>6. QED
    BY <1>8, <1>10, <1>11, <1>12, <1>17, <2>2, <2>5 DEF p, t
<1>18. CASE ~(p[2] = 0 /\ p[1] # 0) /\ ~Extends(p, 2) /\ Extends(p, 1)
  <2>1. p[1] = 0
    BY <1>1, <1>18
  <2> HIDE DEF S, s, A, p
  <2>2. S = s * A
    <3>1. s * A \in Int
      BY <1>3, <1>4
    <3>2. QED
      BY <1>1, <2>1, <3>1
  <2>3. QED
    BY <1>4, <1>8, <1>10, <1>11, <1>12, <1>18, <2>2 DEF p, S
<1>19. CASE ~(p[2] = 0 /\ p[1] # 0) /\ ~Extends(p, 2) /\ ~Extends(p, 1)
  <2> DEFINE w == Word("lu12i_w", p[2])
             o == Word("ori", p[1])
             x == s * A
  <2>1. LowerWords(p) = <<w, o>>
    BY <1>8, <1>19
  <2>2. RegisterAfter(isa, <<w>>) = x /\ <<w>> \in Seq(LoongWords) /\ w \in LoongWords /\ o \in LoongWords
    BY <1>4, <1>10, <1>11, <1>12
  <2>3. x \in Int
    BY <1>3, <1>4
  <2>4. WordDoes(isa, x, o) = Insert(x \div A, p[1], Parts[1])
    BY <2>3, LoongSteps
  <2> HIDE DEF s, S, A, B, p, isa
  <2>5. x \div A = s
    <3>1. x = s * A + 0 /\ 0 \in Int /\ 0 <= 0 /\ 0 < A
      BY <1>3, <1>4
    <3> HIDE DEF x
    <3>2. QED
      BY <1>3, <1>4, <2>3, <3>1, DivUnique
  <2>6. Insert(s, p[1], Parts[1]) = s * A + (p[1] % A)
    BY <1>2, <1>4, <1>5, InsertTyped DEF A
  <2>7. WordDoes(isa, x, o) = S
    BY <1>1, <1>6, <2>4, <2>5, <2>6
  <2> HIDE DEF w, o, x
  <2>8. <<w>> \o <<o>> = <<w, o>>
    BY OneAndOne
  <2>9. RegisterAfter(isa, <<w>> \o <<o>>) = WordDoes(isa, x, o)
    BY <1>9, <2>2, AfterByOne
  <2>10. <<w, o>> \in Seq(LoongWords)
    BY <2>2
  <2>11. QED
    BY <2>1, <2>7, <2>8, <2>9, <2>10 DEF p, S, isa
<1>20. QED
  BY <1>15, <1>16, <1>17, <1>18, <1>19

\* The parts above it, where they are not the sign extension of those below.
LEMMA UpperLoads ==
  ASSUME NEW v \in Int
  PROVE  LET p == PartsOf(v)
             isa == "loongarch64"
             third == Word("lu32i_d", p[3])
             fourth == Word("lu52i_d", p[4])
             alone == Word("lu52i_d_zero", p[4])
         IN  /\ third \in LoongWords /\ fourth \in LoongWords /\ alone \in LoongWords
             /\ WordDoes(isa, Sext(v, LowHalf), third) = Sext(v, Above3)
             /\ WordDoes(isa, Sext(v, Above3), fourth) = Sext(v, FullWidth)
             /\ Extends(p, 1) /\ Extends(p, 2) /\ Extends(p, 3) =>
                  WordDoes(isa, 0, alone) = Sext(v, FullWidth)
<1> DEFINE p == PartsOf(v)
           isa == "loongarch64"
           C == Pow(Parts[3])
           H == Pow(LowHalf)
           G == Pow(Above3)
           F == Pow(FullWidth)
           S2 == Sext(v, LowHalf)
           S3 == Sext(v, Above3)
           r2 == v % H
           r3 == v % G
<1>1. /\ p[3] \in 0 .. C - 1 /\ p[4] \in 0 .. Pow(Parts[4]) - 1
      /\ r3 = p[3] * H + r2 /\ v % F = p[4] * G + r3
      /\ S3 = Signed(p[3], C) * H + r2
      /\ r2 = p[2] * Pow(Parts[1]) + p[1]
      /\ Extends(p, 1) <=> p[1] = 0
      /\ Extends(p, 2) /\ p[1] = 0 => p[2] = 0
      /\ Extends(p, 3) /\ p[2] = 0 => p[3] = 0
  BY PartsRead
<1>2. IsWidth(Parts[3]) /\ IsWidth(Parts[4]) /\ IsWidth(LowHalf) /\ IsWidth(Above3) /\ IsWidth(FullWidth)
  BY PartWidths DEF Above3
<1>3. /\ H \in Nat \ {0} /\ G \in Nat \ {0} /\ F \in Nat \ {0}
      /\ Pow(Parts[1]) \in Int /\ Pow(Parts[3]) \in Int /\ Pow(Parts[4]) \in Int
  <2>1. Pow(Parts[1]) \in Even /\ Pow(Parts[3]) \in Even /\ Pow(Parts[4]) \in Even
        /\ H \in Even /\ G \in Even
    BY PartWeights
  <2>2. F \in Nat \ {0}
    BY <1>2, PowerEven, HalfOf DEF IsWidth
  <2>3. QED
    BY <2>1, <2>2, HalfOf
<1>4. p[3] \in Int /\ p[4] \in Int
  BY <1>1, <1>3
<1>5. Sext(p[3], Parts[3]) = Signed(p[3], C)
  BY <1>1, <1>2, FieldSigned
<1>6. /\ S2 \in Int /\ Alike(S2, v, H)
      /\ S3 \in Int /\ Alike(S3, v, G)
  BY <1>2, SextReads
<1>7. S2 % H = r2 /\ S3 % G = r3
  BY <1>3, <1>6, AlikeModulo
<1>8. Sext(v % F, FullWidth) = Sext(v, FullWidth)
  <2>1. v % F \in Int /\ Alike(v % F, v, F)
    BY <1>3, AlikeLow
  <2>2. QED
    BY <1>2, <2>1, SextAlike
<1>9. /\ WordDoes(isa, S2, Word("lu32i_d", p[3])) = Insert(Sext(p[3], Parts[3]), S2, LowHalf)
      /\ WordDoes(isa, S3, Word("lu52i_d", p[4])) = Sext(Insert(p[4], S3, Above3), FullWidth)
      /\ WordDoes(isa, 0, Word("lu52i_d_zero", p[4])) = Sext(Insert(p[4], 0, Above3), FullWidth)
  <2>1. 0 \in Int
    OBVIOUS
  <2>2. QED
    BY <1>6, <2>1, LoongSteps
<1>10. Insert(Sext(p[3], Parts[3]), S2, LowHalf) = S3
  <2>1. Sext(p[3], Parts[3]) \in Int
    BY <1>2, <1>4, SextReads
  <2>2. Insert(Sext(p[3], Parts[3]), S2, LowHalf) = Sext(p[3], Parts[3]) * H + (S2 % H)
    BY <1>2, <1>6, <2>1, InsertTyped
  <2> HIDE DEF S2, S3, r2, C, H
  <2>3. QED
    BY <1>1, <1>5, <1>7, <2>2
<1>11. Insert(p[4], S3, Above3) = v % F
  <2>1. Insert(p[4], S3, Above3) = p[4] * G + (S3 % G)
    BY <1>2, <1>4, <1>6, InsertTyped
  <2> HIDE DEF S3, r3, G, F
  <2>2. QED
    BY <1>1, <1>7, <2>1
<1>12. ASSUME Extends(p, 1), Extends(p, 2), Extends(p, 3)
       PROVE  Insert(p[4], 0, Above3) = v % F
  <2>1. p[1] = 0 /\ p[2] = 0 /\ p[3] = 0
    BY <1>1, <1>12
  <2>2. Insert(p[4], 0, Above3) = p[4] * G + (0 % G)
    BY <1>2, <1>4, InsertTyped
  <2>3. 0 \in 0 .. G - 1
    BY <1>3
  <2>4. 0 % G = 0
    BY <1>3, <2>3, OwnRest
  <2> HIDE DEF r2, r3, G, H, F, p
  <2>5. r2 = 0
    <3>1. 0 * Pow(Parts[1]) + 0 = 0
      BY <1>3
    <3>2. QED
      BY <1>1, <2>1, <3>1
  <2>6. r3 = 0
    <3>1. 0 * H + 0 = 0
      BY <1>3
    <3>2. QED
      BY <1>1, <2>1, <2>5, <3>1
  <2>7. QED
    BY <1>1, <2>2, <2>4, <2>6
<1>13. /\ Word("lu32i_d", p[3]) \in LoongWords /\ Word("lu52i_d", p[4]) \in LoongWords
       /\ Word("lu52i_d_zero", p[4]) \in LoongWords
  BY <1>4, LoongWord
<1>14. QED
  BY <1>8, <1>9, <1>10, <1>11, <1>12, <1>13

LEMMA LoongLoads ==
  ASSUME NEW value \in Int, NEW narrow \in BOOLEAN
  PROVE  RegisterAfter("loongarch64", LiLoongarch(value, narrow)) =
           Sext(value, IF narrow THEN LowHalf ELSE FullWidth)
<1> DEFINE v == IF narrow THEN Sext(value, LowHalf) ELSE value
           p == PartsOf(v)
           isa == "loongarch64"
           S2 == Sext(v, LowHalf)
           S3 == Sext(v, Above3)
           S4 == Sext(v, FullWidth)
           third == Word("lu32i_d", p[3])
           fourth == Word("lu52i_d", p[4])
           alone == Word("lu52i_d_zero", p[4])
           lower == LowerWords(p)
           t3 == IF Extends(p, 3) THEN <<>> ELSE <<third>>
           t4 == IF Extends(p, 4) THEN <<>> ELSE <<fourth>>
           zero == Extends(p, 1) /\ Extends(p, 2) /\ Extends(p, 3) /\ ~Extends(p, 4)
<1>1. IsWidth(LowHalf) /\ IsWidth(FullWidth) /\ LowHalf < FullWidth
  <2>1. 3 \in 1 .. 4 /\ 4 \in 1 .. 4
    OBVIOUS
  <2>2. Parts[3] \in Nat /\ Parts[4] \in Nat /\ Parts[3] > 1 /\ Parts[4] > 1 /\ LowHalf \in Nat
    BY <2>1, WidthsInUse
  <2>3. QED
    BY <2>2, PartWidths
<1>2. v \in Int
  BY <1>1, SextReads
<1>3. S4 = Sext(value, IF narrow THEN LowHalf ELSE FullWidth)
  <2>1. CASE ~narrow
    BY <2>1
  <2>2. CASE narrow
    <3>1. v = Sext(value, LowHalf) /\ FitsSigned(v, Pow(LowHalf))
      BY <1>1, <2>2, SextReads
    <3> HIDE DEF v
    <3>2. FitsSigned(v, Pow(FullWidth)) /\ Pow(FullWidth) \in Int
      <4>1. FitsSigned(v, Pow(FullWidth))
        BY <1>1, <1>2, <3>1, FitsWider
      <4>2. QED
        BY <1>1, <4>1, PowerEven DEF IsWidth
    <3>3. Alike(v, v, Pow(FullWidth))
      BY <1>2, <3>2, AlikeItself
    <3>4. S4 = v
      BY <1>1, <1>2, <3>2, <3>3, SextIs
    <3>5. QED
      BY <2>2, <3>1, <3>4
  <2>3. QED
    BY <2>1, <2>2
<1>4. Split(value, narrow) = p
  BY DEF Split, PartsOf
<1>5. LiLoongarch(value, narrow) = IF zero THEN <<alone>> ELSE (lower \o t3) \o t4
  BY <1>4 DEF LiLoongarch
<1> HIDE DEF v
<1>6. lower \in Seq(LoongWords) /\ RegisterAfter(isa, lower) = S2
  BY <1>2, LowerLoads
<1>7. /\ third \in LoongWords /\ fourth \in LoongWords /\ alone \in LoongWords
      /\ WordDoes(isa, S2, third) = S3
      /\ WordDoes(isa, S3, fourth) = S4
      /\ zero => WordDoes(isa, 0, alone) = S4
  BY <1>2, UpperLoads
<1>8. /\ Extends(p, 3) => S3 = S2
      /\ Extends(p, 4) => S4 = S3
  BY <1>2, PartsRead
<1>9. isa \in Isas /\ WordsOf(isa) = LoongWords
  BY LoongWord, <1>2
<1> HIDE DEF isa, S2, S3, S4, third, fourth, alone, lower
<1>10. CASE zero
  <2>1. RegisterAfter(isa, <<alone>>) = WordDoes(isa, 0, alone)
    BY <1>7, <1>9, AfterOne
  <2>2. QED
    BY <1>3, <1>5, <1>7, <1>10, <2>1 DEF isa
<1> DEFINE three == lower \o t3
<1>11. three \in Seq(LoongWords) /\ RegisterAfter(isa, three) = S3
  <2>1. CASE Extends(p, 3)
    <3>1. three = lower
      BY <1>6, <2>1, ConcatEmptySeq
    <3>2. QED
      BY <1>6, <1>8, <2>1, <3>1
  <2>2. CASE ~Extends(p, 3)
    <3>1. three = lower \o <<third>> /\ <<third>> \in Seq(LoongWords)
      BY <1>7, <2>2
    <3>2. RegisterAfter(isa, lower \o <<third>>) = WordDoes(isa, S2, third)
      BY <1>6, <1>7, <1>9, AfterByOne
    <3>3. lower \o <<third>> \in Seq(LoongWords)
      BY <1>6, <3>1, ConcatProperties
    <3>4. QED
      BY <1>7, <3>1, <3>2, <3>3
  <2>3. QED
    BY <2>1, <2>2
<1>12. CASE ~zero
  <2>1. LiLoongarch(value, narrow) = three \o t4
    BY <1>5, <1>12
  <2> HIDE DEF three, zero
  <2>2. CASE Extends(p, 4)
    <3>1. three \o t4 = three
      BY <1>11, <2>2, ConcatEmptySeq
    <3>2. QED
      BY <1>3, <1>8, <1>11, <2>1, <2>2, <3>1 DEF isa
  <2>3. CASE ~Extends(p, 4)
    <3>1. three \o t4 = three \o <<fourth>>
      BY <2>3
    <3>2. RegisterAfter(isa, three \o <<fourth>>) = WordDoes(isa, S3, fourth)
      BY <1>7, <1>9, <1>11, AfterByOne
    <3>3. QED
      BY <1>3, <1>7, <2>1, <3>1, <3>2 DEF isa
  <2>4. QED
    BY <2>2, <2>3
<1>13. QED
  BY <1>10, <1>12

-----------------------------------------------------------------------------
(* The code of li                                                           *)

\* What EncodeLi encodes stays what it is.
EncodedOK ==
  /\ operand \in Operands
  /\ \/ code = NotDone
     \/ operand.isa = "riscv64" /\ code = LiRiscv(operand.value)
     \/ operand.isa = "loongarch64" /\ code = LiLoongarch(operand.value, operand.narrow)
     \/ operand.isa = "aarch64"

LEMMA OperandTyped ==
  ASSUME operand \in Operands
  PROVE  /\ operand.isa = "riscv64" => operand.value \in Int
         /\ operand.isa = "loongarch64" => operand.value \in Int /\ operand.narrow \in BOOLEAN
<1>1. IsWidth(RegBits) /\ IsWidth(FullWidth) /\ IsWidth(LowHalf)
  BY PartWidths
<1>2. /\ Pow(RegBits) \in Int /\ Pow(RegBits - 1) \in Int
      /\ Pow(FullWidth) \in Int /\ Pow(FullWidth - 1) \in Int
      /\ Pow(LowHalf) \in Int /\ Pow(LowHalf - 1) \in Int
  BY <1>1, PowerEven DEF IsWidth
<1>3. /\ -(2^(RegBits - 1)) .. 2^RegBits - 1 \subseteq Int
      /\ -(2^(FullWidth - 1)) .. 2^FullWidth - 1 \subseteq Int
      /\ -(2^(LowHalf - 1)) .. 2^LowHalf - 1 \subseteq Int
  BY <1>2 DEF Pow
<1>4. CASE operand \in [isa : {"riscv64"}, value : -(2^(RegBits - 1)) .. 2^RegBits - 1]
  BY <1>3, <1>4
<1>5. CASE operand \in [isa : {"loongarch64"}, value : -(2^(FullWidth - 1)) .. 2^FullWidth - 1,
                        narrow : {FALSE}]
  BY <1>3, <1>5
<1>6. CASE operand \in [isa : {"loongarch64"}, value : -(2^(LowHalf - 1)) .. 2^LowHalf - 1,
                        narrow : {TRUE}]
  BY <1>3, <1>6
<1>7. CASE operand \in [isa : {"aarch64"}, value : -(2^MaskBits) .. 2^MaskBits, r64 : BOOLEAN]
  BY <1>7
<1>8. QED
  BY <1>4, <1>5, <1>6, <1>7 DEF Operands

LEMMA EncodedLoads ==
  ASSUME EncodedOK
  PROVE  LiLoadsValue
<1> SUFFICES ASSUME operand # NoOperand, code # NotDone
             PROVE  /\ operand.isa = "riscv64" =>
                         /\ RegisterAfter("riscv64", code) = Sext(operand.value, RegBits)
                         /\ \A i \in DOMAIN code :
                              code[i].op = "slli" => code[i].imm \in 1 .. RegBits - 1
                    /\ operand.isa = "loongarch64" =>
                         RegisterAfter("loongarch64", code) =
                           Sext(operand.value, IF operand.narrow THEN LowHalf ELSE FullWidth)
  BY DEF LiLoadsValue
<1>1. operand \in Operands
  BY DEF EncodedOK
<1>2. CASE operand.isa = "riscv64"
  <2>1. operand.value \in Int /\ code = LiRiscv(operand.value)
    BY <1>1, <1>2, OperandTyped DEF EncodedOK
  <2>2. code \in Seq(RiscvWords) /\ RegisterAfter("riscv64", code) = Sext(operand.value, RegBits)
    BY <2>1, RiscvLoads
  <2>3. \A i \in DOMAIN code : code[i] \in RiscvWords
    BY <2>2
  <2>4. \A w \in RiscvWords : w.op = "slli" => w.imm \in 1 .. RegBits - 1
    BY DEF RiscvWords
  <2>5. QED
    BY <1>2, <2>2, <2>3, <2>4
<1>3. CASE operand.isa = "loongarch64"
  <2>1. operand.value \in Int /\ operand.narrow \in BOOLEAN
        /\ code = LiLoongarch(operand.value, operand.narrow)
    BY <1>1, <1>3, OperandTyped DEF EncodedOK
  <2>2. QED
    BY <1>3, <2>1, LoongLoads
<1>4. QED
  BY <1>2, <1>3

\* The words that li expands to leave the value in the register, for parts and
\* registers of any width and for every value: on riscv64 the recursion of
\* _load_const ends, never shifts by the register's width, and each addi takes
\* back what the sign extension of the low part borrowed from the part above;
\* on loongarch64 a part is left out only where the instructions below it
\* already produce it.
THEOREM LiLoads == ImmSpec => []LiLoadsValue
<1>1. ImmInit => EncodedOK
  BY DEF ImmInit, EncodedOK
<1>2. EncodedOK /\ [ImmNext]_immVars => EncodedOK'
  <2> SUFFICES ASSUME EncodedOK, [ImmNext]_immVars PROVE EncodedOK'
    OBVIOUS
  <2>1. CASE EncodeLi
    BY <2>1 DEF EncodeLi, EncodedOK
  <2>2. CASE EncodeMask
    BY <2>2 DEF EncodeMask, EncodedOK
  <2>3. CASE UNCHANGED immVars
    BY <2>3 DEF immVars, EncodedOK
  <2>4. QED
    BY <2>1, <2>2, <2>3 DEF ImmNext
<1>3. EncodedOK => LiLoadsValue
  BY EncodedLoads
<1>4. QED
  BY <1>1, <1>2, <1>3, PTL DEF ImmSpec

-----------------------------------------------------------------------------
(* aarch64: elements that repeat                                            *)

LEMMA PowerPositive ==
  ASSUME NEW a \in Nat, a <= Widest
  PROVE  Pow(a) \in Nat \ {0} /\ Pow(a) \in Int
<1>1. Pow(a) \in Nat \ {0}
  BY PowerDoubles
<1>2. QED
  BY <1>1

LEMMA PowerGrows ==
  ASSUME NEW a \in Nat, NEW b \in Nat, a < b, b <= Widest
  PROVE  Pow(a) < Pow(b) /\ 2 * Pow(a) <= Pow(b)
<1>1. Widest \in Nat
  BY WidthsInUse
<1>2. CASE a = 0
  <2>1. Pow(a) = 1
    BY <1>1, <1>2, PowerDoubles
  <2>2. Pow(b) >= 2 /\ Pow(b) \in Nat
    BY <1>2, PowerEven
  <2>3. QED
    BY <2>1, <2>2
<1>3. CASE a # 0
  <2>1. IsWidth(a) /\ IsWidth(b)
    BY <1>1, <1>3 DEF IsWidth
  <2>2. Pow(a) \in Nat \ {0} /\ 2 * Pow(a) <= Pow(b) /\ Pow(b) \in Nat
    BY <2>1, PowerSplits, PowerEven DEF IsWidth
  <2>3. QED
    BY <2>2
<1>4. QED
  BY <1>2, <1>3

LEMMA PowerUnderstood ==
  ASSUME NEW a \in Nat, NEW b \in Nat, a <= Widest, b <= Widest
  PROVE  (Pow(a) < Pow(b) <=> a < b) /\ (Pow(a) <= Pow(b) <=> a <= b)
<1>1. Pow(a) \in Int /\ Pow(b) \in Int
  BY PowerPositive
<1>2. CASE a < b
  BY <1>1, <1>2, PowerGrows
<1>3. CASE b < a
  BY <1>1, <1>3, PowerGrows
<1>4. CASE a = b
  BY <1>1, <1>4
<1>5. QED
  BY <1>2, <1>3, <1>4

\* A number below a power is below it.
LEMMA PowerTall ==
  ASSUME NEW a \in Nat, a <= Widest
  PROVE  a < Pow(a)
<1> DEFINE T == {m \in Nat : m <= Widest => m < Pow(m)}
<1>1. Widest \in Nat
  BY WidthsInUse
<1>2. 0 \in T
  BY <1>1, PowerDoubles
<1>3. ASSUME NEW m \in Nat, m \in T PROVE m + 1 \in T
  <2>1. SUFFICES ASSUME m + 1 <= Widest PROVE m + 1 < Pow(m + 1)
    OBVIOUS
  <2>2. m <= Widest
    BY <1>1, <2>1
  <2>3. m < Pow(m) /\ Pow(m) \in Nat \ {0} /\ Pow(m + 1) = 2 * Pow(m)
    BY <1>3, <2>2, PowerDoubles
  <2>4. QED
    BY <2>3
<1> HIDE DEF T
<1>4. a \in T
  BY <1>2, <1>3, AllNumbers
<1>5. QED
  BY <1>4 DEF T

\* The widths of elements, and of what is in a power of them.
LEMMA ElementWidths ==
  /\ MaskBits = Pow(LogMaskBits) /\ MaskBits \in Nat /\ MaskBits > 1
  /\ \A i \in 0 .. LogMaskBits :
       /\ i \in Nat /\ i <= Widest /\ Pow(i) \in Nat \ {0} /\ Pow(i) <= MaskBits /\ Pow(i) <= Widest
       /\ Pow(Pow(i)) \in Nat /\ Pow(Pow(i)) >= 2
  /\ \A i \in 0 .. LogMaskBits - 1 :
       /\ i \in 0 .. LogMaskBits /\ i + 1 \in 0 .. LogMaskBits
       /\ Pow(i + 1) = 2 * Pow(i) /\ Pow(Pow(i + 1)) = Pow(Pow(i)) * Pow(Pow(i))
<1>1. /\ LogMaskBits \in Nat /\ 1 < LogMaskBits /\ LogMaskBits < MaskBits
      /\ MaskBits \in Nat /\ MaskBits <= Widest /\ Widest \in Nat
  BY WidthsInUse
<1>2. MaskBits = Pow(LogMaskBits)
  BY ImmediateAssumption DEF Pow
<1>3. ASSUME NEW i \in 0 .. LogMaskBits
      PROVE  /\ i \in Nat /\ i <= Widest /\ Pow(i) \in Nat \ {0} /\ Pow(i) <= MaskBits
             /\ Pow(i) <= Widest /\ Pow(Pow(i)) \in Nat /\ Pow(Pow(i)) >= 2
  <2>1. i \in Nat /\ i <= Widest /\ i <= LogMaskBits /\ LogMaskBits <= Widest
    BY <1>1
  <2>2. Pow(i) \in Nat \ {0} /\ Pow(i) <= MaskBits
    BY <1>1, <1>2, <2>1, PowerPositive, PowerUnderstood
  <2>3. Pow(i) <= Widest /\ Pow(i) > 0
    BY <1>1, <2>2
  <2>4. Pow(Pow(i)) \in Nat /\ Pow(Pow(i)) >= 2
    BY <2>2, <2>3, PowerEven
  <2>5. QED
    BY <2>1, <2>2, <2>3, <2>4
<1>4. ASSUME NEW i \in 0 .. LogMaskBits - 1
      PROVE  /\ i \in 0 .. LogMaskBits /\ i + 1 \in 0 .. LogMaskBits
             /\ Pow(i + 1) = 2 * Pow(i) /\ Pow(Pow(i + 1)) = Pow(Pow(i)) * Pow(Pow(i))
  <2>1. i \in 0 .. LogMaskBits /\ i + 1 \in 0 .. LogMaskBits
    BY <1>1
  <2>2. i \in Nat /\ i <= Widest /\ Pow(i) \in Nat /\ Pow(i + 1) <= Widest
    BY <1>3, <2>1
  <2>3. Pow(i + 1) = 2 * Pow(i)
    BY <2>2, PowerDoubles
  <2>4. Pow(i + 1) = Pow(i) + Pow(i) /\ Pow(i) + Pow(i) <= Widest
    BY <2>2, <2>3
  <2>5. Pow(Pow(i) + Pow(i)) = Pow(Pow(i)) * Pow(Pow(i))
    BY <2>2, <2>4, PowersTimes
  <2>6. QED
    BY <2>1, <2>3, <2>4, <2>5
<1>5. QED
  BY <1>1, <1>2, <1>3, <1>4

\* How often an element is repeated.
Copies(e) == (2^MaskBits - 1) \div (2^e - 1)

LEMMA OnesDivided ==
  ASSUME NEW i \in 0 .. LogMaskBits
  PROVE  \E q \in Nat \ {0} : (Pow(Pow(i)) - 1) * q = Pow(MaskBits) - 1
<1> DEFINE Divides(j) == \E q \in Nat \ {0} : (Pow(Pow(j)) - 1) * q = Pow(MaskBits) - 1
           T == {m \in Nat : m <= LogMaskBits => Divides(LogMaskBits - m)}
<1>1. LogMaskBits \in Nat /\ MaskBits = Pow(LogMaskBits) /\ Pow(MaskBits) \in Nat
  <2>1. LogMaskBits \in Nat /\ LogMaskBits \in 0 .. LogMaskBits
    BY WidthsInUse
  <2>2. QED
    BY <2>1, ElementWidths
<1>2. 0 \in T
  <2>1. LogMaskBits - 0 = LogMaskBits
    BY <1>1
  <2>2. (Pow(MaskBits) - 1) * 1 = Pow(MaskBits) - 1 /\ 1 \in Nat \ {0}
    BY <1>1
  <2>3. Divides(LogMaskBits)
    BY <1>1, <2>2
  <2>4. QED
    BY <2>1, <2>3
<1>3. ASSUME NEW m \in Nat, m \in T PROVE m + 1 \in T
  <2>1. SUFFICES ASSUME m + 1 <= LogMaskBits PROVE Divides(LogMaskBits - (m + 1))
    OBVIOUS
  <2> DEFINE j == LogMaskBits - (m + 1)
  <2>2. j \in 0 .. LogMaskBits - 1 /\ LogMaskBits - m = j + 1 /\ j \in 0 .. LogMaskBits
    BY <1>1, <2>1
  <2>3. Divides(j + 1)
    <3>1. Divides(LogMaskBits - m)
      BY <1>1, <1>3, <2>1
    <3>2. QED
      BY <2>2, <3>1
  <2> HIDE DEF j
  <2> DEFINE p == Pow(Pow(j))
  <2>4. p \in Nat /\ p >= 2 /\ Pow(Pow(j + 1)) = p * p
    BY <2>2, ElementWidths
  <2> HIDE DEF p
  <2>5. PICK q \in Nat \ {0} : (p * p - 1) * q = Pow(MaskBits) - 1
    BY <2>3, <2>4
  <2>6. p * p - 1 = (p - 1) * (p + 1)
    BY <2>4, SMT
  <2>7. ((p - 1) * (p + 1)) * q = (p - 1) * ((p + 1) * q)
    BY <2>4, SMT
  <2>8. (p + 1) * q \in Nat \ {0}
    BY <2>4, SMT
  <2>9. Divides(j)
    BY <2>5, <2>6, <2>7, <2>8 DEF p
  <2>10. QED
    BY <2>9 DEF j
<1>4. \A m \in Nat : m \in T
  <2> HIDE DEF T
  <2>1. QED
    BY <1>2, <1>3, AllNumbers
<1> HIDE DEF Divides
<1>5. LogMaskBits - i \in Nat /\ LogMaskBits - i <= LogMaskBits /\ LogMaskBits - (LogMaskBits - i) = i
  BY <1>1
<1>6. Divides(i)
  BY <1>4, <1>5
<1>7. QED
  BY <1>6 DEF Divides

LEMMA CopiesOf ==
  ASSUME NEW i \in 0 .. LogMaskBits
  PROVE  LET c == Copies(Pow(i))
             p == Pow(Pow(i))
         IN  /\ c \in Nat \ {0} /\ (p - 1) * c = Pow(MaskBits) - 1
             /\ \A x : Repeat(x, Pow(i)) = x * c
             /\ \E k \in Int : c = k * p + 1
<1> DEFINE c == Copies(Pow(i))
           p == Pow(Pow(i))
           all == Pow(MaskBits) - 1
<1>1. p \in Nat /\ p >= 2 /\ Pow(i) \in Nat /\ Pow(i) <= MaskBits /\ Pow(i) <= Widest
      /\ MaskBits \in Nat /\ MaskBits <= Widest /\ Widest \in Nat
  BY ElementWidths, WidthsInUse
<1>2. c = all \div (p - 1)
  BY DEF Copies, Pow
<1>3. \A x : Repeat(x, Pow(i)) = x * c
  BY DEF Repeat, Copies
<1>4. PICK q \in Nat \ {0} : (p - 1) * q = all
  BY OnesDivided
<1>5. Pow(MaskBits) = p * Pow(MaskBits - Pow(i)) /\ Pow(MaskBits - Pow(i)) \in Nat
  <2>1. MaskBits - Pow(i) \in Nat /\ Pow(i) + (MaskBits - Pow(i)) = MaskBits
        /\ MaskBits - Pow(i) <= Widest
    BY <1>1
  <2>2. QED
    BY <1>1, <2>1, PowersTimes, PowerPositive
<1> DEFINE w == Pow(MaskBits - Pow(i))
<1> HIDE DEF p, c
<1>6. all = q * (p - 1) + 0 /\ p - 1 \in Nat \ {0} /\ 0 < p - 1 /\ all \in Int /\ q \in Int
  <2>1. p - 1 \in Nat \ {0} /\ q \in Int
    BY <1>1
  <2> DEFINE g == q * (p - 1)
  <2>2. (p - 1) * q = g /\ g \in Int
    BY <1>1, SMT
  <2> HIDE DEF g, all
  <2>3. all = g + 0 /\ all \in Int
    BY <1>4, <2>2
  <2>4. QED
    BY <1>1, <2>1, <2>3 DEF g
<1> HIDE DEF all, w
<1>7. all \div (p - 1) = q
  <2>1. 0 \in Int /\ 0 <= 0
    OBVIOUS
  <2>2. QED
    BY <1>6, <2>1, DivUnique
<1>8. c = q
  BY <1>2, <1>7
<1>9. c = (c - w) * p + 1
  <2>1. (p - 1) * c = p * w - 1 /\ w \in Nat
    BY <1>4, <1>5, <1>8 DEF all, w
  <2> DEFINE a == c * p
             b == p * w
             d == (c - w) * p
             g == (p - 1) * c
  <2>2. g = a - c /\ d = a - b /\ a \in Int /\ b \in Int /\ c \in Int
    BY <1>1, <1>8, <2>1, SMT
  <2>3. g = b - 1
    BY <2>1
  <2> HIDE DEF a, b, d, g
  <2>4. c = d + 1
    BY <2>2, <2>3
  <2>5. QED
    BY <2>4 DEF d
<1>10. c - w \in Int
  BY <1>5, <1>8 DEF w
<1>11. \E k \in Int : c = k * p + 1
  BY <1>9, <1>10
<1>12. QED
  BY <1>3, <1>4, <1>8, <1>11 DEF p, c, all

\* An element is what its repetition is up to it, and the repetition is of
\* zeros or of ones only if the element is.
LEMMA RepeatReads ==
  ASSUME NEW i \in 0 .. LogMaskBits, NEW x \in 0 .. Pow(Pow(i)) - 1
  PROVE  /\ Repeat(x, Pow(i)) \in 0 .. Pow(MaskBits) - 1
         /\ Low(Repeat(x, Pow(i)), Pow(i)) = x
         /\ Repeat(x, Pow(i)) = 0 <=> x = 0
         /\ Repeat(x, Pow(i)) = Pow(MaskBits) - 1 <=> x = Pow(Pow(i)) - 1
<1> DEFINE c == Copies(Pow(i))
           p == Pow(Pow(i))
           all == Pow(MaskBits) - 1
           v == x * c
<1>1. p \in Nat /\ p >= 2 /\ p \in Nat \ {0} /\ Pow(MaskBits) \in Int
  <2>1. p \in Nat /\ p >= 2 /\ MaskBits \in Nat /\ MaskBits <= Widest
    BY ElementWidths, WidthsInUse
  <2>2. QED
    BY <2>1, PowerPositive
<1>2. c \in Nat \ {0} /\ (p - 1) * c = all /\ Repeat(x, Pow(i)) = v
  BY CopiesOf
<1>3. PICK k \in Int : c = k * p + 1
  BY CopiesOf
<1>4. Low(v, Pow(i)) = v % p
  BY DEF Low, Pow
<1>5. x \in Nat /\ x <= p - 1 /\ x < p /\ all \in Int
  BY <1>1
<1> HIDE DEF c, p, all
<1>6. v \in Nat /\ 0 <= v
  BY <1>2, <1>5, SMT
<1>7. v <= all
  <2>1. x * c <= (p - 1) * c
    <3>1. x \in Int /\ p - 1 \in Int
      BY <1>1, <1>5
    <3>2. QED
      BY <1>2, <1>5, <3>1, MultiplesOrdered
  <2>2. QED
    BY <1>2, <2>1
<1>8. v % p = x
  <2>1. x * (k * p + 1) = (x * k) * p + x /\ x * k \in Int
    BY <1>1, <1>5, SMT
  <2>2. v = (x * k) * p + x /\ x \in Int /\ 0 <= x
    BY <1>3, <1>5, <2>1
  <2> DEFINE t == x * k
  <2>3. v = t * p + x /\ t \in Int /\ v \in Int
    BY <1>6, <2>1, <2>2
  <2> HIDE DEF v, t
  <2>4. QED
    BY <1>1, <1>5, <2>2, <2>3, DivUnique
<1>9. v = 0 <=> x = 0
  <2>1. 0 * c = 0 /\ x \in Int /\ 0 \in Int
    BY <1>2, <1>5
  <2>2. x * c = 0 * c <=> x = 0
    BY <1>2, <2>1, SameMultiple
  <2>3. QED
    BY <2>1, <2>2
<1>10. v = all <=> x = p - 1
  <2>1. x \in Int /\ p - 1 \in Int
    BY <1>1, <1>5
  <2>2. x * c = (p - 1) * c <=> x = p - 1
    BY <1>2, <2>1, SameMultiple
  <2>3. QED
    BY <1>2, <2>2
<1>11. v \in 0 .. all
  <2> HIDE DEF v
  <2>1. QED
    BY <1>5, <1>6, <1>7
<1>12. QED
  BY <1>2, <1>4, <1>8, <1>9, <1>10, <1>11 DEF p, all

\* A set of numbers has a least one.
LEMMA LeastNumber ==
  ASSUME NEW S \in SUBSET Nat, S # {}
  PROVE  \E m \in S : \A s \in S : m <= s
<1> DEFINE T == {n \in Nat : \A s \in S : n <= s}
<1>1. SUFFICES ASSUME \A m \in S : \E s \in S : ~(m <= s) PROVE FALSE
  OBVIOUS
<1>2. 0 \in T
  OBVIOUS
<1>3. ASSUME NEW n \in Nat, n \in T PROVE n + 1 \in T
  <2>1. \A s \in S : n <= s /\ s \in Nat
    BY <1>3
  <2>2. n \notin S
    BY <1>1, <2>1
  <2>3. \A s \in S : s # n
    BY <2>2
  <2>4. \A s \in S : n + 1 <= s
    BY <2>1, <2>3
  <2>5. QED
    BY <2>4
<1>4. PICK s \in S : TRUE
  OBVIOUS
<1>5. s \in Nat /\ s + 1 \in Nat
  OBVIOUS
<1> HIDE DEF T
<1>6. s + 1 \in T
  BY <1>2, <1>3, <1>5, AllNumbers
<1>7. s + 1 <= s
  BY <1>4, <1>6 DEF T
<1>8. QED
  BY <1>5, <1>7

-----------------------------------------------------------------------------
(* aarch64: the bits of an element                                          *)

\* The bits of a number that is y above s and lo below.
LEMMA BitJoined ==
  ASSUME NEW s \in Nat, s <= Widest, NEW lo \in Nat, lo < Pow(s), NEW y \in Nat,
         NEW i \in Nat, i <= Widest
  PROVE  Bit(y * Pow(s) + lo, i) = IF i < s THEN Bit(lo, i) ELSE Bit(y, i - s)
<1> DEFINE n == y * Pow(s) + lo
           P == Pow(i)
           S == Pow(s)
<1>1. S \in Nat \ {0} /\ P \in Nat \ {0} /\ Widest \in Nat
  BY PowerPositive, WidthsInUse
<1>2. \A x : Bit(x, i) = (x \div P) % 2
  BY DEF Bit, Pow
<1>3. CASE i < s
  <2> DEFINE h == Pow((s - i) - 1)
             q == lo \div P
             m == lo % P
  <2>1. s - i \in Nat /\ s - i > 0 /\ s - i <= Widest /\ i + (s - i) = s
    BY <1>1, <1>3
  <2>2. S = P * Pow(s - i)
    BY <2>1, PowersTimes
  <2>3. Pow(s - i) = 2 * h /\ h \in Nat \ {0}
    BY <2>1, PowerEven
  <2> HIDE DEF h, P, S
  <2>4. q \in Int /\ m \in Int /\ 0 <= m /\ m < P /\ lo = q * P + m
    BY <1>1, SMT
  <2> HIDE DEF q, m
  <2>5. y * (P * (2 * h)) = (2 * (y * h)) * P /\ y * h \in Int
    BY <1>1, <2>3, SMT
  <2> DEFINE w == y * h
  <2>6. w \in Int /\ n = (2 * w) * P + lo
    BY <2>2, <2>3, <2>5 DEF S
  <2> HIDE DEF w, n
  <2>7. (2 * w) * P + q * P = (2 * w + q) * P
    BY <1>1, <2>4, <2>6, SMT
  <2> DEFINE f == (2 * w) * P
             g == q * P
             t == 2 * w + q
             u == t * P
  <2>8. f + g = u /\ n = f + lo /\ lo = g + m /\ f \in Int /\ g \in Int
        /\ m \in Int
    BY <1>1, <2>4, <2>6, <2>7
  <2>9. t \in Int
    BY <2>4, <2>6
  <2> HIDE DEF f, g, u
  <2>10. n = u + m /\ n \in Int
    BY <2>8
  <2> HIDE DEF t
  <2>11. n \div P = t
    BY <1>1, <2>4, <2>9, <2>10, DivUnique DEF u
  <2>12. (2 * w + q) % 2 = q % 2
    BY <2>4, <2>6
  <2>13. QED
    BY <1>2, <1>3, <2>11, <2>12 DEF t, q, n, S
<1>4. CASE ~(i < s)
  <2> DEFINE Q == Pow(i - s)
             q == y \div Q
             m == y % Q
  <2>1. i - s \in Nat /\ s + (i - s) = i /\ i - s <= Widest
    BY <1>1, <1>4
  <2>2. P = S * Q /\ Q \in Nat \ {0}
    BY <2>1, PowersTimes, PowerPositive
  <2>3. Bit(y, i - s) = (y \div Q) % 2
    BY DEF Bit, Pow
  <2> HIDE DEF P, S, Q
  <2>4. q \in Int /\ m \in Int /\ 0 <= m /\ m <= Q - 1 /\ y = q * Q + m
    BY <2>2, SMT
  <2> HIDE DEF q, m
  <2>5. (q * Q + m) * S = q * (S * Q) + m * S /\ m * S \in Int /\ q * (S * Q) \in Int
    BY <1>1, <2>2, <2>4, SMT
  <2>6. m * S <= (Q - 1) * S /\ 0 <= m * S
    BY <1>1, <2>2, <2>4, SMT
  <2>7. (Q - 1) * S = S * Q - S
    BY <1>1, <2>2, SMT
  <2> DEFINE r == m * S + lo
             ms == m * S
             qp == q * P
  <2>8. ms \in Int /\ qp \in Int /\ n = qp + ms + lo /\ ms <= P - S /\ 0 <= ms
    <3>1. n = qp + ms + lo
      BY <2>2, <2>4, <2>5 DEF S
    <3>2. ms <= P - S
      BY <2>2, <2>6, <2>7
    <3>3. QED
      BY <2>2, <2>5, <2>6, <3>1, <3>2
  <2>9. lo < S
    BY DEF S
  <2> HIDE DEF qp, ms, n
  <2>10. r = ms + lo
    BY DEF ms
  <2> HIDE DEF r
  <2>11. n = qp + r /\ r \in Int /\ 0 <= r /\ r < P /\ n \in Int
    BY <1>1, <2>8, <2>9, <2>10
  <2>12. n \div P = q
    BY <1>1, <2>4, <2>11, DivUnique DEF qp
  <2>13. QED
    BY <1>2, <1>4, <2>3, <2>12 DEF q, n, S
<1>5. QED
  BY <1>3, <1>4

LEMMA BitOnes ==
  ASSUME NEW a \in Nat, a <= Widest, NEW i \in Nat, i <= Widest
  PROVE  Bit(Pow(a) - 1, i) = IF i < a THEN 1 ELSE 0
<1> DEFINE P == Pow(i)
           A == Pow(a)
<1>1. P \in Nat \ {0} /\ A \in Nat \ {0} /\ Widest \in Nat
  BY PowerPositive, WidthsInUse
<1>2. Bit(A - 1, i) = ((A - 1) \div P) % 2
  BY DEF Bit, Pow
<1>3. CASE i < a
  <2> DEFINE h == Pow((a - i) - 1)
  <2>1. a - i \in Nat /\ a - i > 0 /\ a - i <= Widest /\ i + (a - i) = a
    BY <1>1, <1>3
  <2>2. A = P * Pow(a - i)
    BY <2>1, PowersTimes
  <2>3. Pow(a - i) = 2 * h /\ h \in Nat \ {0}
    BY <2>1, PowerEven
  <2> HIDE DEF h, P, A
  <2>4. P * (2 * h) = (2 * h - 1) * P + P
    BY <1>1, <2>3, SMT
  <2> DEFINE t == 2 * h - 1
             u == t * P
  <2>5. t \in Int /\ u \in Int /\ A = u + P
    BY <1>1, <2>2, <2>3, <2>4
  <2>6. t % 2 = 1
    BY <2>3
  <2> HIDE DEF t, u
  <2>7. A - 1 = u + (P - 1) /\ A - 1 \in Int /\ P - 1 \in Int /\ 0 <= P - 1 /\ P - 1 < P
    BY <1>1, <2>5
  <2>8. (A - 1) \div P = t
    BY <1>1, <2>5, <2>7, DivUnique DEF u
  <2>9. QED
    BY <1>2, <1>3, <2>6, <2>8 DEF A
<1>4. CASE ~(i < a)
  <2>1. A <= P
    BY <1>4, PowerUnderstood
  <2> HIDE DEF P, A
  <2>2. A - 1 = 0 * P + (A - 1) /\ A - 1 \in Int /\ 0 <= A - 1 /\ A - 1 < P /\ 0 \in Int
    BY <1>1, <2>1
  <2>3. (A - 1) \div P = 0
    BY <1>1, <2>2, DivUnique
  <2>4. 0 % 2 = 0
    OBVIOUS
  <2>5. QED
    BY <1>2, <1>4, <2>3, <2>4 DEF A
<1>5. QED
  BY <1>3, <1>4

\* k adjacent ones rotated right by r: how many are lowest, and how many end
\* at the top or, with none lowest, above e - r.
LowRun(k, r) == IF r <= k THEN k - r ELSE 0
HighRun(k, r) == IF r <= k THEN r ELSE k
InRun(k, r, e, i) == i < LowRun(k, r) \/ (e - r <= i /\ i < (e - r) + HighRun(k, r))

LEMMA RotatedOnes ==
  ASSUME NEW e \in Nat, e <= Widest, NEW k \in Nat, k <= Widest, NEW r \in 0 .. e - 1
  PROVE  RotateRight(Pow(k) - 1, r, e) =
           (Pow(HighRun(k, r)) - 1) * Pow(e - r) + (Pow(LowRun(k, r)) - 1)
<1> DEFINE x == Pow(k) - 1
           R == Pow(r)
           E == Pow(e - r)
<1>1. Widest \in Nat /\ r \in Nat /\ r <= Widest /\ e - r \in Nat /\ e - r <= Widest
  BY WidthsInUse
<1>2. R \in Nat \ {0} /\ E \in Nat \ {0} /\ Pow(k) \in Nat \ {0} /\ Pow(0) = 1
  BY <1>1, PowerPositive, PowerDoubles
<1>3. RotateRight(x, r, e) = (x \div R) + (x % R) * E
  BY DEF RotateRight, Pow
<1>4. CASE r <= k
  <2> DEFINE Q == Pow(k - r)
             t == Q - 1
             u == t * R
  <2>1. k - r \in Nat /\ k - r <= Widest /\ r + (k - r) = k
    BY <1>1, <1>4
  <2>2. Pow(k) = R * Q /\ Q \in Nat \ {0}
    BY <2>1, PowersTimes, PowerPositive
  <2> HIDE DEF R, Q, E
  <2>3. R * Q = (Q - 1) * R + R
    BY <1>2, <2>2, SMT
  <2>4. t \in Int /\ u \in Int /\ x = u + (R - 1) /\ x \in Int
    BY <1>2, <2>2, <2>3
  <2>5. R - 1 \in Int /\ 0 <= R - 1 /\ R - 1 < R
    BY <1>2
  <2> HIDE DEF t, u, x
  <2>6. x \div R = t /\ x % R = R - 1
    BY <1>2, <2>4, <2>5, DivUnique DEF u
  <2>7. HighRun(k, r) = r /\ LowRun(k, r) = k - r
    BY <1>4 DEF HighRun, LowRun
  <2> DEFINE w == (R - 1) * E
  <2>8. w \in Int /\ t \in Int
    BY <1>2, <2>4, <2>5
  <2>9. RotateRight(x, r, e) = t + w
    BY <1>3, <2>6
  <2> HIDE DEF w
  <2>10. t + w = w + t
    BY <2>8
  <2>11. QED
    BY <2>7, <2>9, <2>10 DEF w, t, x, R, Q, E
<1>5. CASE ~(r <= k)
  <2>1. Pow(k) < R
    BY <1>1, <1>5, PowerUnderstood
  <2> HIDE DEF R, E
  <2>2. x \in Nat /\ x = 0 * R + x /\ x < R /\ 0 \in Int /\ x \in Int /\ 0 <= x
    BY <1>2, <2>1
  <2> DEFINE w == x * E
  <2>3. w \in Int
    BY <1>2, <2>2, SMT
  <2> HIDE DEF x
  <2>4. x \div R = 0 /\ x % R = x
    BY <1>2, <2>2, DivUnique
  <2>5. HighRun(k, r) = k /\ LowRun(k, r) = 0
    BY <1>5 DEF HighRun, LowRun
  <2>6. RotateRight(x, r, e) = 0 + w
    BY <1>3, <2>4
  <2> HIDE DEF w
  <2>7. 0 + w = w + (1 - 1)
    BY <2>3
  <2>8. QED
    BY <1>2, <2>5, <2>6, <2>7 DEF w, x, E
<1>6. QED
  BY <1>4, <1>5

LEMMA RunTyped ==
  ASSUME NEW e \in Nat, NEW k \in 0 .. e, NEW r \in 0 .. e - 1
  PROVE  /\ LowRun(k, r) \in Nat /\ LowRun(k, r) <= e - r /\ LowRun(k, r) <= k
         /\ HighRun(k, r) \in Nat /\ HighRun(k, r) <= r /\ HighRun(k, r) <= k
         /\ LowRun(k, r) + HighRun(k, r) = k
BY DEF LowRun, HighRun

LEMMA BitRotated ==
  ASSUME NEW e \in Nat, e <= Widest, NEW k \in 0 .. e, NEW r \in 0 .. e - 1,
         NEW i \in Nat, i <= Widest
  PROVE  Bit(RotateRight(Pow(k) - 1, r, e), i) = IF InRun(k, r, e, i) THEN 1 ELSE 0
<1> DEFINE a == LowRun(k, r)
           b == HighRun(k, r)
           lo == Pow(a) - 1
           y == Pow(b) - 1
           s == e - r
<1>1. /\ a \in Nat /\ a <= s /\ b \in Nat /\ b <= r /\ r \in Nat /\ s \in Nat /\ s <= Widest
      /\ a <= Widest /\ b <= Widest /\ k \in Nat /\ k <= Widest /\ Widest \in Nat
  <2>1. a \in Nat /\ a <= s /\ b \in Nat /\ b <= r
    BY RunTyped
  <2> HIDE DEF a, b
  <2>2. Widest \in Nat
    BY WidthsInUse
  <2>3. QED
    BY <2>1, <2>2
<1>2. RotateRight(Pow(k) - 1, r, e) = y * Pow(s) + lo
  BY <1>1, RotatedOnes
<1>3. InRun(k, r, e, i) <=> i < a \/ (s <= i /\ i < s + b)
  BY DEF InRun
<1> HIDE DEF a, b, s
<1>4. Pow(a) \in Nat \ {0} /\ Pow(b) \in Nat \ {0} /\ Pow(a) <= Pow(s) /\ Pow(s) \in Nat
  BY <1>1, PowerPositive, PowerUnderstood
<1>5. lo \in Nat /\ lo < Pow(s) /\ y \in Nat
  BY <1>4
<1>6. Bit(y * Pow(s) + lo, i) = IF i < s THEN Bit(lo, i) ELSE Bit(y, i - s)
  <2> HIDE DEF y, lo
  <2>1. QED
    BY <1>1, <1>5, BitJoined
<1>7. CASE i < s
  <2>1. Bit(lo, i) = IF i < a THEN 1 ELSE 0
    BY <1>1, BitOnes
  <2>2. InRun(k, r, e, i) <=> i < a
    BY <1>1, <1>3, <1>7
  <2>3. QED
    BY <1>2, <1>6, <1>7, <2>1, <2>2
<1>8. CASE ~(i < s)
  <2>1. i - s \in Nat /\ i - s <= Widest
    BY <1>1, <1>8
  <2>2. Bit(y, i - s) = IF i - s < b THEN 1 ELSE 0
    BY <1>1, <2>1, BitOnes
  <2>3. InRun(k, r, e, i) <=> i - s < b
    BY <1>1, <1>3, <1>8
  <2>4. QED
    BY <1>2, <1>6, <1>8, <2>2, <2>3
<1>9. QED
  BY <1>7, <1>8

LEMMA BitZero ==
  ASSUME NEW i \in Nat, i <= Widest
  PROVE  Bit(0, i) = 0
<1>1. Pow(0) = 1 /\ 0 \in Nat /\ 0 <= Widest
  BY PowerDoubles, WidthsInUse
<1>2. Pow(0) - 1 = 0
  BY <1>1
<1>3. Bit(Pow(0) - 1, i) = IF i < 0 THEN 1 ELSE 0
  BY <1>1, BitOnes
<1>4. QED
  BY <1>2, <1>3

\* Neither none nor all of the bits of an element of k ones are set.
LEMMA RotatedFits ==
  ASSUME NEW e \in Nat, e <= Widest, NEW k \in 1 .. e - 1, NEW r \in 0 .. e - 1
  PROVE  /\ RotateRight(Pow(k) - 1, r, e) \in 0 .. Pow(e) - 1
         /\ RotateRight(Pow(k) - 1, r, e) \notin {0, Pow(e) - 1}
<1> DEFINE x == RotateRight(Pow(k) - 1, r, e)
           a == LowRun(k, r)
           b == HighRun(k, r)
           s == e - r
           S == Pow(s)
           lo == Pow(a) - 1
           y == Pow(b) - 1
<1>1. Widest \in Nat /\ k \in Nat /\ k \in 0 .. e /\ k <= Widest /\ r \in Nat /\ r <= Widest
      /\ s \in Nat /\ s <= Widest /\ r + s = e
  BY WidthsInUse
<1>2. a \in Nat /\ a <= s /\ b \in Nat /\ b <= r
  BY <1>1, RunTyped
<1>3. x = y * S + lo
  BY <1>1, RotatedOnes
<1>4. x \in 0 .. Pow(e) - 1
  <2> HIDE DEF a, b, s, x
  <2> DEFINE R == Pow(r)
  <2>1. a <= Widest /\ b <= Widest
    BY <1>1, <1>2
  <2>2. /\ Pow(a) \in Nat \ {0} /\ Pow(b) \in Nat \ {0} /\ S \in Nat \ {0} /\ R \in Nat \ {0}
        /\ Pow(a) <= S /\ Pow(b) <= R /\ Pow(e) \in Nat
    BY <1>1, <1>2, <2>1, PowerPositive, PowerUnderstood
  <2>3. Pow(e) = R * S
    BY <1>1, PowersTimes
  <2>4. lo \in Nat /\ lo <= S - 1 /\ y \in Nat /\ y <= R - 1
    BY <2>2
  <2> HIDE DEF lo, y, R, S
  <2>5. y * S <= (R - 1) * S /\ (R - 1) * S = R * S - S /\ y * S \in Nat /\ R * S \in Nat
    <3>1. y \in Int /\ R - 1 \in Int
      BY <2>2, <2>4
    <3>2. y * S <= (R - 1) * S
      BY <2>2, <2>4, <3>1, MultiplesOrdered
    <3>3. (R - 1) * S = R * S - S /\ y * S \in Nat /\ R * S \in Nat
      BY <2>2, <2>4, SMT
    <3>4. QED
      BY <3>2, <3>3
  <2> DEFINE ys == y * S
             rs == R * S
  <2>6. ys <= rs - S /\ ys \in Nat /\ rs \in Nat /\ Pow(e) = rs /\ x = ys + lo
    BY <1>3, <2>3, <2>5
  <2> HIDE DEF ys, rs
  <2>7. QED
    BY <2>2, <2>4, <2>6
<1>5. x # 0
  <2> DEFINE i == IF r < k THEN 0 ELSE s
  <2>1. i \in Nat /\ i <= Widest /\ InRun(k, r, e, i)
    BY <1>1 DEF InRun, LowRun, HighRun
  <2> HIDE DEF i
  <2>2. Bit(x, i) = 1
    BY <1>1, <2>1, BitRotated
  <2>3. Bit(0, i) = 0
    BY <2>1, BitZero
  <2>4. QED
    BY <2>2, <2>3
<1>6. x # Pow(e) - 1
  <2> DEFINE i == IF r <= k THEN k - r ELSE s + k
  <2>1. i \in Nat /\ i <= Widest /\ i < e /\ ~InRun(k, r, e, i)
    BY <1>1 DEF InRun, LowRun, HighRun
  <2> HIDE DEF i
  <2>2. Bit(x, i) = 0
    BY <1>1, <2>1, BitRotated
  <2>3. Bit(Pow(e) - 1, i) = 1
    BY <2>1, BitOnes
  <2>4. QED
    BY <2>2, <2>3
<1>7. QED
  BY <1>4, <1>5, <1>6

\* They are k.
LEMMA OnesCounted ==
  ASSUME NEW e \in Nat, e <= MaskBits, NEW k \in 0 .. e, NEW r \in 0 .. e - 1
  PROVE  Ones(RotateRight(Pow(k) - 1, r, e)) = k
<1> DEFINE x == RotateRight(Pow(k) - 1, r, e)
           a == LowRun(k, r)
           b == HighRun(k, r)
           s == e - r
           A == 0 .. a - 1
           B == s .. s + b - 1
<1>1. Widest \in Nat /\ MaskBits \in Nat /\ MaskBits <= Widest /\ e <= Widest
      /\ r \in Nat /\ k \in Nat /\ s \in Nat /\ r + s = e
  BY WidthsInUse
<1>2. a \in Nat /\ a <= s /\ b \in Nat /\ b <= r /\ a + b = k
  BY <1>1, RunTyped
<1>3. {i \in 0 .. MaskBits - 1 : Bit(x, i) = 1} = A \cup B
  <2>1. ASSUME NEW i \in 0 .. MaskBits - 1
        PROVE  Bit(x, i) = 1 <=> InRun(k, r, e, i)
    <3>1. i \in Nat /\ i <= Widest
      BY <1>1
    <3>2. Bit(x, i) = IF InRun(k, r, e, i) THEN 1 ELSE 0
      BY <1>1, <3>1, BitRotated
    <3>3. QED
      BY <3>2
  <2> HIDE DEF x
  <2>2. ASSUME NEW i \in 0 .. MaskBits - 1
        PROVE  InRun(k, r, e, i) <=> i \in A \cup B
    <3>1. InRun(k, r, e, i) <=> i < a \/ (s <= i /\ i < s + b)
      BY DEF InRun
    <3> HIDE DEF a, b, s
    <3>2. QED
      BY <1>1, <1>2, <3>1
  <2> HIDE DEF a, b, s
  <2>3. A \cup B \subseteq 0 .. MaskBits - 1
    BY <1>1, <1>2
  <2> HIDE DEF A, B
  <2>4. QED
    BY <2>1, <2>2, <2>3
<1> HIDE DEF x, a, b, s
<1>4. /\ IsFiniteSet(A) /\ Cardinality(A) = a
      /\ IsFiniteSet(B) /\ Cardinality(B) = b
  <2>1. 0 \in Int /\ a - 1 \in Int /\ s \in Int /\ s + b - 1 \in Int
    BY <1>1, <1>2
  <2>2. IsFiniteSet(A) /\ Cardinality(A) = IF 0 > a - 1 THEN 0 ELSE (a - 1) - 0 + 1
    BY <2>1, FS_Interval
  <2>3. IsFiniteSet(B) /\ Cardinality(B) = IF s > s + b - 1 THEN 0 ELSE (s + b - 1) - s + 1
    BY <2>1, FS_Interval
  <2> DEFINE ca == Cardinality(A)
             cb == Cardinality(B)
  <2> HIDE DEF ca, cb
  <2>4. ca = IF 0 > a - 1 THEN 0 ELSE (a - 1) - 0 + 1
    BY <2>2 DEF ca
  <2>5. cb = IF s > s + b - 1 THEN 0 ELSE (s + b - 1) - s + 1
    BY <2>3 DEF cb
  <2>6. ca = a /\ cb = b
    BY <1>1, <1>2, <2>4, <2>5
  <2>7. QED
    BY <2>2, <2>3, <2>6 DEF ca, cb
<1>5. A \cap B = {}
  BY <1>1, <1>2
<1> HIDE DEF A, B
<1>6. Cardinality(A \cup B) = Cardinality(A) + Cardinality(B) - Cardinality(A \cap B)
  BY <1>4, FS_Union
<1>7. Cardinality(A \cap B) = 0
  BY <1>5, FS_EmptySet
<1>8. Cardinality(A \cup B) = a + b - 0
  BY <1>4, <1>6, <1>7
<1>9. a + b - 0 = k
  BY <1>1, <1>2
<1>10. Ones(x) = Cardinality({i \in 0 .. MaskBits - 1 : Bit(x, i) = 1})
  BY DEF Ones
<1>11. QED
  BY <1>3, <1>8, <1>9, <1>10 DEF x

\* Its halves differ.
LEMMA HalvesDiffer ==
  ASSUME NEW h \in Nat \ {0}, 2 * h <= Widest, NEW k \in 1 .. 2 * h - 1, NEW r \in 0 .. 2 * h - 1,
         NEW z \in 0 .. Pow(h) - 1
  PROVE  RotateRight(Pow(k) - 1, r, 2 * h) # z * Pow(h) + z
<1> SUFFICES ASSUME RotateRight(Pow(k) - 1, r, 2 * h) = z * Pow(h) + z PROVE FALSE
  OBVIOUS
<1> DEFINE e == 2 * h
           x == RotateRight(Pow(k) - 1, r, e)
<1>1. Widest \in Nat /\ e \in Nat /\ e <= Widest /\ k \in 0 .. e /\ k \in 1 .. e - 1
      /\ r \in 0 .. e - 1 /\ h <= Widest /\ k \in Nat /\ r \in Nat
  BY WidthsInUse
<1>2. Pow(h) \in Nat
  BY <1>1, PowerPositive
<1>3. z \in Nat /\ z < Pow(h)
  BY <1>2
<1> HIDE DEF e
<1>4. ASSUME NEW i \in 0 .. h - 1
      PROVE  InRun(k, r, e, i) <=> InRun(k, r, e, i + h)
  <2>1. i \in Nat /\ i <= Widest /\ i < h /\ i + h \in Nat /\ i + h <= Widest
        /\ ~(i + h < h) /\ (i + h) - h = i
    BY <1>1 DEF e
  <2>2. Bit(x, i) = Bit(z, i)
    <3>1. Bit(z * Pow(h) + z, i) = IF i < h THEN Bit(z, i) ELSE Bit(z, i - h)
      BY <1>1, <1>3, <2>1, BitJoined
    <3>2. QED
      BY <2>1, <3>1 DEF e
  <2>3. Bit(x, i + h) = Bit(z, i)
    <3>1. Bit(z * Pow(h) + z, i + h) = IF i + h < h THEN Bit(z, i + h) ELSE Bit(z, (i + h) - h)
      BY <1>1, <1>3, <2>1, BitJoined
    <3>2. QED
      BY <2>1, <3>1 DEF e
  <2>4. Bit(x, i) = IF InRun(k, r, e, i) THEN 1 ELSE 0
    BY <1>1, <2>1, BitRotated
  <2>5. Bit(x, i + h) = IF InRun(k, r, e, i + h) THEN 1 ELSE 0
    BY <1>1, <2>1, BitRotated
  <2>6. QED
    BY <2>2, <2>3, <2>4, <2>5
<1> HIDE DEF x
<1> DEFINE Same(i) == InRun(k, r, e, i) <=> InRun(k, r, e, i + h)
<1>5. \A i \in 0 .. h - 1 : Same(i)
  BY <1>4
<1> HIDE DEF Same
<1>6. CASE r > k
  <2> DEFINE s == e - r
  <2>1. s \in Nat /\ s >= 1 /\ s + k < e
    BY <1>1, <1>6
  <2>2. \A i \in Nat : InRun(k, r, e, i) <=> s <= i /\ i < s + k
    BY <1>1, <1>6 DEF InRun, LowRun, HighRun
  <2> HIDE DEF s
  <2>3. CASE s < h
    <3>1. Same(s) /\ Same(s - 1)
      BY <1>5, <2>1, <2>3
    <3>2. s \in Nat /\ s + h \in Nat /\ s - 1 \in Nat /\ (s - 1) + h \in Nat
      BY <2>1
    <3>3. s + h < s + k
      BY <1>1, <2>1, <2>2, <3>1, <3>2 DEF Same
    <3>4. ~(s <= (s - 1) + h /\ (s - 1) + h < s + k)
      BY <1>1, <2>1, <2>2, <3>1, <3>2 DEF Same
    <3>5. QED
      BY <1>1, <2>1, <3>3, <3>4
  <2>4. CASE ~(s < h)
    <3>1. s - h \in 0 .. h - 1 /\ s - h \in Nat /\ (s - h) + h = s
      BY <1>1, <2>1, <2>4 DEF e
    <3>2. Same(s - h)
      BY <1>5, <3>1
    <3>3. s <= s - h
      BY <1>1, <2>1, <2>2, <3>1, <3>2 DEF Same
    <3>4. QED
      BY <2>1, <3>3
  <2>5. QED
    BY <2>3, <2>4
<1>7. CASE ~(r > k)
  <2> DEFINE a == k - r
             s == e - r
  <2>1. a \in Nat /\ s \in Nat /\ a < s /\ s <= e /\ a + (e - s) = k
    BY <1>1, <1>7
  <2>2. \A i \in Nat : i < e => (InRun(k, r, e, i) <=> i < a \/ s <= i)
    BY <1>1, <1>7 DEF InRun, LowRun, HighRun
  <2> HIDE DEF a, s
  <2>3. CASE a = 0
    <3>1. Same(0) /\ Same(h - 1)
      BY <1>5
    <3>2. 0 \in Nat /\ 0 + h \in Nat /\ h - 1 \in Nat /\ (h - 1) + h \in Nat
          /\ 0 < e /\ 0 + h < e /\ h - 1 < e /\ (h - 1) + h < e
      BY DEF e
    <3>3. ~(s <= h)
      BY <1>1, <2>1, <2>2, <2>3, <3>1, <3>2 DEF Same
    <3>4. s <= (h - 1) + h => s <= h - 1
      BY <1>1, <2>1, <2>2, <2>3, <3>1, <3>2 DEF Same
    <3>5. s <= (h - 1) + h
      BY <1>1, <2>1, <2>3 DEF e
    <3>6. QED
      BY <2>1, <3>3, <3>4, <3>5
  <2>4. CASE a # 0 /\ a < h
    <3>1. a - 1 \in 0 .. h - 1 /\ a \in 0 .. h - 1
      BY <2>1, <2>4
    <3>2. Same(a - 1) /\ Same(a)
      BY <1>5, <3>1
    <3>3. a - 1 \in Nat /\ (a - 1) + h \in Nat /\ a + h \in Nat
          /\ a - 1 < e /\ (a - 1) + h < e /\ a < e /\ a + h < e
      BY <2>1, <3>1 DEF e
    <3>4. (a - 1) + h < a \/ s <= (a - 1) + h
      BY <2>1, <2>2, <3>2, <3>3 DEF Same
    <3>5. ~(a + h < a \/ s <= a + h)
      BY <2>1, <2>2, <3>2, <3>3 DEF Same
    <3>6. QED
      BY <2>1, <3>4, <3>5
  <2>5. CASE ~(a < h)
    <3>1. a - h \in 0 .. h - 1 /\ a - h \in Nat /\ (a - h) + h = a /\ a < e /\ a - h < e
      BY <1>1, <2>1, <2>5 DEF e
    <3>2. Same(a - h)
      BY <1>5, <3>1
    <3>3. ~(a - h < a)
      BY <2>1, <2>2, <3>1, <3>2 DEF Same
    <3>4. QED
      BY <2>1, <3>3
  <2>6. QED
    BY <2>3, <2>4, <2>5
<1>8. QED
  BY <1>6, <1>7

-----------------------------------------------------------------------------
(* aarch64: the shortest element of a pattern                               *)

LEMMA CopiesHalve ==
  ASSUME NEW i \in 0 .. LogMaskBits - 1
  PROVE  Copies(Pow(i)) = (Pow(Pow(i)) + 1) * Copies(Pow(i + 1))
<1> DEFINE p == Pow(Pow(i))
           c == Copies(Pow(i))
           d == Copies(Pow(i + 1))
           all == Pow(MaskBits) - 1
<1>1. /\ i \in 0 .. LogMaskBits /\ i + 1 \in 0 .. LogMaskBits
      /\ p \in Nat /\ p >= 2 /\ Pow(Pow(i + 1)) = p * p
  <2>1. i \in 0 .. LogMaskBits /\ i + 1 \in 0 .. LogMaskBits /\ Pow(Pow(i + 1)) = p * p
    BY ElementWidths
  <2>2. p \in Nat /\ p >= 2
    BY <2>1, ElementWidths
  <2>3. QED
    BY <2>1, <2>2
<1>2. c \in Nat \ {0} /\ (p - 1) * c = all
  BY <1>1, CopiesOf
<1>3. d \in Nat \ {0} /\ (p * p - 1) * d = all
  BY <1>1, CopiesOf
<1> HIDE DEF p, c, d, all
<1>4. (p * p - 1) * d = (p - 1) * ((p + 1) * d) /\ (p + 1) * d \in Int
  <2>1. p * p - 1 = (p - 1) * (p + 1)
    BY <1>1, SMT
  <2>2. ((p - 1) * (p + 1)) * d = (p - 1) * ((p + 1) * d) /\ (p + 1) * d \in Int
    BY <1>1, <1>3, SMT
  <2>3. QED
    BY <2>1, <2>2
<1> DEFINE f == (p + 1) * d
<1>5. f \in Int /\ (p - 1) * c = (p - 1) * f /\ c \in Int /\ p - 1 \in Nat \ {0}
  BY <1>1, <1>2, <1>3, <1>4
<1> HIDE DEF f
<1>6. (p - 1) * c = c * (p - 1) /\ (p - 1) * f = f * (p - 1)
  BY <1>1, <1>5, SMT
<1>7. c = f
  <2> DEFINE o == p - 1
  <2>1. o \in Nat \ {0} /\ c * o = f * o
    BY <1>5, <1>6
  <2> HIDE DEF o
  <2>2. QED
    BY <1>5, <2>1, SameMultiple
<1>8. QED
  BY <1>7 DEF f, p, c, d

\* What a shorter element repeats, a longer one repeats.
LEMMA CopiesDivide ==
  ASSUME NEW j \in 0 .. LogMaskBits, NEW m \in 0 .. LogMaskBits, j <= m
  PROVE  \E w \in Int : Copies(Pow(j)) = w * Copies(Pow(m))
<1> DEFINE Divides(i) == \E w \in Int : Copies(Pow(i)) = w * Copies(Pow(m))
           T == {n \in Nat : n <= m => Divides(m - n)}
<1>1. LogMaskBits \in Nat /\ m \in Nat /\ m <= LogMaskBits
  BY WidthsInUse
<1>2. 0 \in T
  <2>1. m - 0 = m
    BY <1>1
  <2>2. Copies(Pow(m)) \in Nat \ {0}
    BY CopiesOf
  <2>3. Copies(Pow(m)) = 1 * Copies(Pow(m)) /\ 1 \in Int
    BY <2>2
  <2>4. Divides(m)
    BY <2>3
  <2>5. QED
    BY <2>1, <2>4
<1>3. ASSUME NEW n \in Nat, n \in T PROVE n + 1 \in T
  <2>1. SUFFICES ASSUME n + 1 <= m PROVE Divides(m - (n + 1))
    OBVIOUS
  <2> DEFINE i == m - (n + 1)
  <2>2. i \in 0 .. LogMaskBits - 1 /\ m - n = i + 1 /\ n <= m
    BY <1>1, <2>1
  <2>3. Divides(i + 1)
    <3>1. Divides(m - n)
      BY <1>3, <2>2
    <3>2. QED
      BY <2>2, <3>1
  <2> HIDE DEF i
  <2>4. PICK w \in Int : Copies(Pow(i + 1)) = w * Copies(Pow(m))
    BY <2>3
  <2>5. Copies(Pow(i)) = (Pow(Pow(i)) + 1) * Copies(Pow(i + 1))
    BY <2>2, CopiesHalve
  <2> DEFINE p == Pow(Pow(i))
             c == Copies(Pow(m))
  <2>6. p \in Nat /\ c \in Nat
    <3>1. i \in 0 .. LogMaskBits
      BY <1>1, <2>2
    <3>2. p \in Nat
      BY <3>1, ElementWidths
    <3>3. c \in Nat
      BY CopiesOf
    <3>4. QED
      BY <3>2, <3>3
  <2> HIDE DEF p, c
  <2>7. (p + 1) * (w * c) = ((p + 1) * w) * c /\ (p + 1) * w \in Int
    BY <2>6, SMT
  <2>8. Copies(Pow(i)) = ((p + 1) * w) * c
    BY <2>4, <2>5, <2>7 DEF p, c
  <2> DEFINE f == (p + 1) * w
  <2>9. f \in Int /\ Copies(Pow(i)) = f * c
    BY <2>7, <2>8
  <2> HIDE DEF f
  <2>10. Divides(i)
    BY <2>9 DEF c
  <2>11. QED
    BY <2>10 DEF i
<1> HIDE DEF T
<1>4. \A n \in Nat : n \in T
  BY <1>2, <1>3, AllNumbers
<1>5. m - j \in Nat /\ m - j <= m /\ m - (m - j) = j
  BY <1>1
<1>6. Divides(j)
  BY <1>4, <1>5 DEF T
<1>7. QED
  BY <1>6

\* A pattern is a repetition of its lowest bits.
Periodic(v, i) == Repeat(Low(v, Pow(i)), Pow(i)) = v

LEMMA LowElement ==
  ASSUME NEW v \in Int, NEW i \in 0 .. LogMaskBits
  PROVE  Low(v, Pow(i)) \in 0 .. Pow(Pow(i)) - 1
<1> DEFINE x == Low(v, Pow(i))
           p == Pow(Pow(i))
<1>1. Pow(i) \in Nat \ {0} /\ Pow(i) <= Widest /\ p \in Nat /\ Widest \in Nat
  BY ElementWidths, WidthsInUse
<1>2. IsWidth(Pow(i))
  BY <1>1 DEF IsWidth
<1>3. x \in Int /\ 0 <= x /\ x < p
  BY <1>2, LowReads
<1> HIDE DEF x, p
<1>4. x \in 0 .. p - 1
  BY <1>1, <1>3
<1>5. QED
  BY <1>4 DEF x, p

\* No element of adjacent ones, rotated, repeats a shorter one.
LEMMA NotShorter ==
  ASSUME NEW l \in 1 .. LogMaskBits, NEW k \in 1 .. Pow(l) - 1, NEW r \in 0 .. Pow(l) - 1,
         NEW j \in 0 .. l - 1
  PROVE  ~Periodic(Repeat(RotateRight(Pow(k) - 1, r, Pow(l)), Pow(l)), j)
<1> DEFINE x == RotateRight(Pow(k) - 1, r, Pow(l))
           v == Repeat(x, Pow(l))
           h == Pow(l - 1)
           H == Pow(h)
           c == Copies(Pow(l))
           d == Copies(Pow(l - 1))
           y == Low(v, Pow(j))
           all == Pow(MaskBits) - 1
<1>1. SUFFICES ASSUME Periodic(v, j) PROVE FALSE
  OBVIOUS
<1>2. /\ LogMaskBits \in Nat /\ l \in 0 .. LogMaskBits /\ l - 1 \in 0 .. LogMaskBits - 1
      /\ l - 1 \in 0 .. LogMaskBits /\ j \in 0 .. LogMaskBits /\ j <= l - 1 /\ (l - 1) + 1 = l
      /\ Widest \in Nat
  BY WidthsInUse
<1>3. /\ Pow(l) = 2 * h /\ h \in Nat \ {0} /\ Pow(l) <= Widest /\ H \in Nat /\ H >= 2
      /\ Pow(l) \in Nat
  <2>1. Pow(l) <= Widest /\ Pow(l) \in Nat
    BY <1>2, ElementWidths
  <2>2. h \in Nat \ {0} /\ H \in Nat /\ H >= 2
    BY <1>2, ElementWidths
  <2>3. Pow((l - 1) + 1) = 2 * h
    BY <1>2, ElementWidths
  <2>4. QED
    BY <1>2, <2>1, <2>2, <2>3
<1>4. x \in 0 .. Pow(Pow(l)) - 1
  BY <1>3, RotatedFits
<1>5. v \in 0 .. all /\ v = x * c /\ c \in Nat \ {0}
  <2> HIDE DEF x
  <2>1. v \in 0 .. all
    BY <1>2, <1>4, RepeatReads
  <2>2. v = x * c /\ c \in Nat \ {0}
    BY <1>2, CopiesOf
  <2>3. QED
    BY <2>1, <2>2
<1>6. all \in Int /\ x \in Int
  <2>1. Pow(MaskBits) \in Int
    BY PowerPositive, WidthsInUse
  <2>2. Pow(Pow(l)) \in Int
    BY <1>2, ElementWidths
  <2> HIDE DEF x
  <2>3. QED
    BY <1>4, <2>1, <2>2
<1>7. v \in Int /\ 0 <= v /\ v <= all
  <2> HIDE DEF v, all
  <2>1. QED
    BY <1>5, <1>6
<1>8. y \in Int
  <2>1. y \in 0 .. Pow(Pow(j)) - 1 /\ Pow(Pow(j)) \in Int
    <3> HIDE DEF v
    <3>1. Low(v, Pow(j)) \in 0 .. Pow(Pow(j)) - 1
      BY <1>2, <1>7, LowElement
    <3>2. Pow(Pow(j)) \in Int
      BY <1>2, ElementWidths
    <3>3. QED
      BY <3>1, <3>2
  <2> HIDE DEF y
  <2>2. QED
    BY <2>1
<1>9. PICK w \in Int : Copies(Pow(j)) = w * d
  BY <1>2, CopiesDivide
<1>10. v = y * (w * d)
  <2>1. v = Repeat(y, Pow(j))
    BY <1>1 DEF Periodic
  <2>2. Repeat(y, Pow(j)) = y * Copies(Pow(j))
    BY <1>2, CopiesOf
  <2>3. QED
    BY <1>9, <2>1, <2>2
<1>11. d \in Nat \ {0} /\ (H - 1) * d = all
  BY <1>2, CopiesOf
<1>12. d = (H + 1) * c
  BY <1>2, CopiesHalve
<1> HIDE DEF x, v, h, H, c, d, y, all
<1> DEFINE z == y * w
<1>13. y * (w * d) = z * d /\ z \in Int
  BY <1>8, <1>11, SMT
<1> HIDE DEF z
<1>14. z \in 0 .. H - 1
  <2>1. 0 * d = 0 /\ H - 1 \in Int /\ 0 \in Int
    BY <1>3, <1>11
  <2>2. 0 * d <= z * d /\ z * d <= (H - 1) * d
    BY <1>7, <1>10, <1>11, <1>13, <2>1
  <2>3. 0 <= z /\ z <= H - 1
    BY <1>11, <1>13, <2>1, <2>2, MultiplesOrdered
  <2>4. QED
    BY <1>3, <1>13, <2>3
<1>15. x = z * H + z
  <2>1. z * ((H + 1) * c) = (z * H + z) * c /\ z * H + z \in Int
    BY <1>3, <1>5, <1>13, SMT
  <2> DEFINE f == z * H + z
  <2>2. f \in Int /\ x * c = f * c
    BY <1>5, <1>10, <1>12, <1>13, <2>1
  <2> HIDE DEF f
  <2>3. x = f
    BY <1>5, <1>6, <2>2, SameMultiple
  <2>4. QED
    BY <2>3 DEF f
<1>16. QED
  <2>1. RotateRight(Pow(k) - 1, r, 2 * h) = z * Pow(h) + z
    BY <1>3, <1>15 DEF x, H
  <2>2. k \in 1 .. 2 * h - 1 /\ r \in 0 .. 2 * h - 1 /\ 2 * h <= Widest
    BY <1>3
  <2>3. z \in 0 .. Pow(h) - 1
    BY <1>14 DEF H
  <2>4. QED
    BY <1>3, <2>1, <2>2, <2>3, HalvesDiffer

LEMMA ElementIs ==
  ASSUME NEW v, NEW l \in 1 .. LogMaskBits, Periodic(v, l), \A j \in 1 .. l - 1 : ~Periodic(v, j)
  PROVE  ElementOf(v) = Pow(l)
<1> DEFINE Fits(e) == /\ Repeat(Low(v, e), e) = v
                      /\ \A i \in 1 .. LogMaskBits : Pow(i) < e => ~Periodic(v, i)
           E == {Pow(i) : i \in 1 .. LogMaskBits}
<1>1. LogMaskBits \in Nat /\ \A i \in 1 .. LogMaskBits : i \in Nat /\ i <= Widest
  <2>1. LogMaskBits \in Nat /\ LogMaskBits <= Widest /\ Widest \in Nat
    BY WidthsInUse
  <2>2. QED
    BY <2>1
<1>2. ElementOf(v) = CHOOSE e \in E : Fits(e)
  BY DEF ElementOf, Periodic, Pow
<1>3. Fits(Pow(l))
  <2>1. ASSUME NEW i \in 1 .. LogMaskBits, Pow(i) < Pow(l) PROVE ~Periodic(v, i)
    <3>1. i < l
      BY <1>1, <2>1, PowerUnderstood
    <3>2. i \in 1 .. l - 1
      BY <3>1
    <3>3. QED
      BY <3>2
  <2>2. QED
    BY <2>1 DEF Periodic
<1>4. Pow(l) \in E
  OBVIOUS
<1> DEFINE e == ElementOf(v)
<1> HIDE DEF Fits, E
<1>5. e \in E /\ Fits(e)
  BY <1>2, <1>3, <1>4
<1> HIDE DEF e
<1>6. PICK i \in 1 .. LogMaskBits : e = Pow(i)
  BY <1>5 DEF E
<1>7. Periodic(v, i)
  BY <1>5, <1>6 DEF Fits, Periodic
<1>8. ~(i < l)
  <2>1. i < l => i \in 1 .. l - 1
    BY <1>1
  <2>2. QED
    BY <1>7, <2>1
<1>9. ~(l < i)
  <2>1. l < i => Pow(l) < Pow(i)
    BY <1>1, PowerUnderstood
  <2>2. QED
    BY <1>5, <1>6, <2>1 DEF Fits
<1>10. i = l
  BY <1>1, <1>8, <1>9
<1>11. QED
  BY <1>6, <1>10 DEF e

\* The whole pattern is an element of itself.
LEMMA WholePeriodic ==
  ASSUME NEW v \in 0 .. Pow(MaskBits) - 1
  PROVE  Periodic(v, LogMaskBits)
<1> DEFINE p == Pow(MaskBits)
           c == Copies(MaskBits)
<1>1. MaskBits = Pow(LogMaskBits) /\ LogMaskBits \in 0 .. LogMaskBits
  <2>1. LogMaskBits \in Nat
    BY WidthsInUse
  <2>2. QED
    BY <2>1, ElementWidths
<1>2. p \in Nat /\ p >= 2
  BY <1>1, ElementWidths
<1>3. c \in Nat \ {0} /\ (p - 1) * c = p - 1 /\ Repeat(v, MaskBits) = v * c
  BY <1>1, CopiesOf
<1>4. Low(v, MaskBits) = v % p
  BY DEF Low, Pow
<1> HIDE DEF p, c
<1>5. v \in Int /\ 0 <= v /\ v < p /\ v = 0 * p + v /\ 0 \in Int /\ p \in Nat \ {0}
  BY <1>2 DEF p
<1>6. v % p = v
  BY <1>5, DivUnique
<1>7. c = 1
  <2>1. (p - 1) * c = c * (p - 1) /\ 1 * (p - 1) = p - 1 /\ c \in Int /\ 1 \in Int
        /\ p - 1 \in Nat \ {0}
    BY <1>2, <1>3, SMT
  <2> DEFINE o == p - 1
  <2>2. c * o = 1 * o /\ o \in Nat \ {0} /\ c \in Int /\ 1 \in Int
    BY <1>3, <2>1
  <2> HIDE DEF o
  <2>3. QED
    BY <2>2, SameMultiple
<1>8. v * c = v
  BY <1>5, <1>7
<1>9. QED
  BY <1>1, <1>3, <1>4, <1>6, <1>8 DEF Periodic

LEMMA ElementExists ==
  ASSUME NEW v \in 0 .. Pow(MaskBits) - 1
  PROVE  \E l \in 1 .. LogMaskBits :
           ElementOf(v) = Pow(l) /\ Periodic(v, l) /\ \A j \in 1 .. l - 1 : ~Periodic(v, j)
<1> DEFINE S == {i \in 1 .. LogMaskBits : Periodic(v, i)}
<1>1. LogMaskBits \in Nat /\ LogMaskBits \in 1 .. LogMaskBits
  BY WidthsInUse
<1>2. S \in SUBSET Nat /\ S # {}
  BY <1>1, WholePeriodic
<1> HIDE DEF S
<1>3. PICK l \in S : \A s \in S : l <= s
  BY <1>2, LeastNumber
<1>4. l \in 1 .. LogMaskBits /\ Periodic(v, l)
  BY <1>3 DEF S
<1>5. ASSUME NEW j \in 1 .. l - 1 PROVE ~Periodic(v, j)
  <2>1. j \in 1 .. LogMaskBits /\ ~(l <= j)
    BY <1>1, <1>4
  <2>2. QED
    BY <1>3, <2>1 DEF S
<1>6. QED
  BY <1>4, <1>5, ElementIs

-----------------------------------------------------------------------------
(* aarch64: what fields decode to                                           *)

\* The highest one of m is bit l.
HighestOne(m, l) == Pow(l) <= m /\ m < Pow(l + 1)

LEMMA OneHighest ==
  ASSUME NEW m \in Int, NEW l \in 0 .. LogMaskBits, HighestOne(m, l),
         NEW n \in 0 .. LogMaskBits, HighestOne(m, n)
  PROVE  n = l
<1>1. /\ l \in Nat /\ n \in Nat /\ l + 1 \in Nat /\ n + 1 \in Nat
      /\ l <= Widest /\ n <= Widest /\ l + 1 <= Widest /\ n + 1 <= Widest
  BY WidthsInUse
<1>2. Pow(l) \in Int /\ Pow(n) \in Int /\ Pow(l + 1) \in Int /\ Pow(n + 1) \in Int
  BY <1>1, PowerPositive
<1>3. Pow(l) <= m /\ m < Pow(l + 1) /\ Pow(n) <= m /\ m < Pow(n + 1)
  BY DEF HighestOne
<1>4. CASE l < n
  <2>1. l + 1 <= n
    BY <1>1, <1>4
  <2>2. Pow(l + 1) <= Pow(n)
    BY <1>1, <2>1, PowerUnderstood
  <2>3. QED
    BY <1>2, <1>3, <2>2
<1>5. CASE n < l
  <2>1. n + 1 <= l
    BY <1>1, <1>5
  <2>2. Pow(n + 1) <= Pow(l)
    BY <1>1, <2>1, PowerUnderstood
  <2>3. QED
    BY <1>2, <1>3, <2>2
<1>6. QED
  BY <1>1, <1>4, <1>5

LEMMA HighestExists ==
  ASSUME NEW m \in 1 .. 2 * MaskBits - 1
  PROVE  \E l \in 0 .. LogMaskBits : HighestOne(m, l)
<1> DEFINE S == {l \in 0 .. LogMaskBits : m < Pow(l + 1)}
<1>1. LogMaskBits \in Nat /\ MaskBits \in Nat /\ LogMaskBits \in 0 .. LogMaskBits
      /\ LogMaskBits <= Widest /\ MaskBits = Pow(LogMaskBits) /\ Widest \in Nat
  <2>1. LogMaskBits \in Nat /\ MaskBits \in Nat /\ LogMaskBits <= Widest /\ Widest \in Nat
    BY WidthsInUse
  <2>2. QED
    BY <2>1, ElementWidths
<1>2. Pow(LogMaskBits + 1) = 2 * MaskBits
  BY <1>1, PowerDoubles
<1>3. LogMaskBits \in S
  BY <1>1, <1>2
<1>4. S \in SUBSET Nat
  BY <1>1
<1> HIDE DEF S
<1>5. PICK l \in S : \A s \in S : l <= s
  BY <1>3, <1>4, LeastNumber
<1>6. l \in 0 .. LogMaskBits /\ m < Pow(l + 1)
  BY <1>5 DEF S
<1>7. Pow(l) <= m
  <2>1. CASE l = 0
    <3>1. Pow(0) = 1
      BY <1>1, PowerDoubles
    <3>2. QED
      BY <1>1, <2>1, <3>1
  <2>2. CASE l # 0
    <3>1. l - 1 \in 0 .. LogMaskBits /\ ~(l <= l - 1) /\ (l - 1) + 1 = l /\ l \in Nat /\ l <= Widest
      BY <1>1, <1>6, <2>2
    <3>2. ~(m < Pow(l))
      BY <1>5, <3>1 DEF S
    <3>3. Pow(l) \in Int /\ m \in Int
      BY <1>1, <3>1, PowerPositive
    <3>4. QED
      BY <3>2, <3>3
  <2>3. QED
    BY <2>1, <2>2
<1>8. QED
  BY <1>6, <1>7 DEF HighestOne

LEMMA MaskOfAt ==
  ASSUME NEW f \in MaskFields, NEW l \in 0 .. LogMaskBits, NotImms(f) \in Int,
         HighestOne(NotImms(f), l)
  PROVE  MaskOf(f) = Repeat(RotateRight(Pow((f.imms % Pow(l)) + 1) - 1, f.immr % Pow(l), Pow(l)),
                            Pow(l))
<1> DEFINE len == CHOOSE n \in 0 .. LogMaskBits : HighestOne(NotImms(f), n)
<1>1. len \in 0 .. LogMaskBits /\ HighestOne(NotImms(f), len)
  OBVIOUS
<1>2. len = l
  <2> HIDE DEF len
  <2>1. QED
    BY <1>1, OneHighest
<1>3. MaskOf(f) = Repeat(RotateRight(Pow((f.imms % Pow(len)) + 1) - 1, f.immr % Pow(len), Pow(len)),
                         Pow(len))
  BY DEF MaskOf, HighestOne, Pow
<1>4. QED
  BY <1>2, <1>3

\* An element of k adjacent ones, rotated right by r.
IsElement(x, l) ==
  \E k \in 1 .. Pow(l) - 1, r \in 0 .. Pow(l) - 1 : x = RotateRight(Pow(k) - 1, r, Pow(l))

LEMMA FieldsTyped ==
  ASSUME NEW f \in MaskFields
  PROVE  /\ f.n \in {0, 1} /\ f.immr \in Nat /\ f.imms \in Nat /\ f.imms <= MaskBits - 1
         /\ NotImms(f) \in Int /\ 0 <= NotImms(f) /\ NotImms(f) <= 2 * MaskBits - 1
         /\ NotImms(f) = IF f.n = 1 THEN 2 * MaskBits - 1 - f.imms ELSE MaskBits - 1 - f.imms
<1>1. MaskBits \in Nat
  BY WidthsInUse
<1>2. f.n \in {0, 1} /\ f.immr \in 0 .. MaskBits - 1 /\ f.imms \in 0 .. MaskBits - 1
  BY DEF MaskFields
<1> DEFINE i == f.imms
           m == NotImms(f)
<1>3. i \in Nat /\ i <= MaskBits - 1 /\ f.immr \in Nat
  BY <1>1, <1>2
<1>4. m = IF f.n = 1 THEN MaskBits - 1 - i + 1 * MaskBits ELSE MaskBits - 1 - i + 0 * MaskBits
  BY <1>2 DEF NotImms
<1> HIDE DEF i, m
<1>5. /\ m \in Int /\ 0 <= m /\ m <= 2 * MaskBits - 1
      /\ m = IF f.n = 1 THEN 2 * MaskBits - 1 - i ELSE MaskBits - 1 - i
  BY <1>1, <1>3, <1>4
<1>6. QED
  BY <1>2, <1>3, <1>5 DEF i, m

LEMMA FieldsDecoded ==
  ASSUME NEW f \in MaskFields, ~Reserved(f)
  PROVE  \E l \in 1 .. LogMaskBits : \E x : IsElement(x, l) /\ MaskOf(f) = Repeat(x, Pow(l))
<1> DEFINE m == NotImms(f)
<1>1. m \in Int /\ m <= 2 * MaskBits - 1 /\ f.imms \in Int /\ f.immr \in Int
  BY FieldsTyped
<1>2. ~(m < 2)
  BY DEF Reserved
<1>3. MaskBits \in Nat /\ LogMaskBits \in Nat /\ Widest \in Nat /\ LogMaskBits <= Widest
  BY WidthsInUse
<1>4. m \in 1 .. 2 * MaskBits - 1
  <2> HIDE DEF m
  <2>1. QED
    BY <1>1, <1>2, <1>3
<1>5. PICK l \in 0 .. LogMaskBits : HighestOne(m, l)
  BY <1>4, HighestExists
<1>6. l # 0
  <2>1. l = 0 => m < Pow(0 + 1)
    BY <1>5 DEF HighestOne
  <2>2. Pow(0 + 1) = 2 * Pow(0) /\ Pow(0) = 1
    BY <1>3, PowerDoubles
  <2>3. QED
    BY <1>2, <2>1, <2>2
<1>7. l \in 1 .. LogMaskBits
  BY <1>6
<1> DEFINE e == Pow(l)
           s == f.imms % e
           r == f.immr % e
           x == RotateRight(Pow(s + 1) - 1, r, e)
<1>8. MaskOf(f) = Repeat(x, e)
  BY <1>1, <1>5, MaskOfAt
<1>9. e \in Nat \ {0}
  BY ElementWidths
<1>10. f.imms % 2^l # 2^l - 1
  BY <1>5, <1>7 DEF Reserved, HighestOne, Pow
<1>11. s # e - 1
  BY <1>10 DEF Pow
<1>12. s \in 0 .. e - 1 /\ r \in 0 .. e - 1
  <2> DEFINE a == f.imms
             b == f.immr
  <2>1. a \in Int /\ b \in Int
    BY <1>1
  <2> HIDE DEF a, b, e
  <2>2. a % e \in 0 .. e - 1 /\ b % e \in 0 .. e - 1
    BY <1>9, <2>1
  <2>3. QED
    BY <2>2 DEF a, b
<1> HIDE DEF e, s, r
<1>13. s + 1 \in 1 .. e - 1
  BY <1>9, <1>11, <1>12
<1>14. IsElement(x, l)
  BY <1>12, <1>13 DEF IsElement, e
<1>15. QED
  BY <1>7, <1>8, <1>14 DEF e

\* The fields that encode an element.
FieldsOf(l, k, r) ==
  [n |-> IF Pow(l) = MaskBits THEN 1 ELSE 0, immr |-> r,
   imms |-> Low(-2 * Pow(l), LogMaskBits) + k - 1]

LEMMA FieldsEncoded ==
  ASSUME NEW l \in 1 .. LogMaskBits, NEW k \in 1 .. Pow(l) - 1, NEW r \in 0 .. Pow(l) - 1
  PROVE  /\ FieldsOf(l, k, r) \in MaskFields /\ ~Reserved(FieldsOf(l, k, r))
         /\ MaskOf(FieldsOf(l, k, r)) = Repeat(RotateRight(Pow(k) - 1, r, Pow(l)), Pow(l))
<1> DEFINE f == FieldsOf(l, k, r)
           e == Pow(l)
           M == MaskBits
           base == Low(-2 * e, LogMaskBits)
<1>1. /\ LogMaskBits \in Nat /\ l \in Nat /\ l <= Widest /\ Widest \in Nat /\ l <= LogMaskBits
      /\ LogMaskBits <= Widest
  BY WidthsInUse
<1>2. M = Pow(LogMaskBits) /\ M \in Nat \ {0} /\ e \in Nat \ {0} /\ e >= 2 /\ e <= M
  <2>1. M = Pow(LogMaskBits) /\ M \in Nat /\ M > 1 /\ l \in 0 .. LogMaskBits
    BY <1>1, ElementWidths
  <2>2. e \in Nat \ {0} /\ e <= M
    BY <2>1, ElementWidths
  <2>3. e >= 2
    BY <1>1, PowerEven
  <2> HIDE DEF e
  <2>4. QED
    BY <2>1, <2>2, <2>3
<1>3. base = (-2 * e) % M
  BY <1>2 DEF Low, Pow
<1>4. f.n = (IF e = M THEN 1 ELSE 0) /\ f.immr = r /\ f.imms = base + k - 1
  BY DEF FieldsOf
<1>5. f = [n |-> f.n, immr |-> f.immr, imms |-> f.imms]
  BY DEF FieldsOf
\* The field of the count begins with ones that say how long the element is.
<1>6. PICK q \in Nat : base = q * e /\ base = IF e = M THEN 0 ELSE M - 2 * e
  <2>1. CASE e = M
    <3> HIDE DEF e, M
    <3>1. -2 * e = (-2) * M + 0 /\ -2 * e \in Int /\ -2 \in Int /\ 0 \in Int /\ 0 <= 0 /\ 0 < M
      BY <1>2, <2>1
    <3>2. (-2 * e) % M = 0
      BY <1>2, <3>1, DivUnique
    <3>3. 0 = 0 * e /\ 0 \in Nat
      BY <1>2
    <3> HIDE DEF base
    <3>4. QED
      BY <1>3, <2>1, <3>2, <3>3
  <2>2. CASE e # M
    <3>1. l < LogMaskBits
      BY <1>1, <1>2, <2>2
    <3> DEFINE Q == Pow(LogMaskBits - l)
    <3>2. LogMaskBits - l \in Nat /\ LogMaskBits - l > 0 /\ LogMaskBits - l <= Widest
          /\ l + (LogMaskBits - l) = LogMaskBits
      BY <1>1, <3>1
    <3>3. M = e * Q /\ Q \in Nat /\ Q >= 2
      BY <1>1, <1>2, <3>2, PowersTimes, PowerEven
    <3> HIDE DEF e, M, Q, base
    <3>4. e * Q = (Q - 2) * e + 2 * e /\ 2 * e <= e * Q
      BY <1>2, <3>3, SMT
    <3> DEFINE t == M - 2 * e
               d == -2 * e
    <3>5. d = (-1) * M + t /\ t \in Int /\ 0 <= t /\ t < M /\ d \in Int /\ -1 \in Int
      BY <1>2, <3>3, <3>4
    <3>6. t = (Q - 2) * e /\ Q - 2 \in Nat
      BY <1>2, <3>3, <3>4
    <3> HIDE DEF t, d
    <3>7. d % M = t
      BY <1>2, <3>5, DivUnique
    <3>8. base = t
      BY <1>3, <3>7 DEF d
    <3>9. QED
      BY <2>2, <3>6, <3>8 DEF t
  <2>3. QED
    BY <2>1, <2>2
<1> HIDE DEF base
<1>7. k \in Nat /\ 1 <= k /\ k <= e - 1 /\ r \in Nat /\ r <= e - 1 /\ k - 1 \in Int
  <2> HIDE DEF e
  <2>1. k \in 1 .. e - 1 /\ r \in 0 .. e - 1
    BY DEF e
  <2>2. QED
    BY <1>2, <2>1
<1>8. 2 * e <= M \/ e = M
  <2>1. CASE l = LogMaskBits
    BY <1>2, <2>1
  <2>2. CASE l < LogMaskBits
    <3>1. Pow(l) < Pow(LogMaskBits) /\ 2 * Pow(l) <= Pow(LogMaskBits)
      BY <1>1, <2>2, PowerGrows
    <3>2. QED
      BY <1>2, <3>1
  <2>3. QED
    BY <1>1, <2>1, <2>2
<1> HIDE DEF f
<1>9. f \in MaskFields
  <2> HIDE DEF e, M
  <2>1. f.imms \in 0 .. M - 1 /\ f.immr \in 0 .. M - 1 /\ f.n \in {0, 1}
    BY <1>2, <1>4, <1>6, <1>7, <1>8
  <2>2. QED
    BY <1>5, <2>1 DEF MaskFields, M
<1>10. NotImms(f) = 2 * e - k /\ NotImms(f) \in Int
  <2> DEFINE i == f.imms
             m == NotImms(f)
  <2>1. m \in Int /\ m = IF f.n = 1 THEN 2 * M - 1 - i ELSE M - 1 - i
    BY <1>9, FieldsTyped
  <2>2. i = base + k - 1
    BY <1>4
  <2> HIDE DEF i, m, e, M
  <2>3. CASE e = M
    <3>1. f.n = 1 /\ i = 0 + k - 1
      BY <1>4, <1>6, <2>2, <2>3
    <3>2. m = 2 * M - 1 - i
      BY <2>1, <3>1
    <3>3. QED
      BY <1>2, <1>7, <2>1, <2>3, <3>1, <3>2 DEF m
  <2>4. CASE e # M
    <3>1. f.n = 0 /\ i = (M - 2 * e) + k - 1
      BY <1>4, <1>6, <2>2, <2>4
    <3>2. m = M - 1 - i
      BY <2>1, <3>1
    <3>3. QED
      BY <1>2, <1>7, <2>1, <3>1, <3>2 DEF m
  <2>5. QED
    BY <2>3, <2>4
<1>11. HighestOne(NotImms(f), l)
  <2>1. Pow(l + 1) = 2 * e
    BY <1>1, PowerDoubles
  <2> DEFINE m == NotImms(f)
             g == Pow(l + 1)
  <2> HIDE DEF m, e, g
  <2>2. e <= m /\ m < g
    BY <1>2, <1>7, <1>10, <2>1 DEF m, g
  <2>3. QED
    BY <2>2 DEF HighestOne, m, e, g
<1>12. f.imms % e = k - 1 /\ f.immr % e = r
  <2> DEFINE qe == q * e
  <2>1. qe \in Int
    BY <1>2, SMT
  <2>2. f.imms = qe + (k - 1)
    <3>1. base = qe
      BY <1>6
    <3> HIDE DEF qe, e
    <3>2. QED
      BY <1>4, <1>7, <2>1, <3>1
  <2> HIDE DEF e
  <2>3. k - 1 \in Int /\ 0 <= k - 1 /\ k - 1 < e /\ q \in Int
    BY <1>2, <1>7
  <2> HIDE DEF qe
  <2> DEFINE i == qe + (k - 1)
  <2>4. i \in Int /\ i = qe + (k - 1)
    BY <1>7, <2>1
  <2> HIDE DEF i
  <2>5. i % e = k - 1
    <3> DEFINE o == k - 1
    <3>1. o \in Int /\ 0 <= o /\ o < e /\ i = qe + o
      BY <2>3, <2>4
    <3> HIDE DEF o
    <3>2. i % e = o
      BY <1>2, <2>3, <2>4, <3>1, DivUnique DEF qe
    <3>3. QED
      BY <3>2 DEF o
  <2>6. r = 0 * e + r /\ r \in Int /\ 0 <= r /\ r < e /\ 0 \in Int
    BY <1>2, <1>7
  <2>7. r % e = r
    BY <1>2, <2>6, DivUnique
  <2>8. QED
    BY <1>4, <2>2, <2>5, <2>7 DEF i
<1>13. MaskOf(f) = Repeat(RotateRight(Pow(k) - 1, r, e), e)
  <2>1. MaskOf(f) = Repeat(RotateRight(Pow((f.imms % e) + 1) - 1, f.immr % e, e), e)
    BY <1>1, <1>9, <1>10, <1>11, MaskOfAt
  <2>2. (k - 1) + 1 = k
    BY <1>7
  <2>3. (f.imms % e) + 1 = k
    BY <1>12, <2>2
  <2>4. QED
    BY <1>12, <2>1, <2>3
<1>14. ~Reserved(f)
  <2>1. ~(NotImms(f) < 2)
    <3> DEFINE m == NotImms(f)
    <3> HIDE DEF m, e
    <3>1. m = 2 * e - k
      BY <1>10 DEF m
    <3>2. ~(m < 2)
      BY <1>2, <1>7, <3>1
    <3>3. QED
      BY <3>2 DEF m
  <2>2. ASSUME NEW n \in 1 .. LogMaskBits, HighestOne(NotImms(f), n)
        PROVE  f.imms % Pow(n) # Pow(n) - 1
    <3>1. n = l
      BY <1>1, <1>10, <1>11, <2>2, OneHighest
    <3>2. f.imms % e = k - 1
      BY <1>12
    <3> DEFINE g == f.imms % e
    <3> HIDE DEF g, e
    <3>3. g # e - 1
      BY <1>2, <1>7, <3>2 DEF g
    <3>4. QED
      BY <3>1, <3>3 DEF g, e
  <2>3. \A n \in 1 .. LogMaskBits :
          2^n <= NotImms(f) /\ NotImms(f) < 2^(n + 1) => f.imms % 2^n # 2^n - 1
    BY <2>2 DEF HighestOne, Pow
  <2>4. QED
    BY <2>1, <2>3 DEF Reserved
<1>15. QED
  BY <1>9, <1>13, <1>14 DEF f, e

-----------------------------------------------------------------------------
(* The code of a logical immediate                                          *)

\* The ones of an element are counted right if rotating as many gives it.
LEMMA CountBetween ==
  ASSUME NEW e \in Nat \ {0}, e <= Widest, NEW k \in Nat, k <= Widest, NEW r \in 0 .. e - 1,
         RotateRight(Pow(k) - 1, r, e) \in 1 .. Pow(e) - 2
  PROVE  k \in 1 .. e - 1
<1> DEFINE x == RotateRight(Pow(k) - 1, r, e)
           a == LowRun(k, r)
           b == HighRun(k, r)
           s == e - r
           S == Pow(s)
           lo == Pow(a) - 1
           y == Pow(b) - 1
<1>1. Widest \in Nat /\ r \in Nat /\ r <= Widest /\ s \in Nat /\ s <= Widest /\ r + s = e
  BY WidthsInUse
<1>2. x = y * S + lo
  BY RotatedOnes
<1>3. Pow(e) \in Nat \ {0} /\ S \in Nat \ {0} /\ Pow(0) = 1
  BY <1>1, PowerPositive, PowerDoubles
<1>4. x \in Int /\ 1 <= x /\ x <= Pow(e) - 2
  <2> HIDE DEF x
  <2>1. x \in 1 .. Pow(e) - 2
    BY DEF x
  <2>2. QED
    BY <1>3, <2>1
<1>5. k # 0
  <2>1. SUFFICES ASSUME k = 0 PROVE FALSE
    OBVIOUS
  <2>2. a = 0 /\ b = 0
    BY <1>1, <2>1 DEF LowRun, HighRun
  <2>3. lo = 0 /\ y = 0
    BY <1>3, <2>2
  <2> HIDE DEF lo, y, S
  <2>4. y * S + lo = 0
    BY <1>3, <2>3
  <2>5. x = 0
    BY <1>2, <2>4
  <2> HIDE DEF x
  <2>6. QED
    BY <1>4, <2>5
<1>6. ~(k >= e)
  <2>1. SUFFICES ASSUME k >= e PROVE FALSE
    OBVIOUS
  <2>2. b = r /\ a = k - r
    BY <1>1, <2>1 DEF LowRun, HighRun
  <2> DEFINE R == Pow(r)
             A == Pow(k - r)
  <2>3. k - r \in Nat /\ k - r <= Widest /\ s <= k - r
    BY <1>1, <2>1
  <2>4. S <= A /\ A \in Nat \ {0} /\ R \in Nat \ {0}
    BY <1>1, <2>3, PowerUnderstood, PowerPositive
  <2>5. Pow(e) = R * S
    BY <1>1, PowersTimes
  <2>6. y = R - 1 /\ lo = A - 1
    BY <2>2
  <2> HIDE DEF x, y, lo, S, R, A
  <2>7. (R - 1) * S = R * S - S /\ R * S \in Int
    BY <1>3, <2>4, SMT
  <2> DEFINE rs == R * S
             ys == y * S
  <2>8. ys = rs - S /\ rs \in Int /\ x = ys + lo /\ Pow(e) = rs
    BY <1>2, <2>5, <2>6, <2>7
  <2> HIDE DEF rs, ys
  <2>9. QED
    BY <1>3, <1>4, <2>4, <2>6, <2>8
<1>7. QED
  BY <1>5, <1>6

LEMMA OnesTyped ==
  ASSUME NEW x
  PROVE  Ones(x) \in Nat /\ Ones(x) <= MaskBits
<1> DEFINE B == {i \in 0 .. MaskBits - 1 : Bit(x, i) = 1}
           I == 0 .. MaskBits - 1
<1>1. MaskBits \in Nat /\ 0 \in Int /\ MaskBits - 1 \in Int
  BY WidthsInUse
<1>2. IsFiniteSet(I) /\ Cardinality(I) = IF 0 > MaskBits - 1 THEN 0 ELSE (MaskBits - 1) - 0 + 1
  BY <1>1, FS_Interval
<1>3. Cardinality(I) = MaskBits
  <2> DEFINE c == Cardinality(I)
  <2>1. c = IF 0 > MaskBits - 1 THEN 0 ELSE (MaskBits - 1) - 0 + 1
    BY <1>2
  <2> HIDE DEF c
  <2>2. c = MaskBits
    BY <1>1, <2>1
  <2>3. QED
    BY <2>2 DEF c
<1>4. B \in SUBSET I
  OBVIOUS
<1> HIDE DEF B, I
<1>5. IsFiniteSet(B) /\ Cardinality(B) <= Cardinality(I)
  BY <1>2, <1>4, FS_Subset
<1>6. Cardinality(B) \in Nat
  BY <1>5, FS_CardinalityType
<1>7. Ones(x) = Cardinality(B)
  BY DEF Ones, B, I
<1>8. QED
  BY <1>3, <1>5, <1>6, <1>7

\* The pattern of a number fits, and that of a w register is its lower half
\* twice.
LEMMA PatternOfX ==
  ASSUME NEW n \in Int
  PROVE  MaskPattern(n, TRUE) \in 0 .. Pow(MaskBits) - 1
<1>1. LogMaskBits \in Nat /\ LogMaskBits \in 0 .. LogMaskBits /\ MaskBits = Pow(LogMaskBits)
  <2>1. LogMaskBits \in Nat
    BY WidthsInUse
  <2>2. QED
    BY <2>1, ElementWidths
<1>2. MaskPattern(n, TRUE) = Low(n, MaskBits)
  BY DEF MaskPattern
<1>3. Low(n, Pow(LogMaskBits)) \in 0 .. Pow(Pow(LogMaskBits)) - 1
  BY <1>1, LowElement
<1>4. QED
  BY <1>1, <1>2, <1>3

LEMMA PatternOfW ==
  ASSUME NEW n \in Int
  PROVE  /\ MaskPattern(n, FALSE) \in 0 .. Pow(MaskBits) - 1
         /\ Periodic(MaskPattern(n, FALSE), LogMaskBits - 1)
<1> DEFINE j == LogMaskBits - 1
           x == Low(n, Pow(j))
           v == Repeat(x, Pow(j))
<1>1. LogMaskBits \in Nat /\ LogMaskBits > 0 /\ j \in 0 .. LogMaskBits /\ LogMaskBits <= Widest
      /\ MaskBits = Pow(LogMaskBits)
  <2>1. LogMaskBits \in Nat /\ 1 < LogMaskBits /\ LogMaskBits <= Widest
    BY WidthsInUse
  <2>2. QED
    BY <2>1, ElementWidths
<1>2. MaskBits \div 2 = Pow(j)
  BY <1>1, PowerEven
<1>3. MaskPattern(n, FALSE) = v
  BY <1>2 DEF MaskPattern
<1>4. x \in 0 .. Pow(Pow(j)) - 1
  BY <1>1, LowElement
<1> HIDE DEF x
<1>5. v \in 0 .. Pow(MaskBits) - 1 /\ Low(v, Pow(j)) = x
  BY <1>1, <1>4, RepeatReads
<1>6. Periodic(v, j)
  BY <1>5 DEF Periodic
<1>7. QED
  BY <1>3, <1>5, <1>6

\* What the encoder searches for the rotation.
Turns(x, k, e) == {r \in 0 .. e - 1 : RotateRight(Pow(k) - 1, r, e) = x}
FirstTurn(R) == CHOOSE r \in R : \A s \in R : r <= s

LEMMA EncodedAs ==
  ASSUME NEW n, NEW r64, NEW l, ElementOf(MaskPattern(n, r64)) = Pow(l),
         NEW v, v = MaskPattern(n, r64), NEW x, x = Low(v, Pow(l)), NEW k, k = Ones(x)
  PROVE  Imm13(n, r64) =
           IF ~MaskInRange(n, r64) \/ v \in {0, Pow(MaskBits) - 1} \/ Turns(x, k, Pow(l)) = {}
           THEN NoCode ELSE FieldsOf(l, k, FirstTurn(Turns(x, k, Pow(l))))
<1> DEFINE e == ElementOf(v)
           elt == Low(v, e)
           ones == Ones(elt)
           turns == {r \in 0 .. e - 1 : RotateRight(2^ones - 1, r, e) = elt}
<1>1. Imm13(n, r64) =
        IF ~MaskInRange(n, r64) \/ v \in {0, 2^MaskBits - 1} \/ turns = {} THEN NoCode
        ELSE [n |-> IF e = MaskBits THEN 1 ELSE 0,
              immr |-> CHOOSE r \in turns : \A s \in turns : r <= s,
              imms |-> Low(-2 * e, LogMaskBits) + ones - 1]
  BY DEF Imm13
<1>2. e = Pow(l) /\ elt = x /\ ones = k
  OBVIOUS
<1>3. turns = Turns(x, k, Pow(l))
  BY <1>2 DEF Turns, Pow
<1> HIDE DEF e, elt, ones, turns
<1>4. QED
  BY <1>1, <1>2, <1>3 DEF FieldsOf, FirstTurn, Pow

LEMMA FirstOf ==
  ASSUME NEW R \in SUBSET Nat, R # {}
  PROVE  FirstTurn(R) \in R
<1>1. \E r \in R : \A s \in R : r <= s
  BY LeastNumber
<1>2. QED
  BY <1>1 DEF FirstTurn

\* What is accepted decodes to the pattern.
LEMMA MaskAccepted ==
  ASSUME NEW n \in Int, NEW r64 \in BOOLEAN, Imm13(n, r64) # NoCode
  PROVE  /\ MaskInRange(n, r64)
         /\ Imm13(n, r64) \in MaskFields /\ ~Reserved(Imm13(n, r64))
         /\ MaskOf(Imm13(n, r64)) = MaskPattern(n, r64)
         /\ r64 = FALSE => Imm13(n, r64).n = 0
<1> DEFINE v == MaskPattern(n, r64)
<1>1. v \in 0 .. Pow(MaskBits) - 1 /\ (r64 = FALSE => Periodic(v, LogMaskBits - 1))
  <2>1. CASE r64 = TRUE
    <3>1. v \in 0 .. Pow(MaskBits) - 1
      BY <2>1, PatternOfX
    <3>2. QED
      BY <2>1, <3>1
  <2>2. CASE r64 = FALSE
    <3>1. v \in 0 .. Pow(MaskBits) - 1 /\ Periodic(v, LogMaskBits - 1)
      BY <2>2, PatternOfW
    <3>2. QED
      BY <3>1
  <2>3. QED
    BY <2>1, <2>2
<1> HIDE DEF v
<1>2. PICK l \in 1 .. LogMaskBits :
        ElementOf(v) = Pow(l) /\ Periodic(v, l) /\ \A j \in 1 .. l - 1 : ~Periodic(v, j)
  BY <1>1, ElementExists
<1> DEFINE e == Pow(l)
           x == Low(v, e)
           k == Ones(x)
           T == Turns(x, k, e)
           r == FirstTurn(T)
<1>3. Imm13(n, r64) = IF ~MaskInRange(n, r64) \/ v \in {0, Pow(MaskBits) - 1} \/ T = {}
                      THEN NoCode ELSE FieldsOf(l, k, r)
  BY <1>2, EncodedAs DEF v
<1>4. MaskInRange(n, r64) /\ v \notin {0, Pow(MaskBits) - 1} /\ T # {}
      /\ Imm13(n, r64) = FieldsOf(l, k, r)
  BY <1>3
<1>5. /\ LogMaskBits \in Nat /\ 1 < LogMaskBits /\ l \in 0 .. LogMaskBits /\ l \in Nat
      /\ Widest \in Nat /\ MaskBits \in Nat /\ MaskBits <= Widest /\ LogMaskBits <= Widest
  BY WidthsInUse
<1>6. e \in Nat \ {0} /\ e <= Widest /\ Pow(e) \in Nat /\ Pow(e) >= 2
  BY <1>5, ElementWidths
<1>7. v \in Int
  <2>1. Pow(MaskBits) \in Int
    BY <1>5, PowerPositive
  <2>2. QED
    BY <1>1, <2>1
<1>8. x \in 0 .. Pow(e) - 1
  BY <1>5, <1>7, LowElement
<1>9. Repeat(x, e) = v
  BY <1>2 DEF Periodic
<1>10. x # 0 /\ x # Pow(e) - 1
  <2> HIDE DEF x
  <2>1. /\ Repeat(x, e) = 0 <=> x = 0
        /\ Repeat(x, e) = Pow(MaskBits) - 1 <=> x = Pow(e) - 1
    BY <1>5, <1>8, RepeatReads
  <2>2. QED
    BY <1>4, <1>9, <2>1
<1>11. r \in 0 .. e - 1 /\ RotateRight(Pow(k) - 1, r, e) = x
  <2> HIDE DEF r, e, x, k
  <2>1. T \in SUBSET Nat
    BY <1>6 DEF Turns
  <2>2. r \in T
    <3> HIDE DEF T
    <3>1. QED
      BY <1>4, <2>1, FirstOf DEF r
  <2>3. QED
    BY <2>2 DEF Turns
<1>12. k \in Nat /\ k <= MaskBits /\ k <= Widest
  <2>1. k \in Nat /\ k <= MaskBits
    BY OnesTyped
  <2> HIDE DEF k
  <2>2. QED
    BY <1>5, <2>1
<1>13. k \in 1 .. e - 1
  <2> HIDE DEF e, x, k, r
  <2>1. x \in 1 .. Pow(e) - 2
    BY <1>6, <1>8, <1>10
  <2>2. QED
    BY <1>6, <1>11, <1>12, <2>1, CountBetween
<1> HIDE DEF x, k, r, T
<1> DEFINE f == FieldsOf(l, k, r)
<1>14. f \in MaskFields /\ ~Reserved(f) /\ MaskOf(f) = Repeat(RotateRight(Pow(k) - 1, r, e), e)
  BY <1>11, <1>13, FieldsEncoded
<1>15. MaskOf(f) = v
  BY <1>9, <1>11, <1>14
<1>16. r64 = FALSE => f.n = 0
  <2>1. SUFFICES ASSUME r64 = FALSE PROVE f.n = 0
    OBVIOUS
  <2>2. LogMaskBits - 1 \in 1 .. LogMaskBits /\ Periodic(v, LogMaskBits - 1)
    BY <1>1, <1>5, <2>1
  <2>3. ~(LogMaskBits - 1 \in 1 .. l - 1)
    BY <1>2, <2>2
  <2>4. l < LogMaskBits
    BY <1>5, <2>2, <2>3
  <2>5. Pow(l) < Pow(LogMaskBits) /\ Pow(l) \in Int /\ Pow(LogMaskBits) \in Int
    BY <1>5, <2>4, PowerGrows, PowerPositive
  <2>6. MaskBits = Pow(LogMaskBits)
    BY ElementWidths
  <2>7. Pow(l) # MaskBits
    BY <2>5, <2>6
  <2>8. QED
    BY <2>7 DEF FieldsOf
<1>17. QED
  BY <1>4, <1>14, <1>15, <1>16 DEF v

\* What is in range and refused is not what any fields decode to.
LEMMA MaskRefused ==
  ASSUME NEW n \in Int, NEW r64 \in BOOLEAN, MaskInRange(n, r64),
         MaskPattern(n, r64) \in Decodable
  PROVE  Imm13(n, r64) # NoCode
<1> DEFINE v == MaskPattern(n, r64)
<1>1. PICK f \in MaskFields : ~Reserved(f) /\ v = MaskOf(f)
  BY DEF Decodable
<1>2. PICK l \in 1 .. LogMaskBits : \E y : IsElement(y, l) /\ MaskOf(f) = Repeat(y, Pow(l))
  BY <1>1, FieldsDecoded
<1>3. PICK x : IsElement(x, l) /\ MaskOf(f) = Repeat(x, Pow(l))
  BY <1>2
<1> DEFINE e == Pow(l)
<1>4. PICK k \in 1 .. e - 1, r \in 0 .. e - 1 : x = RotateRight(Pow(k) - 1, r, e)
  BY <1>3 DEF IsElement
<1>5. v = Repeat(x, e)
  BY <1>1, <1>3
<1>6. /\ LogMaskBits \in Nat /\ l \in 0 .. LogMaskBits /\ l \in Nat
      /\ Widest \in Nat /\ MaskBits \in Nat /\ MaskBits <= Widest
  BY WidthsInUse
<1>7. e \in Nat \ {0} /\ e <= Widest /\ e <= MaskBits /\ k \in 0 .. e /\ k \in Nat
  BY <1>6, ElementWidths
<1>8. x \in 0 .. Pow(e) - 1 /\ x \notin {0, Pow(e) - 1}
  BY <1>4, <1>7, RotatedFits
<1>9. Low(v, e) = x /\ v \notin {0, Pow(MaskBits) - 1}
  BY <1>5, <1>6, <1>8, RepeatReads
<1>10. ElementOf(v) = e
  <2> HIDE DEF v
  <2>1. Periodic(v, l)
    BY <1>5, <1>9 DEF Periodic
  <2>2. ASSUME NEW j \in 1 .. l - 1 PROVE ~Periodic(v, j)
    <3>1. j \in 0 .. l - 1
      BY <1>6
    <3>2. ~Periodic(Repeat(RotateRight(Pow(k) - 1, r, Pow(l)), Pow(l)), j)
      BY <3>1, NotShorter
    <3>3. QED
      BY <1>4, <1>5, <3>2
  <2>3. QED
    BY <2>1, <2>2, ElementIs
<1>11. Ones(x) = k
  BY <1>4, <1>7, OnesCounted
<1> DEFINE T == Turns(x, k, e)
<1>12. T # {}
  BY <1>4 DEF Turns
<1>13. Imm13(n, r64) = FieldsOf(l, k, FirstTurn(T))
  <2>1. Imm13(n, r64) = IF ~MaskInRange(n, r64) \/ v \in {0, Pow(MaskBits) - 1} \/ T = {}
                        THEN NoCode ELSE FieldsOf(l, k, FirstTurn(T))
    BY <1>9, <1>10, <1>11, EncodedAs
  <2> HIDE DEF T, v
  <2>2. QED
    BY <1>9, <1>12, <2>1
<1>14. FirstTurn(T) \in 0 .. e - 1
  <2> HIDE DEF e
  <2>1. T \in SUBSET Nat
    BY <1>7 DEF Turns
  <2>2. FirstTurn(T) \in T
    <3> HIDE DEF T
    <3>1. QED
      BY <1>12, <2>1, FirstOf
  <2>3. QED
    BY <2>2 DEF Turns
<1> HIDE DEF T
<1> DEFINE c == FieldsOf(l, k, FirstTurn(T))
<1>15. c \in MaskFields
  BY <1>14, FieldsEncoded
<1>16. c \in [n : {0, 1}, immr : Nat, imms : Nat]
  <2>1. MaskFields \subseteq [n : {0, 1}, immr : Nat, imms : Nat]
    BY <1>6 DEF MaskFields
  <2> HIDE DEF c
  <2>2. QED
    BY <1>15, <2>1
<1>17. QED
  BY <1>13, <1>16, ImmediateAssumption

\* What EncodeMask encodes stays what it is.
MaskCoded ==
  /\ operand \in Operands
  /\ operand.isa = "aarch64" /\ code # NotDone => code = Imm13(operand.value, operand.r64)

LEMMA MaskOperand ==
  ASSUME operand \in Operands, operand.isa = "aarch64"
  PROVE  operand.value \in Int /\ operand.r64 \in BOOLEAN
<1>1. 2^MaskBits \in Int
  <2>1. Pow(MaskBits) \in Int
    BY PowerPositive, WidthsInUse
  <2>2. QED
    BY <2>1 DEF Pow
<1>2. operand \in [isa : {"aarch64"}, value : -(2^MaskBits) .. 2^MaskBits, r64 : BOOLEAN]
  BY DEF Operands
<1> DEFINE b == 2^MaskBits
<1> HIDE DEF b
<1>3. operand \in [isa : {"aarch64"}, value : -b .. b, r64 : BOOLEAN] /\ b \in Int
  BY <1>1, <1>2 DEF b
<1>4. -b .. b \subseteq Int
  BY <1>3
<1>5. QED
  BY <1>3, <1>4

\* A logical immediate that is accepted decodes to the pattern that was
\* written, with N zero for a w register, and one that fits the register is
\* refused only if no fields decode to it; for masks of any power of two and
\* every value: the search for the shortest element and the lowest rotation
\* misses nothing.
THEOREM MasksDecode == ImmSpec => []MaskDecodes
<1>1. ImmInit => MaskCoded
  BY DEF ImmInit, MaskCoded
<1>2. MaskCoded /\ [ImmNext]_immVars => MaskCoded'
  <2> SUFFICES ASSUME MaskCoded, [ImmNext]_immVars PROVE MaskCoded'
    OBVIOUS
  <2>1. CASE EncodeLi
    BY <2>1 DEF EncodeLi, MaskCoded
  <2>2. CASE EncodeMask
    BY <2>2 DEF EncodeMask, MaskCoded
  <2>3. CASE UNCHANGED immVars
    BY <2>3 DEF immVars, MaskCoded
  <2>4. QED
    BY <2>1, <2>2, <2>3 DEF ImmNext
<1>3. MaskCoded => MaskDecodes
  <2> SUFFICES ASSUME MaskCoded, operand # NoOperand, code # NotDone, operand.isa = "aarch64"
               PROVE  LET v == MaskPattern(operand.value, operand.r64) IN
                      IF code = NoCode
                      THEN MaskInRange(operand.value, operand.r64) => v \notin Decodable
                      ELSE /\ MaskInRange(operand.value, operand.r64)
                           /\ code \in MaskFields /\ ~Reserved(code) /\ MaskOf(code) = v
                           /\ ~operand.r64 => code.n = 0
    BY DEF MaskDecodes
  <2> DEFINE n == operand.value
             r64 == operand.r64
  <2>1. code = Imm13(n, r64) /\ n \in Int /\ r64 \in BOOLEAN
    BY MaskOperand DEF MaskCoded
  <2> HIDE DEF n, r64
  <2>2. CASE code = NoCode
    <3>1. MaskInRange(n, r64) => MaskPattern(n, r64) \notin Decodable
      BY <2>1, <2>2, MaskRefused
    <3>2. QED
      BY <2>2, <3>1 DEF n, r64
  <2>3. CASE code # NoCode
    <3>1. /\ MaskInRange(n, r64)
          /\ Imm13(n, r64) \in MaskFields /\ ~Reserved(Imm13(n, r64))
          /\ MaskOf(Imm13(n, r64)) = MaskPattern(n, r64)
          /\ r64 = FALSE => Imm13(n, r64).n = 0
      BY <2>1, <2>3, MaskAccepted
    <3>2. QED
      BY <2>1, <2>3, <3>1 DEF n, r64
  <2>4. QED
    BY <2>2, <2>3
<1>4. QED
  BY <1>1, <1>2, <1>3, PTL DEF ImmSpec
=============================================================================
