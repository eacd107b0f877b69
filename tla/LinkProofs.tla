----------------------------- MODULE LinkProofs -----------------------------
(* Proofs about linking, for any sections, labels, page sizes and bases.     *)
EXTENDS Link, SectionProofs

-----------------------------------------------------------------------------
(* Folding                                                                  *)

\* The step of PlaceSections.
PlaceOne(a, w, acc, s) ==
  IF sec[a][s].writable # w THEN acc
  ELSE LET at == acc.pos + Pad(acc.pos, sec[a][s].align)
       IN  [pos |-> at + sec[a][s].size, offsets |-> Put(acc.offsets, s, at)]

\* What the fold of PlaceOne over q from l gives for the positions s, when
\* f has what it gives for fewer.
Folded(a, w, l, q, f, s) ==
  IF s = {} THEN l ELSE PlaceOne(a, w, f[s \ {Max(s)}], q[Max(s)])

\* The recursion of the fold has a solution for the first n sections of q.
Solvable(a, w, l, q, n) ==
  \E f : f = [s \in SUBSET (1 .. n) |-> Folded(a, w, l, q, f, s)]

LEMMA FoldExists ==
  ASSUME NEW a, NEW w, NEW l, NEW q
  PROVE  \A n \in Nat : Solvable(a, w, l, q, n)
<1> DEFINE Rec(n) == Solvable(a, w, l, q, n)
           T == {n \in Nat : Rec(n)}
<1> USE DEF Solvable
<1>1. Rec(0)
  <2> DEFINE f == [s \in SUBSET (1 .. 0) |-> l]
  <2>1. SUBSET (1 .. 0) = {{}}
    OBVIOUS
  <2>2. f = [s \in SUBSET (1 .. 0) |-> Folded(a, w, l, q, f, s)]
    BY <2>1 DEF Folded
  <2>3. QED
    BY <2>2
<1>2. ASSUME NEW n \in Nat, Rec(n)
      PROVE  Rec(n + 1)
  <2>1. PICK f : f = [s \in SUBSET (1 .. n) |-> Folded(a, w, l, q, f, s)]
    BY <1>2
  <2> DEFINE g == [s \in SUBSET (1 .. n + 1) |->
                     IF n + 1 \in s THEN PlaceOne(a, w, f[s \ {n + 1}], q[n + 1])
                     ELSE f[s]]
  <2>2. \A s \in SUBSET (1 .. n) : s \in SUBSET (1 .. n + 1) /\ n + 1 \notin s
    OBVIOUS
  <2>3. \A s \in SUBSET (1 .. n) : g[s] = f[s]
    BY <2>2
  <2>4. ASSUME NEW s \in SUBSET (1 .. n + 1)
        PROVE  g[s] = Folded(a, w, l, q, g, s)
    <3>1. CASE n + 1 \in s
      <4>1. Max(s) = n + 1 /\ s # {}
        BY <3>1, MaxOfPositions
      <4>2. s \ {n + 1} \in SUBSET (1 .. n)
        OBVIOUS
      <4>3. g[s] = PlaceOne(a, w, f[s \ {n + 1}], q[n + 1])
        BY <3>1
      <4>4. g[s \ {n + 1}] = f[s \ {n + 1}]
        BY <2>3, <4>2
      <4> HIDE DEF g
      <4>5. QED
        BY <4>1, <4>3, <4>4 DEF Folded
    <3>2. CASE n + 1 \notin s
      <4>1. s \in SUBSET (1 .. n)
        BY <3>2
      <4>2. f[s] = Folded(a, w, l, q, f, s)
        BY <2>1, <4>1
      <4>3. s # {} => s \ {Max(s)} \in SUBSET (1 .. n)
        BY <4>1
      <4>4. s # {} => g[s \ {Max(s)}] = f[s \ {Max(s)}]
        BY <2>3, <4>3
      <4>5. g[s] = f[s]
        BY <2>3, <4>1
      <4> HIDE DEF g
      <4>6. QED
        BY <4>2, <4>4, <4>5 DEF Folded
    <3>3. QED
      BY <3>1, <3>2
  <2>5. g = [s \in SUBSET (1 .. n + 1) |-> g[s]]
    OBVIOUS
  <2> HIDE DEF g
  <2>6. g = [s \in SUBSET (1 .. n + 1) |-> Folded(a, w, l, q, g, s)]
    BY <2>4, <2>5
  <2>7. QED
    BY <2>6
<1> HIDE DEF Rec, Solvable
<1>3. \A n \in Nat : n \in T
  <2>1. 0 \in T /\ \A n \in Nat : n \in T => n + 1 \in T
    BY <1>1, <1>2
  <2> HIDE DEF T
  <2>2. QED
    BY <2>1, AllNumbers
<1>4. QED
  BY <1>3 DEF Rec

\* PlaceSections places the sections one by one: F has the state of the
\* layout after so many.
LEMMA PlaceByOne ==
  ASSUME TypeOK, NEW a \in Asms, NEW l, NEW w
  PROVE  \E F : /\ F[0] = l
                /\ \A k \in 1 .. Len(order[a]) :
                     F[k] = PlaceOne(a, w, F[k - 1], order[a][k])
                /\ PlaceSections(a, l, w) = F[Len(order[a])]
<1> DEFINE q == order[a]
           n == Len(q)
<1>1. n \in Nat /\ DOMAIN q = 1 .. n
  BY DEF TypeOK
<1> DEFINE it == CHOOSE f : f = [s \in SUBSET DOMAIN q |->
                   IF s = {} THEN l ELSE PlaceOne(a, w, f[s \ {Max(s)}], q[Max(s)])]
<1>2. PlaceSections(a, l, w) = it[DOMAIN q]
  BY DEF PlaceSections, FoldLeft, MapThenFoldSet, PlaceOne
<1>3. it = [s \in SUBSET (1 .. n) |-> Folded(a, w, l, q, it, s)]
  <2>1. \E f : f = [s \in SUBSET (1 .. n) |-> Folded(a, w, l, q, f, s)]
    <3> HIDE DEF q, n, it
    <3>1. Solvable(a, w, l, q, n)
      BY <1>1, FoldExists
    <3>2. QED
      BY <3>1 DEF Solvable
  <2>2. \E f : f = [s \in SUBSET DOMAIN q |->
                   IF s = {} THEN l ELSE PlaceOne(a, w, f[s \ {Max(s)}], q[Max(s)])]
    BY <1>1, <2>1 DEF Folded
  <2>3. it = [s \in SUBSET DOMAIN q |->
                IF s = {} THEN l ELSE PlaceOne(a, w, it[s \ {Max(s)}], q[Max(s)])]
    BY <2>2
  <2>4. QED
    BY <1>1, <2>3 DEF Folded
<1> DEFINE F == [k \in 0 .. n |-> it[1 .. k]]
<1> HIDE DEF it
<1>4. it[{}] = l
  <2>1. {} \in SUBSET (1 .. n)
    OBVIOUS
  <2>2. it[{}] = Folded(a, w, l, q, it, {})
    BY <1>3, <2>1
  <2>3. QED
    BY <2>2 DEF Folded
<1>5. F[0] = l
  <2>1. 1 .. 0 = {} /\ 0 \in 0 .. n
    BY <1>1
  <2>2. QED
    BY <1>4, <2>1
<1>6. ASSUME NEW k \in 1 .. n
      PROVE  F[k] = PlaceOne(a, w, F[k - 1], q[k])
  <2>1. /\ k \in 0 .. n /\ k - 1 \in 0 .. n /\ k - 1 \in Nat
        /\ 1 .. k \in SUBSET (1 .. n) /\ 1 .. k # {}
        /\ k = (k - 1) + 1 /\ k \in 1 .. k /\ 1 .. k \in SUBSET (1 .. (k - 1) + 1)
    BY <1>1
  <2>2. Max(1 .. k) = k /\ (1 .. k) \ {k} = 1 .. k - 1
    BY <2>1, MaxOfPositions
  <2>3. it[1 .. k] = Folded(a, w, l, q, it, 1 .. k)
    BY <1>3, <2>1
  <2>4. it[1 .. k] = PlaceOne(a, w, it[1 .. k - 1], q[k])
    BY <2>1, <2>2, <2>3 DEF Folded
  <2>5. QED
    BY <2>1, <2>4
<1>7. F[n] = PlaceSections(a, l, w)
  BY <1>1, <1>2
<1> HIDE DEF F, q
<1>8. QED
  BY <1>5, <1>6, <1>7 DEF q

-----------------------------------------------------------------------------
(* The layout                                                               *)

\* A state of the layout has these two fields.
IsLayout(l) == l = [pos |-> l.pos, offsets |-> l.offsets] /\ l.pos \in Nat

\* acc has placed the sections N of a after l: aligned, apart from each
\* other, up to acc.pos.
Placed(a, l, acc, N) ==
  /\ IsLayout(acc) /\ l.pos <= acc.pos
  /\ DOMAIN acc.offsets = DOMAIN l.offsets \cup N
  /\ \A s \in N :
       /\ acc.offsets[s] \in Nat /\ acc.offsets[s] % sec[a][s].align = 0
       /\ l.pos <= acc.offsets[s] /\ acc.offsets[s] + sec[a][s].size <= acc.pos
  /\ \A s \in DOMAIN l.offsets \ N : acc.offsets[s] = l.offsets[s]
  /\ \A s, t \in N : s # t =>
       \/ acc.offsets[s] + sec[a][s].size <= acc.offsets[t]
       \/ acc.offsets[t] + sec[a][t].size <= acc.offsets[s]

LEMMA OrderTypes ==
  ASSUME TypeOK, NEW a \in Asms
  PROVE  /\ ToSet(order[a]) \subseteq SectionNames
         /\ \A s \in SectionNames :
              /\ sec[a][s].size \in Nat /\ sec[a][s].align \in Nat \ {0}
              /\ sec[a][s].writable \in BOOLEAN
<1>1. order[a] \in Seq(SectionNames)
  BY DEF TypeOK
<1>2. ToSet(order[a]) \subseteq SectionNames
  BY <1>1, ElementOfSeq DEF ToSet
<1>3. \A s \in SectionNames : sec[a][s] \in Section
  BY DEF TypeOK
<1>4. QED
  BY <1>2, <1>3 DEF Section

LEMMA PlaceOneRight ==
  ASSUME TypeOK, NEW a \in Asms, NEW w, NEW l, IsLayout(l), NEW acc,
         NEW N \in SUBSET SectionNames, Placed(a, l, acc, N), NEW s \in SectionNames
  PROVE  Placed(a, l, PlaceOne(a, w, acc, s),
                IF sec[a][s].writable = w THEN N \cup {s} ELSE N)
<1>1. CASE sec[a][s].writable # w
  BY <1>1 DEF PlaceOne
<1>2. CASE sec[a][s].writable = w
  <2> DEFINE al == sec[a][s].align
             at == acc.pos + Pad(acc.pos, al)
             new == Put(acc.offsets, s, at)
             next == PlaceOne(a, w, acc, s)
             M == N \cup {s}
  <2>1. \A t \in SectionNames : sec[a][t].size \in Nat /\ sec[a][t].align \in Nat \ {0}
    BY DEF TypeOK, Section
  <2>2. al \in Nat \ {0} /\ acc.pos \in Nat /\ l.pos \in Nat /\ l.pos <= acc.pos
    BY <2>1 DEF Placed, IsLayout
  <2>3. at \in Nat /\ acc.pos <= at
    BY <2>2, PadType
  <2>4. at % al = 0
    BY <2>2, PadRounds DEF Pad
  <2>5. next = [pos |-> at + sec[a][s].size, offsets |-> new]
    BY <1>2 DEF PlaceOne
  <2>6. /\ DOMAIN new = {s} \cup DOMAIN acc.offsets
        /\ new[s] = at
        /\ \A t \in DOMAIN acc.offsets : t # s => new[t] = acc.offsets[t]
    BY DEF Put
  <2> HIDE DEF at, al, new, next
  <2>7. IsLayout(next) /\ next.pos \in Nat /\ l.pos <= next.pos /\ acc.pos <= next.pos
    BY <2>1, <2>2, <2>3, <2>5 DEF IsLayout
  <2>8. DOMAIN acc.offsets = DOMAIN l.offsets \cup N
    BY DEF Placed
  <2>9. \A t \in N \ {s} : next.offsets[t] = acc.offsets[t]
    BY <2>5, <2>6, <2>8
  <2>10. next.offsets[s] = at
    BY <2>5, <2>6
  <2>11. ASSUME NEW t \in M
         PROVE  /\ next.offsets[t] \in Nat /\ next.offsets[t] % sec[a][t].align = 0
                /\ l.pos <= next.offsets[t]
                /\ next.offsets[t] + sec[a][t].size <= next.pos
    <3>1. CASE t = s
      BY <3>1, <2>1, <2>2, <2>3, <2>4, <2>5, <2>10 DEF al
    <3>2. CASE t # s
      <4>1. /\ acc.offsets[t] \in Nat /\ acc.offsets[t] % sec[a][t].align = 0
            /\ l.pos <= acc.offsets[t] /\ acc.offsets[t] + sec[a][t].size <= acc.pos
        BY <3>2 DEF Placed
      <4>2. next.offsets[t] = acc.offsets[t]
        BY <3>2, <2>9
      <4>3. QED
        BY <4>1, <4>2, <2>1, <2>2, <2>7
    <3>3. QED
      BY <3>1, <3>2
  <2>12. ASSUME NEW t \in M, NEW u \in M, t # u
         PROVE  \/ next.offsets[t] + sec[a][t].size <= next.offsets[u]
                \/ next.offsets[u] + sec[a][u].size <= next.offsets[t]
    <3>1. \A v \in N \ {s} : next.offsets[v] + sec[a][v].size <= next.offsets[s]
      <4> SUFFICES ASSUME NEW v \in N \ {s}
                   PROVE  next.offsets[v] + sec[a][v].size <= next.offsets[s]
        OBVIOUS
      <4>1. acc.offsets[v] \in Nat /\ acc.offsets[v] + sec[a][v].size <= acc.pos
        BY DEF Placed
      <4>2. QED
        BY <4>1, <2>1, <2>2, <2>3, <2>9, <2>10
    <3>2. CASE t = s \/ u = s
      BY <3>1, <3>2, <2>12
    <3>3. CASE t # s /\ u # s
      BY <3>3, <2>9, <2>12 DEF Placed
    <3>4. QED
      BY <3>2, <3>3
  <2>13. \A t \in DOMAIN l.offsets \ M : next.offsets[t] = l.offsets[t]
    BY <2>5, <2>6, <2>8 DEF Placed
  <2>14. DOMAIN next.offsets = DOMAIN l.offsets \cup M
    BY <2>5, <2>6, <2>8
  <2> HIDE DEF M
  <2>15. Placed(a, l, next, M)
    BY <2>7, <2>11, <2>12, <2>13, <2>14 DEF Placed
  <2>16. QED
    BY <1>2, <2>15 DEF next, M
<1>3. QED
  BY <1>1, <1>2

\* The sections of a that are writable iff w.
OfKind(a, w) == {s \in ToSet(order[a]) : sec[a][s].writable = w}

LEMMA PlaceRight ==
  ASSUME TypeOK, NEW a \in Asms, NEW w, NEW l, IsLayout(l)
  PROVE  Placed(a, l, PlaceSections(a, l, w), OfKind(a, w))
<1> DEFINE q == order[a]
           n == Len(q)
           Of(k) == {s \in SectionNames :
                       sec[a][s].writable = w /\ \E i \in 1 .. k : q[i] = s}
<1>1. q \in Seq(SectionNames) /\ n \in Nat
  BY DEF TypeOK
<1>2. PICK F : /\ F[0] = l
               /\ \A k \in 1 .. n : F[k] = PlaceOne(a, w, F[k - 1], q[k])
               /\ PlaceSections(a, l, w) = F[n]
  BY PlaceByOne
<1> DEFINE T == {k \in Nat : k <= n => Placed(a, l, F[k], Of(k))}
<1>3. 0 \in T
  <2>1. Of(0) = {}
    OBVIOUS
  <2>2. Placed(a, l, l, {})
    BY DEF Placed, IsLayout
  <2>3. QED
    BY <1>2, <2>1, <2>2
<1>4. ASSUME NEW k \in Nat, k \in T
      PROVE  k + 1 \in T
  <2> SUFFICES ASSUME k + 1 <= n
               PROVE  Placed(a, l, F[k + 1], Of(k + 1))
    OBVIOUS
  <2>1. Placed(a, l, F[k], Of(k))
    BY <1>1, <1>4
  <2> DEFINE s == q[k + 1]
  <2>2. k + 1 \in 1 .. n /\ s \in SectionNames /\ (k + 1) - 1 = k
    BY <1>1
  <2>3. F[k + 1] = PlaceOne(a, w, F[k], s)
    BY <1>2, <2>2
  <2>4. Of(k + 1) = IF sec[a][s].writable = w THEN Of(k) \cup {s} ELSE Of(k)
    <3>1. \A i \in 1 .. k + 1 : i = k + 1 \/ i \in 1 .. k
      OBVIOUS
    <3>2. \A t \in SectionNames : (\E i \in 1 .. k + 1 : q[i] = t)
            <=> (t = s \/ \E i \in 1 .. k : q[i] = t)
      BY <3>1
    <3> HIDE DEF s
    <3>3. QED
      BY <2>2, <3>2
  <2>5. Of(k) \in SUBSET SectionNames
    OBVIOUS
  <2> HIDE DEF Of, s
  <2>6. Placed(a, l, PlaceOne(a, w, F[k], s),
               IF sec[a][s].writable = w THEN Of(k) \cup {s} ELSE Of(k))
    BY <2>1, <2>2, <2>5, PlaceOneRight
  <2>7. QED
    BY <2>3, <2>4, <2>6
<1>5. n \in T
  <2> HIDE DEF T
  <2>1. QED
    BY <1>1, <1>3, <1>4, AllNumbers
<1>6. Of(n) = OfKind(a, w)
  BY <1>1 DEF OfKind, ToSet
<1> HIDE DEF Of
<1>7. QED
  BY <1>1, <1>2, <1>5, <1>6

\* Every section has its place, after the end of those before it.
LEMMA LayoutFacts ==
  ASSUME TypeOK, NEW a \in Asms
  PROVE  LET L == Layout(a)
             all == ToSet(order[a])
             end(s) == L.offsets[s] + sec[a][s].size
         IN  /\ DOMAIN L.offsets = all
             /\ L.execSize % PageSize = 0
             /\ \A s \in all :
                  /\ L.offsets[s] \in Nat
                  /\ L.offsets[s] % sec[a][s].align = 0
                  /\ end(s) <= L.size
                  /\ IF sec[a][s].writable THEN L.offsets[s] >= L.execSize
                     ELSE end(s) <= L.execSize
             /\ \A s, t \in all : s # t =>
                  end(s) <= L.offsets[t] \/ end(t) <= L.offsets[s]
<1> DEFINE l0 == [pos |-> 0, offsets |-> <<>>]
           ro == PlaceSections(a, l0, FALSE)
           x == RoundUp(ro.pos)
           l1 == [ro EXCEPT !.pos = x]
           rw == PlaceSections(a, l1, TRUE)
           all == ToSet(order[a])
           L == Layout(a)
           R == OfKind(a, FALSE)
           W == OfKind(a, TRUE)
<1>1. IsLayout(l0) /\ l0.pos = 0 /\ DOMAIN l0.offsets = {}
  BY DEF IsLayout
<1>2. Placed(a, l0, ro, R)
  <2> HIDE DEF l0
  <2>1. QED
    BY <1>1, PlaceRight
<1>3. IsLayout(ro) /\ ro.pos \in Nat /\ DOMAIN ro.offsets = R
  <2> HIDE DEF l0, ro, R
  <2>1. QED
    BY <1>1, <1>2 DEF Placed, IsLayout
<1> HIDE DEF ro
<1>4. x \in Nat /\ ro.pos <= x /\ x % PageSize = 0
  <2>1. ro.pos \in Nat /\ PageSize \in Nat \ {0}
    BY <1>3, LinkAssumption
  <2>2. Pad(ro.pos, PageSize) \in 0 .. PageSize - 1
    BY <2>1, PadType
  <2>3. x % PageSize = 0
    BY <2>1, PadRounds DEF RoundUp, Pad
  <2>4. QED
    BY <2>1, <2>2, <2>3 DEF RoundUp
<1>5. IsLayout(l1) /\ l1.pos = x /\ l1.offsets = ro.offsets
  <2> HIDE DEF x
  <2>1. [[pos |-> ro.pos, offsets |-> ro.offsets] EXCEPT !.pos = x]
          = [pos |-> x, offsets |-> ro.offsets]
    OBVIOUS
  <2>2. l1 = [pos |-> x, offsets |-> ro.offsets]
    BY <1>3, <2>1 DEF IsLayout
  <2>3. QED
    BY <1>4, <2>2 DEF IsLayout
<1>6. Placed(a, l1, rw, W)
  <2> HIDE DEF l1
  <2>1. QED
    BY <1>5, PlaceRight
<1>7. /\ L.offsets = rw.offsets /\ L.execSize = x
      /\ L.size = IF W # {} THEN rw.pos ELSE ro.pos
  BY DEF Layout, OfKind, ro
<1> HIDE DEF l0, l1, rw, x, L
<1>8. \A s \in all : /\ s \in SectionNames /\ sec[a][s].writable \in BOOLEAN
                     /\ sec[a][s].size \in Nat
  BY OrderTypes
<1>9. /\ all = R \cup W /\ R \cap W = {}
      /\ \A s \in R : s \in all /\ ~ sec[a][s].writable
      /\ \A s \in W : s \in all /\ sec[a][s].writable
  BY <1>8 DEF OfKind
<1> HIDE DEF R, W, all
<1>10. DOMAIN rw.offsets = all
  BY <1>3, <1>5, <1>6, <1>9 DEF Placed
<1>11. ASSUME NEW s \in R
       PROVE  /\ rw.offsets[s] \in Nat /\ rw.offsets[s] % sec[a][s].align = 0
              /\ rw.offsets[s] = ro.offsets[s]
              /\ rw.offsets[s] + sec[a][s].size <= ro.pos
  <2>1. rw.offsets[s] = ro.offsets[s]
    BY <1>3, <1>5, <1>6, <1>9 DEF Placed
  <2>2. QED
    BY <2>1, <1>2 DEF Placed
<1>12. ASSUME NEW s \in W
       PROVE  /\ rw.offsets[s] \in Nat /\ rw.offsets[s] % sec[a][s].align = 0
              /\ x <= rw.offsets[s] /\ rw.offsets[s] + sec[a][s].size <= rw.pos
  BY <1>5, <1>6 DEF Placed
<1>13. rw.pos \in Nat /\ x <= rw.pos
  BY <1>5, <1>6 DEF Placed, IsLayout
<1>14. ASSUME NEW s \in all
       PROVE  /\ rw.offsets[s] \in Nat /\ rw.offsets[s] % sec[a][s].align = 0
              /\ rw.offsets[s] + sec[a][s].size <= L.size
              /\ IF sec[a][s].writable THEN rw.offsets[s] >= x
                 ELSE rw.offsets[s] + sec[a][s].size <= x
  <2>1. CASE s \in R
    BY <2>1, <1>3, <1>4, <1>7, <1>8, <1>9, <1>11, <1>13
  <2>2. CASE s \in W
    BY <2>2, <1>4, <1>7, <1>8, <1>9, <1>12, <1>13
  <2>3. QED
    BY <2>1, <2>2, <1>9
<1>15. ASSUME NEW s \in all, NEW t \in all, s # t
       PROVE  \/ rw.offsets[s] + sec[a][s].size <= rw.offsets[t]
              \/ rw.offsets[t] + sec[a][t].size <= rw.offsets[s]
  <2>1. CASE s \in R /\ t \in R
    BY <2>1, <1>2, <1>11, <1>15 DEF Placed
  <2>2. CASE s \in W /\ t \in W
    BY <2>2, <1>6, <1>15 DEF Placed
  <2>3. CASE s \in R /\ t \in W
    BY <2>3, <1>3, <1>4, <1>8, <1>11, <1>12
  <2>4. CASE s \in W /\ t \in R
    BY <2>4, <1>3, <1>4, <1>8, <1>11, <1>12
  <2>5. QED
    BY <2>1, <2>2, <2>3, <2>4, <1>9
<1>16. QED
  BY <1>4, <1>7, <1>10, <1>14, <1>15 DEF L, all

LEMMA LayoutRight == TypeOK => LayoutOK
  BY LayoutFacts DEF LayoutOK

-----------------------------------------------------------------------------
(* The images                                                               *)

LinkInv == LInv /\ LinkTypeOK /\ \E S : images \in Seq(S)

LEMMA LinkInvInit == LinkInit => LinkInv
<1> SUFFICES ASSUME LinkInit PROVE LinkInv
  OBVIOUS
<1>1. LInv
  BY LInvInit DEF LinkInit
<1>2. images = <<>> /\ images \in Seq({}) /\ DOMAIN images = {}
  BY DEF LinkInit
<1>3. LinkTypeOK
  BY <1>1, <1>2 DEF LinkTypeOK, LInv
<1>4. QED
  BY <1>1, <1>2, <1>3 DEF LinkInv

\* A new image is behind the others.
LEMMA NewImage ==
  ASSUME NEW S, images \in Seq(S), NEW x, images' = Append(images, x)
  PROVE  /\ Len(images) \in Nat /\ DOMAIN images = 1 .. Len(images)
         /\ images' \in Seq(S \cup {x})
         /\ Len(images') = Len(images) + 1 /\ DOMAIN images' = 1 .. Len(images) + 1
         /\ \A i \in 1 .. Len(images) : images'[i] = images[i]
         /\ images'[Len(images) + 1] = x
<1> DEFINE Q == S \cup {x}
<1>1. images \in Seq(Q) /\ x \in Q
  OBVIOUS
<1> HIDE DEF Q
<1>2. /\ images' \in Seq(Q) /\ Len(images') = Len(images) + 1
      /\ \A i \in 1 .. Len(images) : images'[i] = images[i]
      /\ images'[Len(images) + 1] = x
  BY <1>1, AppendProperties
<1>3. Len(images) \in Nat /\ DOMAIN images = 1 .. Len(images)
      /\ DOMAIN images' = 1 .. Len(images')
  BY <1>1, <1>2
<1>4. QED
  BY <1>2, <1>3 DEF Q

\* Linking draws a number and changes nothing else of the assemblers.
LEMMA LInvLink ==
  ASSUME LInv, bindSeq' = bindSeq + 1,
         UNCHANGED <<sec, order, cur, switches, made, label, labels, symbols, named,
                     slots, insn>>
  PROVE  LInv'
<1>1. TypeOK' /\ bindSeq \in Nat
  BY DEF LInv, TypeOK
<1>2. EncodingOK'
  BY DEF LInv, EncodingOK, Pos
<1>3. SectionsExist'
  BY DEF LInv, SectionsExist
<1>4. LabelsInPlace'
  BY DEF LInv, LabelsInPlace, IsBound, Created
<1>5. BindOrder'
  <2>1. \A l \in LabelIds : IsBound(l) => label[l].seq \in 1 .. bindSeq'
    BY <1>1 DEF LInv, BindOrder
  <2>2. QED
    BY <2>1 DEF LInv, BindOrder, IsBound
<1>6. QED
  BY <1>1, <1>2, <1>3, <1>4, <1>5 DEF LInv

\* The record that Link adds.
ImageOf(a, base, given) ==
  [asm |-> a, base |-> base, offsets |-> Layout(a).offsets, size |-> Layout(a).size,
   execSize |-> Layout(a).execSize, given |-> given,
   sizes |-> [s \in ToSet(order[a]) |-> sec[a][s].size],
   fields |-> Fields(a, base, Layout(a).offsets, given),
   symbols |-> Symbols(a, Layout(a).offsets),
   bindSeq |-> bindSeq + 1]

LEMMA LinkKeepsInv ==
  ASSUME LinkInv, NEW a \in Asms, NEW base \in Bases, NEW given \in Givens,
         Link(a, base, given)
  PROVE  LinkInv'
<1> DEFINE x == ImageOf(a, base, given)
           n == Len(images)
<1>1. LInv' /\ TypeOK /\ bindSeq \in Nat /\ bindSeq' = bindSeq + 1
  BY LInvLink DEF Link, LinkInv, LInv, TypeOK
<1>2. images' = Append(images, x)
  BY DEF Link, ImageOf
<1>3. PICK S : images \in Seq(S)
  BY DEF LinkInv
<1>4. /\ x.asm = a /\ x.base = base /\ x.given = given /\ x.bindSeq = bindSeq + 1
      /\ x.sizes = [s \in ToSet(order[a]) |-> sec[a][s].size]
      /\ x.offsets = Layout(a).offsets
  BY DEF ImageOf
<1> HIDE DEF x
<1>5. /\ n \in Nat /\ DOMAIN images = 1 .. n /\ DOMAIN images' = 1 .. n + 1
      /\ images' \in Seq(S \cup {x}) /\ images'[n + 1] = x
      /\ \A i \in 1 .. n : images'[i] = images[i]
  BY <1>2, <1>3, NewImage
<1>6. /\ ToSet(order[a]) \subseteq SectionNames
      /\ \A s \in ToSet(order[a]) : sec[a][s].size \in Nat
  BY <1>1, OrderTypes
<1>7. /\ DOMAIN Layout(a).offsets = ToSet(order[a])
      /\ \A s \in ToSet(order[a]) : Layout(a).offsets[s] \in Nat
  BY <1>1, LayoutFacts
<1>8. ASSUME NEW i \in 1 .. n + 1
      PROVE  LET img == images'[i] IN
             /\ img.asm \in Asms /\ img.base \in Bases /\ img.given \in Givens
             /\ DOMAIN img.sizes \subseteq SectionNames
             /\ DOMAIN img.offsets = DOMAIN img.sizes
             /\ \A s \in DOMAIN img.sizes : img.sizes[s] \in Nat /\ img.offsets[s] \in Nat
             /\ img.bindSeq \in 1 .. bindSeq'
  <2>1. CASE i = n + 1
    BY <2>1, <1>1, <1>4, <1>5, <1>6, <1>7
  <2>2. CASE i # n + 1
    <3>1. i \in 1 .. n
      BY <2>2, <1>5
    <3> DEFINE img == images[i]
    <3>2. /\ img.asm \in Asms /\ img.base \in Bases /\ img.given \in Givens
          /\ DOMAIN img.sizes \subseteq SectionNames
          /\ DOMAIN img.offsets = DOMAIN img.sizes
          /\ \A s \in DOMAIN img.sizes : img.sizes[s] \in Nat /\ img.offsets[s] \in Nat
          /\ img.bindSeq \in 1 .. bindSeq
      BY <3>1, <1>5 DEF LinkInv, LinkTypeOK
    <3>3. images'[i] = img
      BY <3>1, <1>5
    <3> HIDE DEF img
    <3>4. QED
      BY <3>2, <3>3, <1>1
  <2>3. QED
    BY <2>1, <2>2
<1>9. LinkTypeOK'
  BY <1>1, <1>5, <1>8 DEF LinkTypeOK, LInv
<1>10. QED
  BY <1>1, <1>5, <1>9 DEF LinkInv

\* The bind counter only grows, and a label that is bound gets a number that
\* no label and no image had.
LEMMA NewNumbers ==
  ASSUME LInv, [Next]_vars
  PROVE  /\ bindSeq \in Nat /\ bindSeq' \in Nat /\ bindSeq <= bindSeq'
         /\ \A l \in LabelIds : ~ IsBound(l) /\ IsBound(l)' => label'[l].seq = bindSeq + 1
<1>1. LabelChange /\ TypeOK
  BY NextChange, LInvBoundMade DEF LInv
<1>2. bindSeq \in Nat /\ label \in [LabelIds -> LabelState]
  BY <1>1 DEF TypeOK
<1>3. CASE Same
  BY <1>2, <1>3 DEF Same, IsBound
<1>4. CASE MakesOne
  <2>1. PICK l \in LabelIds, n \in Names \cup {NoName}, ow \in Asms \cup {NoAsm} :
          /\ label' = [label EXCEPT ![l] =
               [name |-> n, owner |-> ow, place |-> Unbound, seq |-> 0]]
          /\ bindSeq' = bindSeq
    BY <1>4 DEF MakesOne
  <2>2. label'[l].place = Unbound /\ \A m \in LabelIds \ {l} : label'[m] = label[m]
    BY <2>1, <1>2
  <2>3. QED
    BY <1>2, <2>1, <2>2 DEF IsBound
<1>5. CASE BindsOne
  <2>1. PICK a \in Asms, l \in LabelIds, n \in Names \cup {NoName},
             ow \in Asms \cup {NoAsm}, s \in SectionNames, off \in Nat :
          /\ ~ IsBound(l) /\ l \in made' /\ ow \in {NoAsm, a}
          /\ l \in made => n = label[l].name /\ ow = label[l].owner
          /\ s \in ToSet(order'[a])
          /\ sec[a][s].size <= off /\ off <= sec'[a][s].size
          /\ PlaceLabel(a, l, n, ow, s, off)
    BY <1>5, Zenon DEF BindsOne
  <2>2. /\ label' = [label EXCEPT ![l] =
             [name |-> n, owner |-> ow,
              place |-> [asm |-> a, sec |-> s, off |-> off], seq |-> bindSeq + 1]]
        /\ bindSeq' = bindSeq + 1
    BY <2>1 DEF PlaceLabel
  <2>3. label'[l].seq = bindSeq + 1 /\ \A m \in LabelIds \ {l} : label'[m] = label[m]
    BY <2>2, <1>2
  <2>4. QED
    BY <1>2, <2>2, <2>3 DEF IsBound
<1>6. QED
  BY <1>1, <1>3, <1>4, <1>5 DEF LabelChange

\* What an assembler does afterwards.
LEMMA AssembleKeepsInv ==
  ASSUME LinkInv, [Next]_vars, UNCHANGED images
  PROVE  LinkInv'
<1>1. LInv' /\ bindSeq \in Nat /\ bindSeq' \in Nat /\ bindSeq <= bindSeq'
  BY LInvNext, NewNumbers DEF LinkInv
<1>2. \E S : images' \in Seq(S)
  BY DEF LinkInv
<1>3. ASSUME NEW i \in DOMAIN images'
      PROVE  LET img == images'[i] IN
             /\ img.asm \in Asms /\ img.base \in Bases /\ img.given \in Givens
             /\ DOMAIN img.sizes \subseteq SectionNames
             /\ DOMAIN img.offsets = DOMAIN img.sizes
             /\ \A s \in DOMAIN img.sizes : img.sizes[s] \in Nat /\ img.offsets[s] \in Nat
             /\ img.bindSeq \in 1 .. bindSeq'
  <2> DEFINE img == images[i]
  <2>1. /\ img.asm \in Asms /\ img.base \in Bases /\ img.given \in Givens
        /\ DOMAIN img.sizes \subseteq SectionNames
        /\ DOMAIN img.offsets = DOMAIN img.sizes
        /\ \A s \in DOMAIN img.sizes : img.sizes[s] \in Nat /\ img.offsets[s] \in Nat
        /\ img.bindSeq \in 1 .. bindSeq
    BY DEF LinkInv, LinkTypeOK
  <2>2. images'[i] = img
    OBVIOUS
  <2> HIDE DEF img
  <2>3. QED
    BY <2>1, <2>2, <1>1
<1>4. LinkTypeOK'
  BY <1>1, <1>3 DEF LinkTypeOK, LInv
<1>5. QED
  BY <1>1, <1>2, <1>4 DEF LinkInv

LEMMA LinkInvNext == LinkInv /\ [LinkNext]_linkVars => LinkInv'
<1> SUFFICES ASSUME LinkInv, [LinkNext]_linkVars PROVE LinkInv'
  OBVIOUS
<1>1. CASE Assemble \/ UNCHANGED linkVars
  BY <1>1, AssembleKeepsInv DEF Assemble, linkVars
<1>2. ASSUME NEW a \in Asms, NEW base \in Bases, NEW given \in Givens,
             Link(a, base, given)
      PROVE  LinkInv'
  BY <1>2, LinkKeepsInv
<1>3. QED
  BY <1>1, <1>2 DEF LinkNext

LEMMA LinkInvAlways == LinkSpec => []LinkInv
  BY LinkInvInit, LinkInvNext, PTL DEF LinkSpec

\* Whatever the sections of an assembler are, each has its place in the
\* layout, aligned and apart from the others, the read-only ones in whole
\* pages that hold nothing writable.
THEOREM LayoutsSound == LinkSpec => [](LayoutOK /\ LinkTypeOK)
<1>1. LinkInv => LayoutOK /\ LinkTypeOK
  BY LayoutRight DEF LinkInv, LInv
<1>2. QED
  BY <1>1, LinkInvAlways, PTL

-----------------------------------------------------------------------------
(* What an image answers                                                    *)

\* An image still knows the same labels and answers as before.
LEMMA NumberedKnown ==
  ASSUME LInv, [Next]_vars, NEW img, img.bindSeq \in 1 .. bindSeq, NEW l \in LabelIds
  PROVE  /\ Knows(img, l)' <=> Knows(img, l)
         /\ Knows(img, l) => label'[l] = label[l]
         /\ Address(img, l)' = Address(img, l)
<1>1. CASE IsBound(l)
  <2>1. label'[l] = label[l]
    BY <1>1, BoundStays
  <2>2. QED
    BY <2>1 DEF Address, Knows, IsBound
<1>2. CASE ~ IsBound(l)
  <2>1. IsBound(l)' => label'[l].seq = bindSeq + 1 /\ bindSeq \in Nat
    BY <1>2, NewNumbers
  <2>2. IsBound(l)' => ~ (label'[l].seq <= img.bindSeq)
    BY <2>1
  <2>3. ~ Knows(img, l) /\ ~ Knows(img, l)'
    BY <1>2, <2>2 DEF Knows
  <2>4. QED
    BY <2>3 DEF Address
<1>3. QED
  BY <1>1, <1>2

LEMMA SameAnswer ==
  ASSUME LinkInv, [Next]_vars, NEW i \in DOMAIN images, images'[i] = images[i],
         NEW l \in LabelIds
  PROVE  Address(images[i], l)' = Address(images[i], l)
<1>1. PICK img : img = images[i]
  OBVIOUS
<1>2. Address(img, l)' = Address(img, l)
  <2>1. img.bindSeq \in 1 .. bindSeq
    BY <1>1 DEF LinkInv, LinkTypeOK
  <2>2. QED
    BY <2>1, NumberedKnown DEF LinkInv
<1>3. QED
  BY <1>1, <1>2 DEF Address, Knows, IsBound

\* The variables of ImageSpec.
Places == [l \in LabelIds |-> label[l].place]
AnswersOf(i) == [l \in LabelIds |-> Address(images[i], l)]
AllAnswers == [i \in DOMAIN images |-> AnswersOf(i)]

LEMMA AnswersInit == LinkInit => Answers!Init
<1> SUFFICES ASSUME LinkInit PROVE Answers!Init
  OBVIOUS
<1>1. Places = [l \in LabelIds |-> Unbound]
  BY DEF LinkInit, Init, Places
<1>2. AllAnswers = <<>>
  <2>1. images = <<>> /\ DOMAIN images = {}
    BY DEF LinkInit
  <2>2. QED
    BY <2>1 DEF AllAnswers
<1>3. QED
  BY <1>1, <1>2 DEF Answers!Init, Places, AllAnswers, AnswersOf

\* The images that were there answer as before.
LEMMA SameAnswers ==
  ASSUME LinkInv, [Next]_vars, UNCHANGED images
  PROVE  AllAnswers' = AllAnswers
<1>1. ASSUME NEW i \in DOMAIN images
      PROVE  AnswersOf(i)' = AnswersOf(i)
  <2>1. \A l \in LabelIds : Address(images[i], l)' = Address(images[i], l)
    BY SameAnswer
  <2>2. QED
    BY <2>1 DEF AnswersOf
<1>2. QED
  BY <1>1 DEF AllAnswers

\* An assembler binds at most one label at a time, at a place.
LEMMA OnePlace ==
  ASSUME LInv, [Next]_vars
  PROVE  \/ Places' = Places
         \/ \E l \in LabelIds :
              /\ Places[l] = Unbound /\ Places'[l] \in Place
              /\ Places' = [Places EXCEPT ![l] = Places'[l]]
<1>1. LabelChange /\ label \in [LabelIds -> LabelState]
  BY NextChange, LInvBoundMade DEF LInv, TypeOK
<1>2. CASE Same
  BY <1>2 DEF Same, Places
<1>3. CASE MakesOne
  <2>1. PICK l \in LabelIds \ made, n \in Names \cup {NoName}, ow \in Asms \cup {NoAsm} :
          label' = [label EXCEPT ![l] =
               [name |-> n, owner |-> ow, place |-> Unbound, seq |-> 0]]
    BY <1>3 DEF MakesOne
  <2>2. label[l].place = Unbound
    BY DEF LInv, LabelsInPlace, IsBound
  <2>3. \A m \in LabelIds : label'[m].place = label[m].place
    BY <1>1, <2>1, <2>2
  <2>4. QED
    BY <2>3 DEF Places
<1>4. CASE BindsOne
  <2>1. PICK a \in Asms, l \in LabelIds, n \in Names \cup {NoName},
             ow \in Asms \cup {NoAsm}, s \in SectionNames, off \in Nat :
          ~ IsBound(l) /\ PlaceLabel(a, l, n, ow, s, off)
    BY <1>4 DEF BindsOne
  <2> DEFINE p == [asm |-> a, sec |-> s, off |-> off]
  <2>2. label' = [label EXCEPT ![l] =
           [name |-> n, owner |-> ow, place |-> p, seq |-> bindSeq + 1]]
    BY <2>1 DEF PlaceLabel
  <2>3. p \in Place
    BY DEF Place
  <2> HIDE DEF p
  <2>4. label'[l].place = p /\ \A m \in LabelIds \ {l} : label'[m] = label[m]
    BY <1>1, <2>2
  <2>5. Places[l] = Unbound /\ Places'[l] \in Place
    BY <2>1, <2>3, <2>4 DEF Places, IsBound
  <2>6. Places' = [Places EXCEPT ![l] = Places'[l]]
    BY <2>4 DEF Places
  <2>7. QED
    BY <2>5, <2>6
<1>5. QED
  BY <1>1, <1>2, <1>3, <1>4 DEF LabelChange

\* A new image answers for the labels of its assembler.
LEMMA NewAnswers ==
  ASSUME LinkInv, NEW a \in Asms, NEW base \in Bases, NEW given \in Givens,
         NEW img, img = ImageOf(a, base, given), NEW l \in LabelIds
  PROVE  IF label[l].place # Unbound /\ label[l].place.asm = a
         THEN /\ label[l].place.sec \in ToSet(order[a])
              /\ Layout(a).offsets[label[l].place.sec] \in Nat
              /\ label[l].place.off \in Nat /\ base \in Nat
              /\ Address(img, l) = base + Layout(a).offsets[label[l].place.sec]
                                        + label[l].place.off
         ELSE Address(img, l) = Failed
<1> DEFINE p == label[l].place
           mine == p # Unbound /\ p.asm = a
<1>1. /\ img.asm = a /\ img.base = base /\ img.bindSeq = bindSeq + 1
      /\ img.sizes = [s \in ToSet(order[a]) |-> sec[a][s].size]
      /\ img.offsets = Layout(a).offsets
  BY DEF ImageOf
<1>2. TypeOK /\ base \in Nat
  BY LinkAssumption DEF LinkInv, LInv
<1>3. CASE ~ mine
  BY <1>1, <1>3 DEF Address, Knows, IsBound
<1>4. CASE mine
  <2>1. p \in Place
    BY <1>2, <1>4 DEF TypeOK, LabelState
  <2>2. IsBound(l) /\ p.sec \in ToSet(order[a]) /\ p.off <= sec[a][p.sec].size
    BY <1>4 DEF LinkInv, LInv, LabelsInPlace, IsBound, Created
  <2>3. label[l].seq \in 1 .. bindSeq /\ bindSeq \in Nat
    BY <2>2, <1>2 DEF LinkInv, LInv, BindOrder, TypeOK
  <2>4. label[l].seq <= img.bindSeq
    BY <1>1, <2>3
  <2>5. Knows(img, l)
    BY <1>1, <1>4, <2>2, <2>4 DEF Knows
  <2>6. Layout(a).offsets[p.sec] \in Nat
    BY <1>2, <2>2, LayoutFacts
  <2>7. p.off \in Nat
    BY <2>1 DEF Place
  <2>8. Address(img, l) = base + Layout(a).offsets[p.sec] + p.off
    BY <1>1, <2>5 DEF Address
  <2>9. QED
    BY <1>2, <1>4, <2>2, <2>6, <2>7, <2>8
<1>5. QED
  BY <1>3, <1>4

LEMMA LinkAnswers ==
  ASSUME LinkInv, NEW a \in Asms, NEW base \in Bases, NEW given \in Givens,
         Link(a, base, given)
  PROVE  Answers!Link(a)
<1> DEFINE x == ImageOf(a, base, given)
           n == Len(images)
           new == [l \in LabelIds |-> Address(x, l)]
           off == Layout(a).offsets
           mine == {l \in LabelIds : Places[l] # Unbound /\ Places[l].asm = a}
<1>1. images' = Append(images, x)
  BY DEF Link, ImageOf
<1>2. PICK S : images \in Seq(S)
  BY DEF LinkInv
<1>3. ASSUME NEW l \in LabelIds
      PROVE  IF l \in mine
             THEN /\ Places[l].sec \in ToSet(order[a]) /\ off[Places[l].sec] \in Nat
                  /\ Places[l].off \in Nat /\ base \in Nat
                  /\ new[l] = base + off[Places[l].sec] + Places[l].off
             ELSE new[l] = Failed
  BY NewAnswers DEF Places
<1>4. /\ label' = label /\ Places' = Places
      /\ \A i \in DOMAIN images : AnswersOf(i) = [l \in LabelIds |-> Address(images[i], l)]
  BY DEF Link, Places, AnswersOf
<1> HIDE DEF x
<1>5. /\ n \in Nat /\ DOMAIN images = 1 .. n /\ DOMAIN images' = 1 .. n + 1
      /\ images'[n + 1] = x /\ \A i \in 1 .. n : images'[i] = images[i]
  BY <1>1, <1>2, NewImage
<1>6. \A i \in 1 .. n : AnswersOf(i)' = AnswersOf(i)
  BY <1>4, <1>5 DEF AnswersOf, Address, Knows, IsBound
<1>7. ASSUME NEW i \in {n + 1}
      PROVE  AnswersOf(i)' = new
  BY <1>4, <1>5 DEF AnswersOf, Address, Knows, IsBound
<1>8. /\ AllAnswers = [i \in 1 .. n |-> AnswersOf(i)]
      /\ AllAnswers' = [i \in 1 .. n + 1 |-> IF i = n + 1 THEN new ELSE AnswersOf(i)]
  <2>1. AllAnswers' = [i \in 1 .. n + 1 |-> AnswersOf(i)']
    BY <1>5 DEF AllAnswers
  <2>2. \A i \in 1 .. n + 1 : AnswersOf(i)' = IF i = n + 1 THEN new ELSE AnswersOf(i)
    BY <1>5, <1>6, <1>7
  <2> HIDE DEF new
  <2>3. QED
    BY <2>1, <2>2, <1>5 DEF AllAnswers
<1> HIDE DEF new, mine, off
<1>9. /\ Len(AllAnswers) = n /\ Len(AllAnswers') = n + 1
      /\ AllAnswers'[n + 1] = new
      /\ AllAnswers' = Append(AllAnswers, new)
  <2>1. Len(AllAnswers) = n /\ Len(AllAnswers') = n + 1
    BY <1>5, <1>8
  <2>2. AllAnswers'[n + 1] = new
    BY <1>5, <1>8
  <2>3. AllAnswers' = Append(AllAnswers, new)
    BY <1>5, <1>8, <2>1
  <2>4. QED
    BY <2>1, <2>2, <2>3
<1>10. \A l \in LabelIds : l \notin mine => new[l] = Failed
  BY <1>3
<1>11. \A l \in mine : l \in LabelIds
  BY DEF mine
<1>12. \A l \in mine : new[l] \in Nat
  BY <1>3, <1>11
<1>13. ASSUME NEW l \in mine, NEW m \in mine, Places[l].sec = Places[m].sec
       PROVE  new[l] - new[m] = Places[l].off - Places[m].off
  <2>1. /\ new[l] = base + off[Places[l].sec] + Places[l].off
        /\ new[m] = base + off[Places[l].sec] + Places[m].off
        /\ base \in Nat /\ off[Places[l].sec] \in Nat
        /\ Places[l].off \in Nat /\ Places[m].off \in Nat
    BY <1>3, <1>11, <1>13
  <2>2. QED
    BY <2>1
<1>14. Answers!Snapshot(a, new)
  BY <1>10, <1>12, <1>13 DEF Answers!Snapshot, mine, Places
<1>15. Answers!Snapshot(a, AllAnswers'[Len(AllAnswers) + 1])
  BY <1>9, <1>14
<1>16. /\ Len(AllAnswers') = Len(AllAnswers) + 1
       /\ AllAnswers' = Append(AllAnswers, AllAnswers'[Len(AllAnswers) + 1])
       /\ Places' = Places
  BY <1>4, <1>9
<1> HIDE DEF n
<1>17. QED
  BY <1>15, <1>16 DEF Answers!Link, AllAnswers, AnswersOf, Places

LEMMA AnswersNext ==
  ASSUME LinkInv, [LinkNext]_linkVars
  PROVE  [Answers!Next]_<<Places, AllAnswers>>
<1>1. CASE [Next]_vars /\ UNCHANGED images
  <2>1. AllAnswers' = AllAnswers
    BY <1>1, SameAnswers
  <2>2. CASE Places' = Places
    BY <2>1, <2>2
  <2>3. CASE \E l \in LabelIds : /\ Places[l] = Unbound /\ Places'[l] \in Place
                                /\ Places' = [Places EXCEPT ![l] = Places'[l]]
    <3>1. PICK l \in LabelIds : /\ Places[l] = Unbound /\ Places'[l] \in Place
                               /\ Places' = [Places EXCEPT ![l] = Places'[l]]
      BY <2>3
    <3>2. Answers!Define(l)
      BY <2>1, <3>1 DEF Answers!Define, AllAnswers, AnswersOf, Places
    <3>3. QED
      BY <3>2 DEF Answers!Next
  <2>4. QED
    BY <1>1, <2>2, <2>3, OnePlace DEF LinkInv
<1>2. ASSUME NEW a \in Asms, NEW base \in Bases, NEW given \in Givens,
             Link(a, base, given)
      PROVE  Answers!Next
  BY <1>2, LinkAnswers DEF Answers!Next
<1>3. QED
  BY <1>1, <1>2 DEF LinkNext, Assemble, linkVars

\* Images implement their specification: an image answers for exactly the
\* labels that were bound in its assembler by then, with their places, and
\* whatever the assembler does later its answers stay.
THEOREM ImagesStayTrue == LinkSpec => AnswersStayTrue
<1>1. LinkInv /\ [LinkNext]_linkVars => [Answers!Next]_<<Places, AllAnswers>>
  BY AnswersNext
<1>2. Places = [l \in LabelIds |-> label[l].place]
      /\ AllAnswers = [i \in DOMAIN images |-> [l \in LabelIds |-> Address(images[i], l)]]
  BY DEF Places, AllAnswers, AnswersOf
<1>3. LinkSpec => Answers!Init /\ [][Answers!Next]_<<Places, AllAnswers>>
  BY <1>1, AnswersInit, LinkInvAlways, PTL DEF LinkSpec
<1>4. QED
  BY <1>3, PTL DEF AnswersStayTrue, Answers!Spec, Places, AllAnswers, AnswersOf

-----------------------------------------------------------------------------
(* What an image holds                                                      *)

\* What Image.address makes of the record x of a label.
KnowsIn(img, x) ==
  /\ x.place # Unbound /\ x.place.sec \in DOMAIN img.sizes /\ x.place.asm = img.asm
  /\ x.place.off <= img.sizes[x.place.sec] /\ x.seq <= img.bindSeq

AddressIn(img, x) ==
  IF KnowsIn(img, x) THEN img.base + img.offsets[x.place.sec] + x.place.off ELSE Failed

LEMMA InRecord ==
  ASSUME NEW img, NEW l
  PROVE  /\ Knows(img, l) <=> KnowsIn(img, label[l])
         /\ Address(img, l) = AddressIn(img, label[l])
  BY DEF Knows, KnowsIn, Address, AddressIn, IsBound

\* The fields of an image lie in their sections; those that refer to a label
\* hold what the image answers.
FieldsKnown(img) ==
  \A s \in DOMAIN img.fields : \A j \in DOMAIN img.fields[s] :
    LET f == img.fields[s][j] IN
    /\ f.target \in LabelIds => KnowsIn(img, label[f.target])
                                /\ f.value = AddressIn(img, label[f.target])
    /\ img.offsets[s] <= f.at
    /\ f.at + f.size <= img.offsets[s] + img.sizes[s]

\* So do the symbols, which are those of the labels it answers for.
SymbolsKnown(img) ==
  /\ \A l \in LabelIds : label[l].name # NoName /\ KnowsIn(img, label[l]) =>
       /\ label[l].name \in DOMAIN img.symbols
       /\ img.base + img.symbols[label[l].name] = AddressIn(img, label[l])
  /\ \A n \in DOMAIN img.symbols :
       n # NoName /\ \E l \in LabelIds : label[l].name = n /\ KnowsIn(img, label[l])

SlotsKnown(img) ==
  \A s \in DOMAIN img.fields : \A j \in DOMAIN img.fields[s] :
    LET f == img.fields[s][j] IN
    \A e \in ExtNames : f.target \in LabelIds /\ f.target = slots[img.asm][e] =>
      \E c \in DOMAIN img.fields["externs"] :
        LET x == img.fields["externs"][c] IN
        /\ img.base + x.at = f.value
        /\ x.size = SlotSize
        /\ x.target \in Externs /\ ExtName[x.target] = e
        /\ e \in DOMAIN img.given => x.value = img.given[e]

Known(img) == FieldsKnown(img) /\ SymbolsKnown(img) /\ SlotsKnown(img)

AllInside == \A a \in Asms, s \in SectionNames : Inside(sec[a][s])

\* What is known of the assemblers themselves.
AsmsInv == LInv /\ AllInside /\ AllNames /\ AllSlots

MadeImages == {images[i] : i \in DOMAIN images}

ContentsInv == LinkInv /\ AsmsInv /\ \A img \in MadeImages : Known(img)

LEMMA AsmsInvInit == Init => AsmsInv
<1> SUFFICES ASSUME Init PROVE AsmsInv
  OBVIOUS
<1>1. LInv
  BY LInvInit
<1>2. AllInside
  BY DEF Init, EmptySection, Inside, AllInside
<1>3. AllNames
  <2>1. Unbound.asm \notin Asms
    BY AsmAssumption DEF Unbound
  <2>2. QED
    BY <2>1 DEF Init, AllNames, NamedOK, SymbolsOK
<1>4. AllSlots
  BY DEF Init, AllSlots
<1>5. QED
  BY <1>1, <1>2, <1>3, <1>4 DEF AsmsInv

LEMMA AsmsInvNext == AsmsInv /\ [Next]_vars => AsmsInv'
<1> SUFFICES ASSUME AsmsInv, [Next]_vars PROVE AsmsInv'
  OBVIOUS
<1>1. LInv'
  BY LInvNext DEF AsmsInv
<1>2. AllInside'
  BY NextFollows DEF AsmsInv, LInv, AllInside, Follows
<1>3. AllNames'
  BY NamesNext DEF AsmsInv
<1>4. AllSlots'
  BY SlotsStep DEF AsmsInv
<1>5. QED
  BY <1>1, <1>2, <1>3, <1>4 DEF AsmsInv

LEMMA AsmsInvLink ==
  ASSUME AsmsInv, NEW a \in Asms, NEW base \in Bases, NEW given \in Givens,
         Link(a, base, given)
  PROVE  AsmsInv'
<1>1. LInv'
  BY LInvLink DEF AsmsInv, Link
<1>2. AllInside'
  BY DEF AsmsInv, Link, AllInside
<1>3. AllNames'
  BY DEF AsmsInv, Link, AllNames
<1>4. AllSlots'
  BY DEF AsmsInv, Link, AllSlots
<1>5. QED
  BY <1>1, <1>2, <1>3, <1>4 DEF AsmsInv

\* A new slot has a label that no image knows.
LEMMA OldSlot ==
  ASSUME LInv, [Next]_vars, NEW a \in Asms, NEW e \in ExtNames, NEW l \in LabelIds,
         IsBound(l), slots'[a][e] = l
  PROVE  slots[a][e] = l
<1>1. l \in made /\ TypeOK /\ TypeOK'
  BY LInvNext DEF LInv, LabelsInPlace
<1>2. CASE slots' = slots
  BY <1>2
<1>3. ASSUME NEW b \in Asms, NEW S \in Table, NEW x \in Externs, SlotMade(b, S, x)
      PROVE  slots[a][e] = l
  <2>1. PICK m \in LabelIds \ made, off \in Nat :
          /\ slots' = [slots EXCEPT ![b][ExtName[x]] = m]
          /\ label'[m].place = [asm |-> b, sec |-> "externs", off |-> off]
          /\ sec[b]["externs"].size <= off
          /\ SlotIn(sec'[b]["externs"], ExtName[x], off)
    BY <1>1, <1>3, SlotMadeEffect, Zenon
  <2>2. ExtName[x] \in ExtNames
    BY ExternAssumption
  <2>3. m # l
    BY <1>1
  <2>4. QED
    BY <1>1, <2>1, <2>2, <2>3 DEF TypeOK
<1>4. QED
  BY <1>1, <1>2, <1>3, NextSlotChange DEF SlotChange

\* What an image held, it holds after any step of an assembler.
LEMMA KnownStays ==
  ASSUME ContentsInv, [Next]_vars, UNCHANGED images, NEW img \in MadeImages
  PROVE  Known(img)'
<1>1. PICK i \in DOMAIN images : images[i] = img /\ images'[i] = images[i]
  BY DEF MadeImages
<1>2. \A l \in LabelIds : KnowsIn(img, label[l]) \/ KnowsIn(img, label'[l])
                          => label'[l] = label[l]
  <2> SUFFICES ASSUME NEW l \in LabelIds,
                      KnowsIn(img, label[l]) \/ KnowsIn(img, label'[l])
               PROVE  label'[l] = label[l]
    OBVIOUS
  <2>1. img.bindSeq \in 1 .. bindSeq /\ LInv
    BY <1>1 DEF ContentsInv, LinkInv, LinkTypeOK
  <2>2. CASE IsBound(l)
    BY <2>1, <2>2, BoundStays
  <2>3. CASE ~ IsBound(l)
    <3>1. IsBound(l)' => label'[l].seq = bindSeq + 1 /\ bindSeq \in Nat
      BY <2>1, <2>3, NewNumbers
    <3>2. ~ KnowsIn(img, label[l]) /\ ~ KnowsIn(img, label'[l])
      BY <2>1, <2>3, <3>1 DEF KnowsIn, IsBound
    <3>3. QED
      BY <3>2
  <2>4. QED
    BY <2>2, <2>3
<1>3. img.asm \in Asms /\ LInv /\ FieldsKnown(img) /\ SymbolsKnown(img) /\ SlotsKnown(img)
  BY <1>1 DEF ContentsInv, LinkInv, LinkTypeOK, Known
<1>4. FieldsKnown(img)'
  <2> SUFFICES ASSUME NEW s \in DOMAIN img.fields, NEW j \in DOMAIN img.fields[s],
                      NEW f, f = img.fields[s][j]
               PROVE  /\ f.target \in LabelIds => KnowsIn(img, label'[f.target])
                                                 /\ f.value = AddressIn(img, label'[f.target])
                      /\ img.offsets[s] <= f.at
                      /\ f.at + f.size <= img.offsets[s] + img.sizes[s]
    BY DEF FieldsKnown
  <2>1. /\ f.target \in LabelIds => KnowsIn(img, label[f.target])
                                /\ f.value = AddressIn(img, label[f.target])
        /\ img.offsets[s] <= f.at
        /\ f.at + f.size <= img.offsets[s] + img.sizes[s]
    BY <1>3 DEF FieldsKnown
  <2>2. QED
    BY <1>2, <2>1
<1>5. SymbolsKnown(img)'
  <2>1. ASSUME NEW l \in LabelIds, label'[l].name # NoName, KnowsIn(img, label'[l])
        PROVE  /\ label'[l].name \in DOMAIN img.symbols
               /\ img.base + img.symbols[label'[l].name] = AddressIn(img, label'[l])
    <3>1. label'[l] = label[l]
      BY <1>2, <2>1
    <3>2. QED
      BY <1>3, <2>1, <3>1 DEF SymbolsKnown
  <2>2. ASSUME NEW n \in DOMAIN img.symbols
        PROVE  n # NoName /\ \E l \in LabelIds : label'[l].name = n /\ KnowsIn(img, label'[l])
    <3>1. PICK l \in LabelIds : label[l].name = n /\ KnowsIn(img, label[l])
      BY <1>3 DEF SymbolsKnown
    <3>2. KnowsIn(img, label'[l]) /\ label'[l] = label[l]
      BY <1>2, <3>1
    <3>3. QED
      BY <1>3, <3>1, <3>2 DEF SymbolsKnown
  <2>3. QED
    BY <2>1, <2>2 DEF SymbolsKnown
<1>6. SlotsKnown(img)'
  <2>1. ASSUME NEW s \in DOMAIN img.fields, NEW j \in DOMAIN img.fields[s],
               NEW e \in ExtNames, img.fields[s][j].target \in LabelIds,
               img.fields[s][j].target = slots'[img.asm][e]
        PROVE  img.fields[s][j].target = slots[img.asm][e]
    <3>1. KnowsIn(img, label[img.fields[s][j].target])
      BY <1>3, <2>1 DEF FieldsKnown
    <3>2. IsBound(img.fields[s][j].target)
      BY <3>1 DEF KnowsIn, IsBound
    <3>3. QED
      BY <1>3, <2>1, <3>2, OldSlot
  <2>2. QED
    BY <1>3, <2>1 DEF SlotsKnown
<1>7. QED
  BY <1>4, <1>5, <1>6 DEF Known

-----------------------------------------------------------------------------
(* What a new image holds                                                   *)

\* A label of an assembler is one a new image of it knows.
LEMMA NewKnows ==
  ASSUME LinkInv, NEW a \in Asms, NEW base \in Bases, NEW given \in Givens,
         NEW img, img = ImageOf(a, base, given), NEW l \in LabelIds
  PROVE  Knows(img, l) <=> label[l].place # Unbound /\ label[l].place.asm = a
<1> DEFINE mine == label[l].place # Unbound /\ label[l].place.asm = a
<1>1. CASE mine
  <2>1. Address(img, l) \in Nat
    BY <1>1, NewAnswers
  <2>2. QED
    BY <1>1, <2>1, LinkAssumption DEF Address
<1>2. CASE ~ mine
  BY <1>2 DEF ImageOf, Knows, IsBound
<1>3. QED
  BY <1>1, <1>2

LEMMA NewFields ==
  ASSUME LinkInv, AllInside, NEW a \in Asms, NEW base \in Bases, NEW given \in Givens,
         Link(a, base, given), NEW img, img = ImageOf(a, base, given)
  PROVE  FieldsKnown(img)
<1> DEFINE all == ToSet(order[a])
           off == Layout(a).offsets
<1>1. /\ img.fields = Fields(a, base, off, given) /\ img.offsets = off
      /\ img.sizes = [s \in all |-> sec[a][s].size]
  BY DEF ImageOf
<1>2. TypeOK /\ all \subseteq SectionNames
  BY OrderTypes DEF LinkInv, LInv
<1>3. \A s \in all : off[s] \in Nat
  BY <1>2, LayoutFacts
<1>4. DOMAIN img.fields = all
  BY <1>1 DEF Fields
<1> HIDE DEF off, all
<1>5. ASSUME NEW s \in all, NEW j \in DOMAIN sec[a][s].patches
      PROVE  LET p == sec[a][s].patches[j]
                 f == img.fields[s][j] IN
             /\ f.target \in LabelIds => Knows(img, f.target) /\ f.value = Address(img, f.target)
             /\ img.offsets[s] <= f.at
             /\ f.at + f.size <= img.offsets[s] + img.sizes[s]
  <2> DEFINE p == sec[a][s].patches[j]
             f == img.fields[s][j]
  <2>1. f = [at |-> off[s] + p.off, size |-> p.kind.size, target |-> p.target,
             value |-> TargetAddress(base, off, given, p.target)]
    <3>1. img.fields[s] = [k \in DOMAIN sec[a][s].patches |->
              LET q == sec[a][s].patches[k] IN
              [at |-> off[s] + q.off, size |-> q.kind.size, target |-> q.target,
               value |-> TargetAddress(base, off, given, q.target)]]
      BY <1>1, Zenon DEF Fields, all
    <3>2. QED
      BY <3>1, Zenon
  <2>2. sec[a][s] \in Section
    BY <1>2 DEF TypeOK
  <2>3. j \in 1 .. Len(sec[a][s].patches)
    BY <2>2, SectionFields
  <2>4. p.off \in Nat /\ p.kind.size \in Nat /\ sec[a][s].size \in Nat
    BY <2>2, <2>3, SectionFields
  <2>5. p.off + p.kind.size <= sec[a][s].size
    BY <1>2, <2>3 DEF AllInside, Inside
  <2>6. Resolves(a, given, p.target)
    BY DEF Link, all
  <2> HIDE DEF p, f
  <2>7. img.offsets[s] <= f.at /\ f.at + f.size <= img.offsets[s] + img.sizes[s]
    BY <1>1, <1>3, <2>1, <2>4, <2>5
  <2>8. ASSUME p.target \in LabelIds
        PROVE  Knows(img, p.target) /\ f.value = Address(img, p.target)
    <3>1. p.target \notin Externs
      BY <2>8, ExternAssumption
    <3>2. label[p.target].place # Unbound /\ label[p.target].place.asm = a
      BY <2>6, <3>1 DEF Resolves, IsBound
    <3>3. f.value = base + off[label[p.target].place.sec] + label[p.target].place.off
      BY <2>1, <3>1 DEF TargetAddress
    <3>4. Address(img, p.target) = base + off[label[p.target].place.sec]
                                        + label[p.target].place.off
      BY <2>8, <3>2, NewAnswers DEF off
    <3>5. QED
      BY <2>8, <3>2, <3>3, <3>4, NewKnows
  <2>9. f.target = p.target
    BY <2>1
  <2>10. QED
    BY <2>7, <2>8, <2>9 DEF f
<1>6. \A s \in all : DOMAIN img.fields[s] = DOMAIN sec[a][s].patches
  BY <1>1 DEF Fields, all
<1>7. QED
  BY <1>4, <1>5, <1>6, InRecord DEF FieldsKnown

LEMMA NewSymbols ==
  ASSUME LinkInv, AllNames, NEW a \in Asms, NEW base \in Bases, NEW given \in Givens,
         NEW img, img = ImageOf(a, base, given)
  PROVE  SymbolsKnown(img)
<1> DEFINE off == Layout(a).offsets
           mine == {l \in ToSet(labels[a]) : label[l].name # NoName}
           chosen(n) == CHOOSE l \in mine : label[l].name = n
<1>1. /\ img.symbols = Symbols(a, off) /\ img.base = base
  BY DEF ImageOf
<1>2. DOMAIN img.symbols = {label[l].name : l \in mine}
  BY <1>1 DEF Symbols
<1>3. \A n \in DOMAIN img.symbols :
        img.symbols[n] = off[label[chosen(n)].place.sec] + label[chosen(n)].place.off
  BY <1>1 DEF Symbols
<1>4. TypeOK /\ LabelsInPlace
  BY DEF LinkInv, LInv
<1>5. \A l \in mine : l \in LabelIds
  <2>1. labels[a] \in Seq(LabelIds)
    BY <1>4 DEF TypeOK
  <2>2. QED
    BY <2>1, ElementOfSeq DEF ToSet
<1>6. \A l \in LabelIds : l \in mine <=> label[l].place.asm = a /\ label[l].name # NoName
  BY <1>4 DEF LabelsInPlace
<1> HIDE DEF mine, off
<1>7. \A l \in LabelIds : label[l].place.asm = a => label[l].place # Unbound
  BY AsmAssumption DEF Unbound
<1>8. \A l \in mine : \A m \in mine : label[m].name = label[l].name => m = l
  BY <1>5, <1>6 DEF AllNames, SymbolsOK
<1>9. \A l \in mine : chosen(label[l].name) = l
  BY <1>8
<1> HIDE DEF chosen
<1>10. ASSUME NEW l \in LabelIds, label[l].name # NoName, Knows(img, l)
       PROVE  /\ label[l].name \in DOMAIN img.symbols
              /\ img.base + img.symbols[label[l].name] = Address(img, l)
  <2>1. label[l].place # Unbound /\ label[l].place.asm = a
    BY <1>10, NewKnows
  <2>2. l \in mine
    BY <1>6, <1>10, <2>1
  <2>3. label[l].name \in DOMAIN img.symbols
    BY <1>2, <2>2
  <2>4. img.symbols[label[l].name] = off[label[l].place.sec] + label[l].place.off
    BY <1>3, <1>9, <2>2, <2>3
  <2>5. /\ off[label[l].place.sec] \in Nat /\ label[l].place.off \in Nat /\ base \in Nat
        /\ Address(img, l) = base + off[label[l].place.sec] + label[l].place.off
    BY <2>1, NewAnswers DEF off
  <2>6. QED
    BY <1>1, <2>3, <2>4, <2>5
<1>11. ASSUME NEW n \in DOMAIN img.symbols
       PROVE  n # NoName /\ \E l \in LabelIds : label[l].name = n /\ Knows(img, l)
  <2>1. PICK l \in mine : label[l].name = n
    BY <1>2
  <2>2. l \in LabelIds /\ label[l].place.asm = a /\ n # NoName
    BY <1>5, <1>6, <2>1
  <2>3. Knows(img, l)
    BY <1>7, <2>2, NewKnows
  <2>4. QED
    BY <2>1, <2>2, <2>3
<1>12. QED
  BY <1>10, <1>11, InRecord DEF SymbolsKnown

LEMMA NewSlots ==
  ASSUME LinkInv, AllSlots, NEW a \in Asms, NEW base \in Bases, NEW given \in Givens,
         NEW img, img = ImageOf(a, base, given), FieldsKnown(img)
  PROVE  SlotsKnown(img)
<1> DEFINE all == ToSet(order[a])
           off == Layout(a).offsets
           X == sec[a]["externs"]
<1>1. /\ img.fields = Fields(a, base, off, given) /\ img.base = base
      /\ img.asm = a /\ img.given = given
  BY DEF ImageOf
<1>2. TypeOK /\ X \in Section
  BY SizeAssumption DEF LinkInv, LInv, TypeOK
<1>3. DOMAIN X.patches = 1 .. Len(X.patches)
  BY <1>2, SectionFields
<1>4. "externs" \in all =>
        img.fields["externs"] =
          [i \in DOMAIN X.patches |->
             [at |-> off["externs"] + X.patches[i].off, size |-> X.patches[i].kind.size,
              target |-> X.patches[i].target,
              value |-> TargetAddress(base, off, given, X.patches[i].target)]]
  BY <1>1 DEF Fields
<1> HIDE DEF off, X
<1>5. ASSUME NEW s \in DOMAIN img.fields, NEW j \in DOMAIN img.fields[s],
             NEW f, f = img.fields[s][j],
             NEW e \in ExtNames, f.target \in LabelIds, f.target = slots[a][e]
      PROVE  \E c \in DOMAIN img.fields["externs"] :
               LET x == img.fields["externs"][c] IN
               /\ base + x.at = f.value
               /\ x.size = SlotSize
               /\ x.target \in Externs /\ ExtName[x.target] = e
               /\ e \in DOMAIN given => x.value = given[e]
  <2> DEFINE l == slots[a][e]
             p == label[l].place
  <2>1. l \in LabelIds /\ l # NoLabel
    BY <1>5, AsmAssumption
  <2>2. p.asm = a /\ p.sec = "externs" /\ SlotIn(X, e, p.off)
    BY <2>1 DEF AllSlots, X
  <2>3. PICK c \in 1 .. Len(X.patches) :
          /\ X.patches[c].off = p.off /\ X.patches[c].kind = ABS64
          /\ X.patches[c].target \in Externs /\ ExtName[X.patches[c].target] = e
    BY <2>2 DEF SlotIn
  <2>4. Knows(img, l) /\ f.value = Address(img, l)
    BY <1>5, InRecord DEF FieldsKnown
  <2>5. p # Unbound
    BY <2>4 DEF Knows, IsBound
  <2>6. /\ "externs" \in all /\ off["externs"] \in Nat /\ p.off \in Nat /\ base \in Nat
        /\ f.value = base + off["externs"] + p.off
    BY <2>1, <2>2, <2>4, <2>5, NewAnswers DEF off
  <2> DEFINE x == img.fields["externs"][c]
  <2>7. /\ c \in DOMAIN img.fields["externs"]
        /\ x = [at |-> off["externs"] + X.patches[c].off, size |-> X.patches[c].kind.size,
                target |-> X.patches[c].target,
                value |-> TargetAddress(base, off, given, X.patches[c].target)]
    BY <1>3, <1>4, <2>3, <2>6
  <2> HIDE DEF x, l, p
  <2>8. base + x.at = f.value
    BY <2>3, <2>6, <2>7
  <2>9. x.size = SlotSize /\ x.target \in Externs /\ ExtName[x.target] = e
    BY <2>3, <2>7 DEF ABS64
  <2>10. e \in DOMAIN given => x.value = given[e]
    BY <2>3, <2>7 DEF TargetAddress, ExternAddress
  <2>11. QED
    BY <2>7, <2>8, <2>9, <2>10 DEF x
<1>6. QED
  BY <1>1, <1>5 DEF SlotsKnown

\* Linking changes nothing that an image relies on.
LEMMA LinkKnown ==
  ASSUME NEW img, Known(img), UNCHANGED <<label, slots>>
  PROVE  Known(img)'
  BY DEF Known, FieldsKnown, SymbolsKnown, SlotsKnown

LEMMA ContentsNext == ContentsInv /\ [LinkNext]_linkVars => ContentsInv'
<1> SUFFICES ASSUME ContentsInv, [LinkNext]_linkVars PROVE ContentsInv'
  OBVIOUS
<1>1. LinkInv'
  BY LinkInvNext DEF ContentsInv
<1>2. CASE [Next]_vars /\ UNCHANGED images
  <2>1. AsmsInv'
    BY <1>2, AsmsInvNext DEF ContentsInv
  <2>2. MadeImages' = MadeImages
    BY <1>2 DEF MadeImages
  <2>3. \A img \in MadeImages' : Known(img)'
    BY <1>2, <2>2, KnownStays
  <2>4. QED
    BY <1>1, <2>1, <2>3 DEF ContentsInv
<1>3. ASSUME NEW a \in Asms, NEW base \in Bases, NEW given \in Givens,
             Link(a, base, given)
      PROVE  ContentsInv'
  <2>1. PICK x : x = ImageOf(a, base, given)
    OBVIOUS
  <2>2. images' = Append(images, x)
    BY <1>3, <2>1 DEF Link, ImageOf
  <2>3. PICK S : images \in Seq(S)
    BY DEF ContentsInv, LinkInv
  <2>4. MadeImages' \subseteq MadeImages \cup {x}
    <3>1. /\ Len(images) \in Nat /\ DOMAIN images = 1 .. Len(images)
          /\ DOMAIN images' = 1 .. Len(images) + 1
          /\ \A i \in 1 .. Len(images) : images'[i] = images[i]
          /\ images'[Len(images) + 1] = x
      BY <2>2, <2>3, NewImage
    <3>2. QED
      BY <3>1 DEF MadeImages
  <2>5. Known(x)
    <3>1. FieldsKnown(x)
      BY <1>3, <2>1, NewFields DEF ContentsInv, AsmsInv
    <3>2. SymbolsKnown(x)
      BY <2>1, NewSymbols DEF ContentsInv, AsmsInv
    <3>3. SlotsKnown(x)
      BY <2>1, <3>1, NewSlots DEF ContentsInv, AsmsInv
    <3>4. QED
      BY <3>1, <3>2, <3>3 DEF Known
  <2>6. UNCHANGED <<label, slots>>
    BY <1>3 DEF Link
  <2>7. \A img \in MadeImages \cup {x} : Known(img)'
    BY <2>5, <2>6, LinkKnown DEF ContentsInv
  <2>8. AsmsInv'
    BY <1>3, AsmsInvLink DEF ContentsInv
  <2>9. QED
    BY <1>1, <2>4, <2>7, <2>8 DEF ContentsInv
<1>4. QED
  BY <1>2, <1>3 DEF LinkNext, Assemble, linkVars

LEMMA ContentsAlways == LinkSpec => []ContentsInv
<1>1. LinkInit => ContentsInv
  <2> SUFFICES ASSUME LinkInit PROVE ContentsInv
    OBVIOUS
  <2>1. LinkInv /\ AsmsInv
    BY LinkInvInit, AsmsInvInit DEF LinkInit
  <2>2. DOMAIN images = {}
    BY DEF LinkInit
  <2>3. QED
    BY <2>1, <2>2 DEF ContentsInv, MadeImages
<1>2. QED
  BY <1>1, ContentsNext, PTL DEF LinkSpec

\* The bytes of an image and its answers agree, for ever: a field that refers
\* to a label holds the address the image answers for it, and so does a name.
THEOREM ImagesAgree == LinkSpec => []FieldsAgree
<1>1. ASSUME ContentsInv
      PROVE  FieldsAgree
  <2> SUFFICES ASSUME NEW i \in DOMAIN images, NEW img, img = images[i]
               PROVE  /\ \A s \in DOMAIN img.fields : \A j \in DOMAIN img.fields[s] :
                           LET f == img.fields[s][j] IN
                           /\ f.target \in LabelIds => f.value = Address(img, f.target)
                           /\ img.offsets[s] <= f.at
                           /\ f.at + f.size <= img.offsets[s] + img.sizes[s]
                      /\ \A l \in LabelIds : label[l].name # NoName /\ Knows(img, l)
                           => AddressOfName(img, label[l].name) = Address(img, l)
                      /\ \A n \in DOMAIN img.symbols : Knows(img, symbols[img.asm][n])
    BY DEF FieldsAgree
  <2>1. FieldsKnown(img) /\ SymbolsKnown(img)
    BY <1>1 DEF ContentsInv, MadeImages, Known
  <2> USE InRecord
  <2>2. img.asm \in Asms
    BY <1>1 DEF ContentsInv, LinkInv, LinkTypeOK
  <2>3. ASSUME NEW n \in DOMAIN img.symbols
        PROVE  Knows(img, symbols[img.asm][n])
    <3>1. PICK l \in LabelIds : label[l].name = n /\ Knows(img, l) /\ n # NoName
      BY <2>1 DEF SymbolsKnown
    <3>2. label[l].place.asm = img.asm
      BY <3>1 DEF Knows
    <3>3. symbols[img.asm][n] = l
      BY <1>1, <2>2, <3>1, <3>2 DEF ContentsInv, AsmsInv, AllNames, SymbolsOK
    <3>4. QED
      BY <3>1, <3>3
  <2>4. \A l \in LabelIds : label[l].name # NoName /\ Knows(img, l)
          => AddressOfName(img, label[l].name) = Address(img, l)
    BY <2>1 DEF SymbolsKnown, AddressOfName
  <2>5. QED
    BY <2>1, <2>3, <2>4 DEF FieldsKnown
<1>2. QED
  BY <1>1, ContentsAlways, PTL

\* A reference through a slot leads to a cell of the image with the one
\* address the image uses for the name.
THEOREM SlotsResolve == LinkSpec => []SlotReferences
<1>1. ASSUME ContentsInv
      PROVE  SlotReferences
  <2>1. \A i \in DOMAIN images : SlotsKnown(images[i])
    BY <1>1 DEF ContentsInv, MadeImages, Known
  <2>2. QED
    BY <2>1 DEF SlotReferences, SlotsKnown
<1>2. QED
  BY <1>1, ContentsAlways, PTL
=============================================================================
