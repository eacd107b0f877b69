---------------------------- MODULE LoaderProofs ----------------------------
(* Proofs about ExecMemory and Loader, for any address space, threads,      *)
(* programs and entries.                                                    *)
EXTENDS Loader, DataProofs, FiniteSetTheorems, TLAPS

-----------------------------------------------------------------------------
(* Executable memory                                                        *)

\* A mapping has at least one page.
LEMMA AtLeastOnePage ==
  ASSUME NEW n \in Nat
  PROVE  Max({1, PagesUp(n)}) \in Nat /\ Max({1, PagesUp(n)}) >= 1
<1> DEFINE k == PagesUp(n)
<1>1. k \in Int
  BY MemoryAssumption DEF PagesUp
<1>2. \E x \in {1, k} : \A y \in {1, k} : x >= y
  <2>1. CASE k >= 1
    BY <1>1, <2>1
  <2>2. CASE ~(k >= 1)
    BY <1>1, <2>2
  <2> QED BY <2>1, <2>2
<1>3. Max({1, k}) \in {1, k} /\ \A y \in {1, k} : Max({1, k}) >= y
  <2> HIDE DEF k
  <2> QED BY <1>2 DEF Max
<1> HIDE DEF k
<1>4. Max({1, k}) >= 1
  BY <1>3
<1>5. Max({1, k}) \in Int
  BY <1>1, <1>3
<1> QED BY <1>4, <1>5 DEF k

MemInv == MemTypeOK /\ OwnsItsPages /\ SealedPrefix

\* The facts of the invariant about one object, as the steps below use them.
LEMMA MemInvFacts ==
  ASSUME MemInv, NEW m \in Mems
  PROVE  /\ mem[m] \in Mem /\ mem[m].first \in Nat /\ mem[m].size \in Nat
         /\ mem[m].execSize \in Nat /\ mem[m].executable \in BOOLEAN
BY DEF MemInv, MemTypeOK, Mem

LEMMA MemInvInit == MemInit => MemInv
<1> SUFFICES ASSUME MemInit PROVE MemInv
  OBVIOUS
<1> USE DEF MemInit
<1>1. \A m \in Mems : ~Open(m)
  BY DEF Open, Unborn
<1>2. Unborn \in Mem
  BY DEF Unborn, Mem
<1>3. MemTypeOK
  BY <1>1, <1>2 DEF MemTypeOK
<1>4. OwnsItsPages
  BY <1>1, MemoryAssumption DEF OwnsItsPages
<1>5. SealedPrefix
  BY <1>1 DEF SealedPrefix
<1> QED BY <1>3, <1>4, <1>5 DEF MemInv

\* A new mapping takes free pages only.
LEMMA MapKeeps ==
  ASSUME MemInv, NEW m \in Mems, NEW n \in Nat, Map(m, n)
  PROVE  MemInv'
<1> DEFINE size == Max({1, PagesUp(n)})
<1>1. size \in Nat /\ size >= 1
  BY AtLeastOnePage
<1> HIDE DEF size
<1>2. PICK first \in Pages :
        LET range == Range0(first, size) IN
        /\ range \subseteq Pages
        /\ \A p \in range : owner[p] = Free
        /\ owner' = [p \in Pages |-> IF p \in range THEN m ELSE owner[p]]
        /\ writable' = writable \cup range
        /\ mem' = [mem EXCEPT ![m] =
             [state |-> "open", first |-> first, size |-> size, executable |-> FALSE,
              execSize |-> 0]]
  BY DEF Map, size
<1> DEFINE range == Range0(first, size)
           new == [state |-> "open", first |-> first, size |-> size,
                   executable |-> FALSE, execSize |-> 0]
<1>3. first \in Nat
  BY MemoryAssumption
<1>4. new \in Mem
  BY <1>1, <1>3 DEF Mem
<1>5. mem' = [mem EXCEPT ![m] = new]
  BY <1>2
<1> HIDE DEF new
<1>6. mem \in [Mems -> Mem] /\ mem[m].state = "unborn"
  BY DEF MemInv, MemTypeOK, Map
<1>7. mem' \in [Mems -> Mem] /\ mem'[m] = new
      /\ \A o \in Mems \ {m} : mem'[o] = mem[o]
  BY <1>4, <1>5, <1>6
<1>8. Own(m)' = range /\ Open(m)'
  BY <1>7 DEF Own, Open, new
<1>9. \A o \in Mems \ {m} : Own(o)' = Own(o) /\ (Open(o)' <=> Open(o))
  BY <1>7 DEF Own, Open
<1>10. ~Open(m)
  BY <1>6 DEF Open
<1>11. range \subseteq Pages /\ \A p \in range : owner[p] = Free
  BY <1>2
<1>12. owner' = [p \in Pages |-> IF p \in range THEN m ELSE owner[p]]
       /\ writable' = writable \cup range
  BY <1>2
<1> HIDE DEF range
<1>13. MemTypeOK'
  <2>1. owner' \in [Pages -> Mems \cup {Free}]
    BY <1>12 DEF MemInv, MemTypeOK
  <2>2. writable' \subseteq Pages /\ faults' \subseteq Nat
    BY <1>11, <1>12 DEF MemInv, MemTypeOK, Map
  <2>3. ASSUME NEW o \in Mems, Open(o)'
        PROVE  Own(o)' \subseteq Pages /\ mem'[o].size >= 1
               /\ mem'[o].execSize <= mem'[o].size
    <3>1. CASE o = m
      BY <3>1, <1>1, <1>7, <1>8, <1>11 DEF new
    <3>2. CASE o # m
      BY <3>2, <2>3, <1>7, <1>9 DEF MemInv, MemTypeOK
    <3> QED BY <3>1, <3>2
  <2> QED BY <2>1, <2>2, <2>3, <1>7 DEF MemTypeOK
<1>14. OwnsItsPages'
  <2> SUFFICES ASSUME NEW o \in Mems, NEW p \in Pages
               PROVE  owner'[p] = o <=> Open(o)' /\ p \in Own(o)'
    BY DEF OwnsItsPages
  <2>1. owner[p] = o <=> Open(o) /\ p \in Own(o)
    BY DEF MemInv, OwnsItsPages
  <2>2. CASE p \in range
    <3>1. owner'[p] = m /\ owner[p] = Free
      BY <2>2, <1>11, <1>12
    <3>2. CASE o = m
      BY <2>2, <3>1, <3>2, <1>8
    <3>3. CASE o # m
      BY <2>1, <3>1, <3>3, <1>9, MemoryAssumption
    <3> QED BY <3>2, <3>3
  <2>3. CASE p \notin range
    <3>1. owner'[p] = owner[p]
      BY <2>3, <1>12
    <3>2. CASE o = m
      BY <2>1, <2>3, <3>1, <3>2, <1>8, <1>10
    <3>3. CASE o # m
      BY <2>1, <3>1, <3>3, <1>9
    <3> QED BY <3>2, <3>3
  <2> QED BY <2>2, <2>3
<1>15. SealedPrefix'
  <2> SUFFICES ASSUME NEW o \in Mems, Open(o)', mem'[o].executable
               PROVE  Range0(mem'[o].first, mem'[o].execSize) \cap writable' = {}
    BY DEF SealedPrefix
  <2>1. o # m
    BY <1>7 DEF new
  <2>2. Open(o) /\ mem'[o] = mem[o]
    BY <2>1, <1>7, <1>9
  <2>3. Range0(mem[o].first, mem[o].execSize) \cap writable = {}
    BY <2>2 DEF MemInv, SealedPrefix
  <2>4. Range0(mem[o].first, mem[o].execSize) \subseteq Own(o)
    <3>1. mem[o].first \in Nat /\ mem[o].size \in Nat /\ mem[o].execSize \in Nat
      BY MemInvFacts
    <3>2. mem[o].execSize <= mem[o].size
      BY <2>2 DEF MemInv, MemTypeOK
    <3> QED BY <3>1, <3>2 DEF Own, Range0
  <2>5. \A p \in Own(o) : p \notin range
    <3>1. Own(o) \subseteq Pages
      BY <2>2 DEF MemInv, MemTypeOK
    <3>2. \A p \in Own(o) : owner[p] = o
      BY <2>2, <3>1 DEF MemInv, OwnsItsPages
    <3> QED BY <3>2, <1>11, MemoryAssumption
  <2> QED BY <2>2, <2>3, <2>4, <2>5, <1>12
<1> QED BY <1>13, <1>14, <1>15 DEF MemInv

\* What lies under an object and its writable pages can only shrink.
LEMMA Shrinks ==
  ASSUME MemInv, NEW m \in Mems, NEW o \in Mems, Open(o), Open(m), o # m
  PROVE  Own(o) \cap Own(m) = {}
<1>1. \A p \in Own(o) : p \in Pages /\ owner[p] = o
  BY DEF MemInv, OwnsItsPages, MemTypeOK
<1>2. \A p \in Own(m) : p \in Pages /\ owner[p] = m
  BY DEF MemInv, OwnsItsPages, MemTypeOK
<1> QED BY <1>1, <1>2

LEMMA WriteKeeps ==
  ASSUME MemInv, NEW m \in Mems, NEW off \in Nat, NEW len \in Nat, Write(m, off, len)
  PROVE  MemInv'
<1>1. UNCHANGED <<owner, writable, mem>>
  BY DEF Write
<1>2. faults' \subseteq Nat
  <2>1. mem[m].first \in Nat
    BY MemInvFacts
  <2>2. \A i \in off .. off + len - 1 : i \div PageSize \in Nat
    BY MemoryAssumption
  <2>3. Touched(m, off, len) \subseteq Nat
    BY <2>1, <2>2 DEF Touched
  <2>4. faults \subseteq Nat
    BY DEF MemInv, MemTypeOK
  <2> QED BY <2>3, <2>4 DEF Write
<1>3. MemTypeOK'
  BY <1>1, <1>2 DEF MemInv, MemTypeOK, Open, Own
<1>4. OwnsItsPages'
  BY <1>1 DEF MemInv, OwnsItsPages, Open, Own
<1>5. SealedPrefix'
  BY <1>1 DEF MemInv, SealedPrefix, Open
<1> QED BY <1>3, <1>4, <1>5 DEF MemInv

LEMMA ProtectKeeps ==
  ASSUME MemInv, NEW m \in Mems, NEW e \in Nat, ProtectExec(m, e)
  PROVE  MemInv'
<1> DEFINE new == [mem[m] EXCEPT !.executable = TRUE, !.execSize = e]
<1>1. mem[m] \in Mem /\ mem \in [Mems -> Mem]
  BY DEF MemInv, MemTypeOK
<1>2. Open(m) /\ e <= mem[m].size /\ owner' = owner /\ faults' = faults
      /\ writable' = writable \ Range0(mem[m].first, e)
  <2>1. mem[m].size \in Nat
    BY MemInvFacts
  <2> QED BY <2>1 DEF ProtectExec, ValidPrefix
<1>3. new \in Mem /\ new.state = mem[m].state /\ new.first = mem[m].first
      /\ new.size = mem[m].size /\ new.executable /\ new.execSize = e
  BY <1>1 DEF Mem
<1>4. mem' = [mem EXCEPT ![m] = new]
  BY <1>1 DEF ProtectExec
<1> HIDE DEF new
<1>5. mem' \in [Mems -> Mem] /\ mem'[m] = new
      /\ \A o \in Mems \ {m} : mem'[o] = mem[o]
  BY <1>1, <1>3, <1>4
<1>6. \A o \in Mems : Own(o)' = Own(o) /\ (Open(o)' <=> Open(o))
  BY <1>3, <1>5 DEF Own, Open
<1>7. MemTypeOK'
  <2>1. ASSUME NEW o \in Mems, Open(o)'
        PROVE  Own(o)' \subseteq Pages /\ mem'[o].size >= 1
               /\ mem'[o].execSize <= mem'[o].size
    <3>1. Open(o) /\ Own(o) \subseteq Pages /\ mem[o].size >= 1
          /\ mem[o].execSize <= mem[o].size
      BY <2>1, <1>6 DEF MemInv, MemTypeOK
    <3>2. CASE o = m
      BY <3>1, <3>2, <1>2, <1>3, <1>5, <1>6
    <3>3. CASE o # m
      BY <3>1, <3>3, <1>5, <1>6
    <3> QED BY <3>2, <3>3
  <2>2. owner' \in [Pages -> Mems \cup {Free}] /\ writable' \subseteq Pages
        /\ faults' \subseteq Nat
    BY <1>2 DEF MemInv, MemTypeOK
  <2> QED BY <2>1, <2>2, <1>5 DEF MemTypeOK
<1>8. OwnsItsPages'
  BY <1>2, <1>6 DEF MemInv, OwnsItsPages
<1>9. SealedPrefix'
  <2> SUFFICES ASSUME NEW o \in Mems, Open(o)', mem'[o].executable
               PROVE  Range0(mem'[o].first, mem'[o].execSize) \cap writable' = {}
    BY DEF SealedPrefix
  <2>1. CASE o = m
    BY <2>1, <1>2, <1>3, <1>5
  <2>2. CASE o # m
    <3>1. Open(o) /\ mem'[o] = mem[o]
      BY <2>2, <1>5, <1>6
    <3>2. Range0(mem[o].first, mem[o].execSize) \cap writable = {}
      BY <3>1 DEF MemInv, SealedPrefix
    <3> QED BY <3>1, <3>2, <1>2
  <2> QED BY <2>1, <2>2
<1> QED BY <1>7, <1>8, <1>9 DEF MemInv

LEMMA CloseKeeps ==
  ASSUME MemInv, NEW m \in Mems, Close(m)
  PROVE  MemInv'
<1>1. CASE ~Open(m)
  <2>1. UNCHANGED memVars
    BY <1>1 DEF Close, Frees, memVars
  <2> QED BY <2>1 DEF memVars, MemInv, MemTypeOK, OwnsItsPages, SealedPrefix, Own, Open
<1>2. CASE Open(m)
  <2> DEFINE new == [mem[m] EXCEPT !.state = "closed"]
  <2>1. mem[m] \in Mem /\ mem \in [Mems -> Mem]
    BY DEF MemInv, MemTypeOK
  <2>2. /\ owner' = [p \in Pages |-> IF p \in Own(m) THEN Free ELSE owner[p]]
        /\ writable' = writable \ Own(m)
        /\ faults' = faults
    BY <1>2 DEF Close, Frees
  <2>3. new \in Mem /\ new.state = "closed" /\ new.first = mem[m].first
        /\ new.size = mem[m].size
    BY <2>1 DEF Mem
  <2>4. mem' = [mem EXCEPT ![m] = new]
    BY <1>2, <2>1 DEF Close, Frees
  <2> HIDE DEF new
  <2>5. mem' \in [Mems -> Mem] /\ mem'[m] = new
        /\ \A o \in Mems \ {m} : mem'[o] = mem[o]
    BY <2>1, <2>3, <2>4
  <2>6. ~Open(m)' /\ \A o \in Mems \ {m} : Own(o)' = Own(o) /\ (Open(o)' <=> Open(o))
    BY <2>3, <2>5 DEF Own, Open
  <2>7. MemTypeOK'
    <3>1. ASSUME NEW o \in Mems, Open(o)'
          PROVE  Own(o)' \subseteq Pages /\ mem'[o].size >= 1
                 /\ mem'[o].execSize <= mem'[o].size
      <4>1. o # m
        BY <3>1, <2>6
      <4> QED BY <3>1, <4>1, <2>5, <2>6 DEF MemInv, MemTypeOK
    <3>2. owner' \in [Pages -> Mems \cup {Free}] /\ writable' \subseteq Pages
          /\ faults' \subseteq Nat
      BY <2>2 DEF MemInv, MemTypeOK
    <3> QED BY <3>1, <3>2, <2>5 DEF MemTypeOK
  <2>8. OwnsItsPages'
    <3> SUFFICES ASSUME NEW o \in Mems, NEW p \in Pages
                 PROVE  owner'[p] = o <=> Open(o)' /\ p \in Own(o)'
      BY DEF OwnsItsPages
    <3>1. owner[p] = o <=> Open(o) /\ p \in Own(o)
      BY DEF MemInv, OwnsItsPages
    <3>2. owner[p] = m <=> p \in Own(m)
      BY <1>2 DEF MemInv, OwnsItsPages
    <3>3. CASE p \in Own(m)
      BY <3>1, <3>2, <3>3, <2>2, <2>6, MemoryAssumption
    <3>4. CASE p \notin Own(m)
      BY <3>1, <3>2, <3>4, <2>2, <2>6
    <3> QED BY <3>3, <3>4
  <2>9. SealedPrefix'
    <3> SUFFICES ASSUME NEW o \in Mems, Open(o)', mem'[o].executable
                 PROVE  Range0(mem'[o].first, mem'[o].execSize) \cap writable' = {}
      BY DEF SealedPrefix
    <3>1. Open(o) /\ mem'[o] = mem[o]
      BY <2>5, <2>6
    <3>2. Range0(mem[o].first, mem[o].execSize) \cap writable = {}
      BY <3>1 DEF MemInv, SealedPrefix
    <3> QED BY <3>1, <3>2, <2>2
  <2> QED BY <2>7, <2>8, <2>9 DEF MemInv
<1> QED BY <1>1, <1>2

LEMMA StutterKeeps == ASSUME MemInv, UNCHANGED memVars PROVE MemInv'
BY DEF memVars, MemInv, MemTypeOK, OwnsItsPages, SealedPrefix, Own, Open

LEMMA MemNextKeeps == ASSUME MemInv, [MemNext]_memVars PROVE MemInv'
<1>1. Cardinality(Pages) * PageSize \in Nat /\ Cardinality(Pages) \in Nat
  <2>1. Cardinality(Pages) \in Nat
    BY MemoryAssumption, FS_CardinalityType
  <2> QED BY <2>1, MemoryAssumption
<1>2. ASSUME NEW m \in Mems, NEW n \in Sizes, Map(m, n) PROVE MemInv'
  BY <1>2, MapKeeps, MemoryAssumption
<1>3. ASSUME NEW m \in Mems, NEW off \in 0 .. Cardinality(Pages) * PageSize,
             NEW len \in Spans, Write(m, off, len)
      PROVE  MemInv'
  <2>1. off \in Nat /\ len \in Nat
    BY <1>1, MemoryAssumption
  <2> QED BY <1>3, <2>1, WriteKeeps
<1>4. ASSUME NEW m \in Mems, NEW e \in 0 .. Cardinality(Pages), ProtectExec(m, e)
      PROVE  MemInv'
  <2>1. e \in Nat
    BY <1>1
  <2> QED BY <1>4, <2>1, ProtectKeeps
<1>5. ASSUME NEW m \in Mems, NEW e \in 0 .. Cardinality(Pages), ProtectFails(m, e)
      PROVE  MemInv'
  <2>1. UNCHANGED memVars
    BY <1>5 DEF ProtectFails, FlagsOnFailure, memVars
  <2> QED BY <2>1, StutterKeeps
<1>6. ASSUME NEW m \in Mems, Close(m) PROVE MemInv'
  BY <1>6, CloseKeeps
<1>7. CASE UNCHANGED memVars
  BY <1>7, StutterKeeps
<1> QED BY <1>2, <1>3, <1>4, <1>5, <1>6, <1>7 DEF MemNext

\* Whatever is mapped, protected and closed, in any order and any number of
\* times: an open object owns exactly its pages (a second close frees nothing
\* that was mapped again), and what it counts as executable is not writable.
THEOREM MemorySound == MemSpec => [](MemTypeOK /\ OwnsItsPages /\ SealedPrefix)
<1>1. MemInit => MemInv
  BY MemInvInit
<1>2. MemInv /\ [MemNext]_memVars => MemInv'
  BY MemNextKeeps
<1>3. MemInv => MemTypeOK /\ OwnsItsPages /\ SealedPrefix
  BY DEF MemInv
<1> QED BY <1>1, <1>2, <1>3, PTL DEF MemSpec

-----------------------------------------------------------------------------
(* Pages and bytes                                                          *)

\* The pages mapped for n bytes have room for them.
LEMMA RoomForImage ==
  ASSUME NEW n \in Nat
  PROVE  n <= Max({1, PagesUp(n)}) * PageSize
<1> DEFINE k == PagesUp(n)
           x == Max({1, k})
<1>1. PageSize \in Nat \ {0} /\ n + PageSize - 1 \in Nat
  BY MemoryAssumption
<1>2. k \in Int /\ n + PageSize - 1 < k * PageSize + PageSize
  BY <1>1, PageOfByte DEF PagesUp
<1> HIDE DEF k
<1>3. n <= k * PageSize
  BY <1>1, <1>2
<1>4. \E y \in {1, k} : \A z \in {1, k} : y >= z
  <2>1. CASE k >= 1
    BY <1>2, <2>1
  <2>2. CASE ~(k >= 1)
    BY <1>2, <2>2
  <2> QED BY <2>1, <2>2
<1>5. x \in {1, k} /\ x >= k
  BY <1>4 DEF Max
<1> HIDE DEF x
<1>6. k * PageSize <= x * PageSize
  BY <1>1, <1>2, <1>5
<1>7. x \in Int
  BY <1>2, <1>5
<1>8. n <= x * PageSize
  BY <1>1, <1>2, <1>3, <1>6, <1>7
<1> QED BY <1>8 DEF x, k

-----------------------------------------------------------------------------
(* What an operation on one memory does to it, and to the others            *)

\* o keeps its state and its writable pages.
Untouched(o) == mem'[o] = mem[o] /\ Own(o) \cap writable \subseteq writable'

LEMMA MapEffect ==
  ASSUME MemInv, NEW m \in Mems, NEW n \in Nat, Map(m, n)
  PROVE  /\ mem[m].state = "unborn" /\ Open(m)' /\ ~mem'[m].executable
         /\ Own(m)' \subseteq writable'
         /\ n <= mem'[m].size * PageSize
         /\ faults' = faults
         /\ \A o \in Mems \ {m} : mem'[o] = mem[o]
         /\ writable \subseteq writable'
<1> DEFINE size == Max({1, PagesUp(n)})
<1>1. PICK first \in Pages :
        LET range == Range0(first, size) IN
        /\ writable' = writable \cup range
        /\ mem' = [mem EXCEPT ![m] =
             [state |-> "open", first |-> first, size |-> size, executable |-> FALSE,
              execSize |-> 0]]
  BY DEF Map, size
<1>2. n <= size * PageSize
  BY RoomForImage
<1> HIDE DEF size
<1>3. mem \in [Mems -> Mem]
  BY DEF MemInv, MemTypeOK
<1>4. mem'[m] = [state |-> "open", first |-> first, size |-> size, executable |-> FALSE,
                 execSize |-> 0]
  BY <1>1, <1>3
<1>5. \A o \in Mems \ {m} : mem'[o] = mem[o]
  BY <1>1, <1>3
<1>6. Own(m)' = Range0(first, size)
  BY <1>4 DEF Own
<1>7. mem[m].state = "unborn" /\ faults' = faults
  BY DEF Map
<1>8. writable \subseteq writable' /\ Own(m)' \subseteq writable'
  BY <1>1, <1>6
<1> QED BY <1>2, <1>4, <1>5, <1>7, <1>8 DEF Open

LEMMA ProtectEffect ==
  ASSUME MemInv, NEW m \in Mems, NEW e \in Nat, ProtectExec(m, e)
  PROVE  /\ Open(m) /\ Open(m)' /\ mem'[m].executable /\ mem'[m].execSize = e
         /\ mem'[m].first = mem[m].first /\ mem'[m].size = mem[m].size
         /\ mem'[m].state = mem[m].state
         /\ writable' = writable \ Range0(mem[m].first, e)
         /\ faults' = faults
         /\ \A o \in Mems \ {m} : mem'[o] = mem[o]
         /\ \A o \in Mems \ {m} : Open(o) => Untouched(o)
<1>1. mem \in [Mems -> Mem] /\ mem[m] \in Mem
  BY DEF MemInv, MemTypeOK
<1>2. /\ Open(m) /\ ValidPrefix(m, e) /\ faults' = faults
      /\ writable' = writable \ Range0(mem[m].first, e)
      /\ mem' = [mem EXCEPT ![m].executable = TRUE, ![m].execSize = e]
  BY DEF ProtectExec
<1>3. /\ mem'[m].executable /\ mem'[m].execSize = e
      /\ mem'[m].first = mem[m].first /\ mem'[m].size = mem[m].size
      /\ mem'[m].state = mem[m].state
  BY <1>1, <1>2 DEF Mem
<1>4. \A o \in Mems \ {m} : mem'[o] = mem[o]
  BY <1>1, <1>2
<1>5. Range0(mem[m].first, e) \subseteq Own(m)
  BY <1>1, <1>2, MemInvFacts DEF ValidPrefix, Range0, Own
<1>6. ASSUME NEW o \in Mems \ {m}, Open(o)
      PROVE  Untouched(o)
  <2>1. Own(o) \cap Own(m) = {}
    BY <1>2, <1>6, Shrinks
  <2> QED BY <2>1, <1>2, <1>4, <1>5 DEF Untouched
<1>7. Open(m)'
  BY <1>2, <1>3 DEF Open
<1> QED BY <1>2, <1>3, <1>4, <1>6, <1>7

LEMMA CloseEffect ==
  ASSUME MemInv, NEW m \in Mems, Close(m)
  PROVE  /\ mem'[m].first = mem[m].first /\ mem'[m].state # "unborn" /\ ~Open(m)'
         /\ faults' = faults
         /\ \A o \in Mems \ {m} : mem'[o] = mem[o]
         /\ \A o \in Mems \ {m} : Open(o) => Untouched(o)
<1>1. mem \in [Mems -> Mem] /\ mem[m] \in Mem /\ mem[m].state # "unborn"
      /\ faults' = faults
  BY DEF MemInv, MemTypeOK, Close
<1>2. CASE Open(m)
  <2>1. /\ writable' = writable \ Own(m)
        /\ mem' = [mem EXCEPT ![m].state = "closed"]
    BY <1>2 DEF Close, Frees
  <2>2. mem'[m].first = mem[m].first /\ mem'[m].state = "closed"
    BY <1>1, <2>1 DEF Mem
  <2>3. \A o \in Mems \ {m} : mem'[o] = mem[o]
    BY <1>1, <2>1
  <2>4. ASSUME NEW o \in Mems \ {m}, Open(o)
        PROVE  Untouched(o)
    <3>1. Own(o) \cap Own(m) = {}
      BY <1>2, <2>4, Shrinks
    <3> QED BY <3>1, <2>1, <2>3 DEF Untouched
  <2> QED BY <1>1, <2>2, <2>3, <2>4 DEF Open
<1>3. CASE ~Open(m)
  BY <1>1, <1>3 DEF Close, Frees, Untouched, Open
<1> QED BY <1>2, <1>3

\* A write hits no page it may not when all pages but the protected prefix
\* are writable.
LEMMA WriteHitsWritable ==
  ASSUME MemInv, NEW m \in Mems, NEW off \in Nat, NEW len \in Nat, Write(m, off, len),
         \A p \in Own(m) : \/ p \in writable
                           \/ mem[m].executable /\ p \in Range0(mem[m].first, mem[m].execSize)
  PROVE  faults' = faults
<1>1. mem[m].first \in Nat /\ mem[m].size \in Nat /\ mem[m].execSize \in Nat
  BY MemInvFacts
<1>2. PageSize \in Nat \ {0}
  BY MemoryAssumption
<1>3. Open(m) /\ off + len <= mem[m].size * PageSize
      /\ (mem[m].executable => off >= mem[m].execSize * PageSize)
  BY <1>1, <1>2 DEF Write, Accepts
<1>4. ASSUME NEW p \in Touched(m, off, len)
      PROVE  owner[p] = m /\ p \in writable
  <2>1. PICK i \in off .. off + len - 1 : p = mem[m].first + (i \div PageSize)
    BY <1>4 DEF Touched
  <2> DEFINE q == i \div PageSize
  <2>2. i \in Nat /\ off <= i /\ i < off + len
    OBVIOUS
  <2>3. i < mem[m].size * PageSize /\ 0 * PageSize <= i
    BY <1>1, <1>2, <1>3, <2>2
  <2>4. q \in Int /\ 0 <= q /\ q < mem[m].size
    BY <1>1, <1>2, <2>2, <2>3, PageBetween
  <2>5. mem[m].executable => mem[m].execSize <= q
    <3>1. SUFFICES ASSUME mem[m].executable PROVE mem[m].execSize <= q
      OBVIOUS
    <3>2. mem[m].execSize * PageSize <= i
      BY <1>1, <1>2, <1>3, <2>2, <3>1
    <3> QED BY <1>1, <1>2, <2>2, <2>3, <3>2, PageBetween
  <2> HIDE DEF q
  <2>6. p = mem[m].first + q
    BY <2>1 DEF q
  <2>7. p \in Own(m)
    BY <1>1, <2>4, <2>6 DEF Own, Range0
  <2>8. mem[m].executable => p \notin Range0(mem[m].first, mem[m].execSize)
    BY <1>1, <2>4, <2>5, <2>6 DEF Range0
  <2>9. p \in writable
    BY <2>7, <2>8
  <2>10. p \in Pages
    BY <2>9 DEF MemInv, MemTypeOK
  <2>11. owner[p] = m
    BY <1>3, <2>7, <2>10 DEF MemInv, OwnsItsPages
  <2> QED BY <2>9, <2>11
<1> QED BY <1>4 DEF Write

-----------------------------------------------------------------------------
(* Facts of the invariant, and what preserves its parts                     *)

LEMMA LoadFacts ==
  ASSUME LoaderInv, NEW t \in Threads, load[t].step # "idle"
  PROVE  /\ load[t].mem \in Mems /\ load[t].prog \in Programs
         /\ load[t] = [step |-> load[t].step, mem |-> load[t].mem, prog |-> load[t].prog]
         /\ load[t].step \in {"link", "write", "protect", "failed"}
<1>1. load[t] \in LoadStates /\ load[t] # NoLoad
  BY DEF LoaderInv, LoaderTypeOK, NoLoad
<1>2. load[t] \in [step : {"link", "write", "protect", "failed"}, mem : Mems, prog : Programs]
  BY <1>1 DEF LoadStates
<1> QED BY <1>2

LEMMA ModuleFacts ==
  ASSUME LoaderInv, NEW m \in Mems, module[m].state # "none"
  PROVE  /\ module[m].prog \in Programs /\ module[m].held \in BOOLEAN
         /\ module[m].closed \in BOOLEAN /\ module[m].state \in {"alive", "gone"}
         /\ module[m] \in [state : {"alive", "gone"}, held : BOOLEAN, closed : BOOLEAN,
                            prog : Programs]
         /\ module[m] # NotLoaded /\ mem[m].state # "unborn"
         /\ module[m].prog.size \in Nat
<1>1. module[m] \in ModuleStates /\ module[m] # NotLoaded
  BY DEF LoaderInv, LoaderTypeOK, NotLoaded
<1>2. module[m] \in [state : {"alive", "gone"}, held : BOOLEAN, closed : BOOLEAN,
                     prog : Programs]
  BY <1>1 DEF ModuleStates
<1>3. mem[m].state # "unborn"
  BY <1>1 DEF LoaderInv, ModulesReady, ModuleReady
<1>4. module[m].prog \in Programs
  BY <1>2
<1>5. module[m].prog.size \in Nat
  BY <1>4, LoaderAssumption
<1> QED BY <1>1, <1>2, <1>3, <1>4, <1>5

LEMMA InvMem == LoaderInv => MemInv
BY DEF LoaderInv, MemInv

\* Loads over other memories than m are not disturbed by an operation on m.
LEMMA OtherLoads ==
  ASSUME LoaderInv, NEW m \in Mems,
         \A o \in Mems \ {m} : module'[o] = module[o] /\ mem'[o] = mem[o],
         \A o \in Mems \ {m} : Open(o) => Untouched(o),
         \A t \in Threads : load'[t].step # "idle" =>
           /\ load[t].step # "idle" /\ load[t].mem # m
           /\ load'[t].mem = load[t].mem /\ load'[t].prog = load[t].prog
  PROVE  LoadsApart'
<1> SUFFICES ASSUME NEW t \in Threads, load'[t].step # "idle"
             PROVE  LoadApart(t, load[t].mem)' /\ load'[t].mem = load[t].mem
  BY DEF LoadsApart
<1>1. load[t].step # "idle" /\ load'[t].mem = load[t].mem /\ load[t].mem # m
      /\ load'[t].prog = load[t].prog
  OBVIOUS
<1>2. PICK o \in Mems \ {m} : o = load[t].mem
  BY <1>1, LoadFacts
<1>3. LoadApart(t, o)
  BY <1>1, <1>2 DEF LoaderInv, LoadsApart
<1>4. mem'[o] = mem[o] /\ module'[o] = module[o] /\ Untouched(o)
  BY <1>2, <1>3 DEF LoadApart
<1>5. Own(o)' = Own(o) /\ Open(o)'
  BY <1>3, <1>4 DEF Own, Open, LoadApart
<1>6. Own(o)' \subseteq writable'
  BY <1>3, <1>4, <1>5 DEF Untouched, LoadApart
<1>7. \A u \in Threads \ {t} : load'[u].step # "idle" => load'[u].mem # o
  BY <1>3 DEF LoadApart
<1>8. load'[t].prog.size <= mem'[o].size * PageSize /\ ~mem'[o].executable
      /\ module'[o] = NotLoaded
  BY <1>1, <1>3, <1>4 DEF LoadApart
<1>9. LoadApart(t, o)'
  BY <1>5, <1>6, <1>7, <1>8 DEF LoadApart
<1> QED BY <1>1, <1>2, <1>9

\* Nor are modules over other memories.
LEMMA OtherModules ==
  ASSUME LoaderInv, NEW m \in Mems, NEW o \in Mems \ {m},
         module'[o] = module[o], mem'[o] = mem[o], Open(o) => Untouched(o)
  PROVE  ModuleReady(o)'
<1>1. mem[o].state = "unborn" => module[o] = NotLoaded
  BY DEF LoaderInv, ModulesReady, ModuleReady
<1>2. ASSUME module[o].state = "alive", ~module[o].closed
      PROVE  /\ Open(o) /\ mem[o].executable
             /\ mem[o].execSize = module[o].prog.exec \div PageSize
             /\ module[o].prog.size <= mem[o].size * PageSize
             /\ Own(o) \ Range0(mem[o].first, mem[o].execSize) \subseteq writable
  BY <1>2 DEF LoaderInv, ModulesReady, ModuleReady
<1>3. Own(o)' = Own(o) /\ (Open(o)' <=> Open(o))
  BY DEF Own, Open
<1> QED BY <1>1, <1>2, <1>3 DEF Untouched, ModuleReady

\* Entries stay entries while modules stay alive where they are.
LEMMA EntriesKept ==
  ASSUME LoaderInv,
         \A h \in Handles : handle'[h].state = "held" =>
           /\ handle[h].state = "held" /\ handle'[h].module = handle[h].module
           /\ handle'[h].at = handle[h].at,
         taking' = taking,
         \A d \in Defs : def[d] = "used" => def'[d] = "used",
         \A o \in Mems : module[o].state = "alive" /\ mem[o].state # "unborn" =>
           /\ mem'[o].first = mem[o].first
           /\ module'[o].prog = module[o].prog,
         \A h \in Handles : handle'[h].state = "held" =>
           module'[handle[h].module].state = "alive",
         \A t \in Threads : taking[t].step = "publish" =>
           module'[taking[t].module].state = "alive"
  PROVE  EntriesLive'
<1>1. ASSUME NEW o \in Mems, NEW at, EntryOf(o, at), module'[o].state = "alive"
      PROVE  EntryOf(o, at)'
  <2>1. module[o].state = "alive" /\ mem[o].state # "unborn"
    BY <1>1, ModuleFacts DEF EntryOf
  <2>2. Base(o)' = Base(o)
    BY <2>1 DEF Base
  <2> QED BY <1>1, <2>1, <2>2 DEF EntryOf
<1>2. ASSUME NEW h \in Handles, handle'[h].state = "held"
      PROVE  EntryOf(handle[h].module, handle[h].at)'
  <2>1. EntryOf(handle[h].module, handle[h].at)
    BY <1>2 DEF LoaderInv, EntriesLive
  <2> QED BY <1>1, <1>2, <2>1 DEF EntryOf
<1>3. ASSUME NEW t \in Threads, taking[t].step = "publish"
      PROVE  EntryOf(taking[t].module, taking[t].at)' /\ def'[taking[t].def] = "used"
  <2>1. EntryOf(taking[t].module, taking[t].at) /\ def[taking[t].def] = "used"
    BY <1>3 DEF LoaderInv, EntriesLive
  <2>2. taking[t].def \in Defs
    <3>1. taking[t] \in TakingStates /\ taking[t] # NoTaking
      BY <1>3 DEF LoaderInv, LoaderTypeOK, NoTaking
    <3> QED BY <3>1 DEF TakingStates
  <2> QED BY <1>1, <1>3, <2>1, <2>2 DEF EntryOf
<1> QED BY <1>2, <1>3 DEF EntriesLive

\* The table keeps what builtins use while neither changes.
LEMMA TableKept ==
  ASSUME LoaderInv, table' = table, def' = def,
         \A h \in Handles : handle'[h].builtin /\ handle'[h].state \in {"held", "attached", "dying"} =>
           /\ handle[h].builtin /\ handle[h].state \in {"held", "attached", "dying"}
           /\ handle'[h].at = handle[h].at /\ handle'[h].def = handle[h].def
  PROVE  TableUsed' /\ MethodDefsOutlive'
<1>1. TableUsed'
  BY DEF LoaderInv, TableUsed
<1>2. MethodDefsOutlive'
  BY DEF LoaderInv, MethodDefsOutlive
<1> QED BY <1>1, <1>2

\* Steps that touch neither memory, loads nor modules.
LEMMA MemoryKept ==
  ASSUME LoaderInv, UNCHANGED <<memVars, load, module>>
  PROVE  MemInv' /\ LoadsApart' /\ ModulesReady' /\ NoLeak' /\ NoFault'
<1>1. owner' = owner /\ writable' = writable /\ mem' = mem /\ faults' = faults
      /\ load' = load /\ module' = module
  BY DEF memVars
<1>2. MemInv'
  BY InvMem, StutterKeeps
<1>3. \A m : Open(m)' = Open(m) /\ Own(m)' = Own(m)
  BY <1>1 DEF Open, Own
<1>4. LoadsApart'
  BY <1>1, <1>3 DEF LoaderInv, LoadsApart, LoadApart
<1>5. ModulesReady'
  BY <1>1, <1>3 DEF LoaderInv, ModulesReady, ModuleReady
<1>6. NoLeak' /\ NoFault'
  BY <1>1, <1>3 DEF LoaderInv, NoLeak, Owned, NoFault
<1> QED BY <1>2, <1>4, <1>5, <1>6

\* Memories other than m are owned as before.
LEMMA OtherOwners ==
  ASSUME LoaderInv, NEW m \in Mems, NEW o \in Mems \ {m},
         module'[o] = module[o], mem'[o] = mem[o],
         \A t \in Threads : load[t].step # "idle" /\ load[t].mem = o =>
           load'[t].step # "idle" /\ load'[t].mem = o
  PROVE  Owned(o)'
<1>1. Owned(o) /\ (Open(o)' <=> Open(o))
  BY DEF LoaderInv, NoLeak, Open
<1> QED BY <1>1 DEF Owned

\* NoLeak follows from what is owned and ready.
LEMMA LeakFromReady ==
  ASSUME ModulesReady', \A m \in Mems : Owned(m)'
  PROVE  NoLeak'
BY DEF ModulesReady, ModuleReady, NoLeak

-----------------------------------------------------------------------------
(* The steps of load                                                        *)

LEMMA LoadMapKeeps ==
  ASSUME LoaderInv, NEW t \in Threads, NEW m \in Mems, NEW p \in Programs, LoadMap(t, m, p)
  PROVE  LoaderInv'
<1> DEFINE new == [step |-> "link", mem |-> m, prog |-> p]
<1>1. p.size \in Nat
  BY LoaderAssumption
<1>2. Map(m, p.size) /\ load[t] = NoLoad /\ load' = [load EXCEPT ![t] = new]
      /\ UNCHANGED <<module, handle, taking, table, def>>
  BY DEF LoadMap
<1>3. MemInv
  BY InvMem
<1>4. MemInv'
  BY <1>1, <1>2, <1>3, MapKeeps
<1>5. /\ mem[m].state = "unborn" /\ Open(m)' /\ ~mem'[m].executable
      /\ Own(m)' \subseteq writable' /\ p.size <= mem'[m].size * PageSize
      /\ faults' = faults
      /\ \A o \in Mems \ {m} : mem'[o] = mem[o]
      /\ writable \subseteq writable'
  BY <1>1, <1>2, <1>3, MapEffect
<1>6. load \in [Threads -> LoadStates] /\ new \in LoadStates /\ new.step # "idle"
  BY DEF LoaderInv, LoaderTypeOK, LoadStates
<1>7. load'[t] = new /\ \A u \in Threads \ {t} : load'[u] = load[u]
  BY <1>2, <1>6
<1>8. LoaderTypeOK'
  BY <1>2, <1>6 DEF LoaderInv, LoaderTypeOK
<1>9. module[m] = NotLoaded
  BY <1>5 DEF LoaderInv, ModulesReady, ModuleReady
<1>10. \A o \in Mems \ {m} : Untouched(o)
  BY <1>5 DEF Untouched
<1>11. ASSUME NEW u \in Threads \ {t}, load[u].step # "idle"
       PROVE  load[u].mem \in Mems \ {m}
  <2>1. load[u].mem \in Mems /\ Open(load[u].mem)
    BY <1>11, LoadFacts DEF LoaderInv, LoadsApart, LoadApart
  <2> QED BY <2>1, <1>5 DEF Open
<1>12. LoadsApart'
  <2> SUFFICES ASSUME NEW u \in Threads, load'[u].step # "idle"
               PROVE  LoadApart(u, load[u].mem)'
    BY DEF LoadsApart
  <2>1. CASE u = t
    <3>1. load'[t].prog.size <= mem'[m].size * PageSize /\ module'[m] = NotLoaded
      BY <1>2, <1>5, <1>7, <1>9
    <3>2. \A v \in Threads \ {t} : load'[v].step # "idle" => load'[v].mem # m
      BY <1>7, <1>11
    <3>3. LoadApart(t, m)'
      BY <3>1, <3>2, <1>5 DEF LoadApart
    <3>4. load'[u].mem = m
      BY <2>1, <1>7
    <3> QED BY <2>1, <3>3, <3>4
  <2>2. CASE u # t
    <3>1. load[u].step # "idle" /\ load'[u] = load[u]
      BY <2>2, <1>7
    <3>2. PICK o \in Mems \ {m} : o = load[u].mem
      BY <2>2, <3>1, <1>11
    <3>3. LoadApart(u, o)
      BY <3>1, <3>2 DEF LoaderInv, LoadsApart
    <3>4. mem'[o] = mem[o] /\ module'[o] = module[o]
      BY <1>2, <1>5, <3>2
    <3>5. Open(o)' /\ Own(o)' = Own(o)
      BY <3>3, <3>4 DEF LoadApart, Open, Own
    <3>6. \A v \in Threads \ {u} : load'[v].step # "idle" => load'[v].mem # o
      BY <1>7, <3>2, <3>3 DEF LoadApart
    <3>7. LoadApart(u, o)'
      BY <1>5, <3>1, <3>3, <3>4, <3>5, <3>6 DEF LoadApart
    <3>8. load'[u].mem = o
      BY <3>1, <3>2
    <3> QED BY <3>7, <3>8
  <2> QED BY <2>1, <2>2
<1>13. ModulesReady'
  <2>1. ModuleReady(m)'
    BY <1>2, <1>9 DEF ModuleReady, NotLoaded
  <2>2. ASSUME NEW o \in Mems \ {m} PROVE ModuleReady(o)'
    BY <1>2, <1>5, <1>10, OtherModules
  <2> QED BY <2>1, <2>2 DEF ModulesReady
<1>14. NoLeak'
  <2>1. Owned(m)'
    BY <1>6, <1>7 DEF Owned
  <2>2. ASSUME NEW o \in Mems \ {m} PROVE Owned(o)'
    <3>1. \A u \in Threads : load[u].step # "idle" /\ load[u].mem = o =>
            load'[u].step # "idle" /\ load'[u].mem = o
      BY <1>2, <1>7 DEF NoLoad
    <3> QED BY <3>1, <1>2, <1>5, OtherOwners
  <2> QED BY <2>1, <2>2, <1>13, LeakFromReady
<1>15. EntriesLive'
  <2>1. \A o \in Mems : module[o].state = "alive" /\ mem[o].state # "unborn" =>
          mem'[o].first = mem[o].first /\ module'[o].prog = module[o].prog
    BY <1>2, <1>5
  <2>2. \A h \in Handles : handle[h].state = "held" => module[handle[h].module].state = "alive"
    BY DEF LoaderInv, EntriesLive, EntryOf
  <2>3. \A u \in Threads : taking[u].step = "publish" => module[taking[u].module].state = "alive"
    BY DEF LoaderInv, EntriesLive, EntryOf
  <2> QED BY <1>2, <2>1, <2>2, <2>3, EntriesKept
<1>16. TableUsed' /\ MethodDefsOutlive'
  BY <1>2, TableKept
<1>17. NoFault'
  BY <1>5 DEF LoaderInv, NoFault
<1> QED BY <1>4, <1>8, <1>12, <1>13, <1>14, <1>15, <1>16, <1>17 DEF LoaderInv, MemInv

\* A load that goes on to its next step with the memory as it is.
LEMMA StepKeeps ==
  ASSUME LoaderInv, NEW t \in Threads, NEW step \in {"link", "write", "protect", "failed"},
         load[t].step # "idle", Step(t, step),
         UNCHANGED <<memVars, module, handle, taking, table, def>>
  PROVE  LoaderInv'
<1>1. /\ load[t].mem \in Mems /\ load[t].prog \in Programs
      /\ load[t] = [step |-> load[t].step, mem |-> load[t].mem, prog |-> load[t].prog]
  BY LoadFacts
<1>2. load \in [Threads -> LoadStates]
  BY DEF LoaderInv, LoaderTypeOK
<1> DEFINE new == [step |-> step, mem |-> load[t].mem, prog |-> load[t].prog]
<1>3. load' = [load EXCEPT ![t] = new]
  <2>1. load' = [load EXCEPT ![t] = [load[t] EXCEPT !.step = step]]
    BY <1>2 DEF Step
  <2>2. [load[t] EXCEPT !.step = step] = new
    BY <1>1
  <2> QED BY <2>1, <2>2
<1>4. new \in LoadStates /\ new.step # "idle" /\ new.mem = load[t].mem
      /\ new.prog = load[t].prog
  BY <1>1 DEF LoadStates
<1> HIDE DEF new
<1>5. load' \in [Threads -> LoadStates] /\ load'[t] = new
      /\ \A u \in Threads \ {t} : load'[u] = load[u]
  BY <1>2, <1>3, <1>4
<1>6. \A u \in Threads : /\ load'[u].step = "idle" <=> load[u].step = "idle"
                         /\ load[u].step # "idle" =>
                              load'[u].mem = load[u].mem /\ load'[u].prog = load[u].prog
  BY <1>4, <1>5
<1>7. owner' = owner /\ writable' = writable /\ mem' = mem /\ faults' = faults
      /\ module' = module
  BY DEF memVars
<1>8. \A o : Open(o)' = Open(o) /\ Own(o)' = Own(o)
  BY <1>7 DEF Open, Own
<1>9. MemInv'
  BY InvMem, StutterKeeps
<1>10. LoaderTypeOK'
  BY <1>5 DEF LoaderInv, LoaderTypeOK
<1>11. LoadsApart'
  <2> SUFFICES ASSUME NEW u \in Threads, load'[u].step # "idle"
               PROVE  LoadApart(u, load[u].mem)'
    BY DEF LoadsApart
  <2>1. PICK o \in Mems : o = load[u].mem
    BY <1>6, LoadFacts
  <2>2. LoadApart(u, o)
    BY <1>6, <2>1 DEF LoaderInv, LoadsApart
  <2>3. LoadApart(u, o)'
    BY <1>6, <1>7, <1>8, <2>2 DEF LoadApart
  <2>4. load'[u].mem = o
    BY <1>6, <2>1
  <2> QED BY <2>3, <2>4
<1>12. ModulesReady'
  BY <1>7, <1>8 DEF LoaderInv, ModulesReady, ModuleReady
<1>13. NoLeak'
  BY <1>6, <1>7, <1>8 DEF LoaderInv, NoLeak, Owned
<1>14. EntriesLive'
  <2>1. \A h \in Handles : handle[h].state = "held" => module[handle[h].module].state = "alive"
    BY DEF LoaderInv, EntriesLive, EntryOf
  <2>2. \A u \in Threads : taking[u].step = "publish" => module[taking[u].module].state = "alive"
    BY DEF LoaderInv, EntriesLive, EntryOf
  <2> QED BY <1>7, <2>1, <2>2, EntriesKept
<1>15. TableUsed' /\ MethodDefsOutlive'
  BY TableKept
<1>16. NoFault'
  BY <1>7 DEF LoaderInv, NoFault
<1> QED BY <1>9, <1>10, <1>11, <1>12, <1>13, <1>14, <1>15, <1>16 DEF LoaderInv, MemInv

LEMMA LoadLinkKeeps ==
  ASSUME LoaderInv, NEW t \in Threads, LoadLink(t)
  PROVE  LoaderInv'
<1>1. load[t].step # "idle" /\ Step(t, "write")
      /\ UNCHANGED <<memVars, module, handle, taking, table, def>>
  BY DEF LoadLink
<1> QED BY <1>1, StepKeeps

LEMMA LoadProtectFailsKeeps ==
  ASSUME LoaderInv, NEW t \in Threads, LoadProtectFails(t)
  PROVE  LoaderInv'
<1>1. load[t].step # "idle" /\ Step(t, "failed")
      /\ UNCHANGED <<memVars, module, handle, taking, table, def>>
  BY DEF LoadProtectFails, ProtectFails, FlagsOnFailure, memVars
<1> QED BY <1>1, StepKeeps

\* The image fits in memory that is still all writable.
LEMMA LoadWriteKeeps ==
  ASSUME LoaderInv, NEW t \in Threads, LoadWrite(t)
  PROVE  LoaderInv'
<1> DEFINE m == load[t].mem
<1>1. load[t].step # "idle" /\ Step(t, "protect") /\ Write(m, 0, load[t].prog.size)
      /\ UNCHANGED <<module, handle, taking, table, def>>
  BY DEF LoadWrite
<1>2. m \in Mems /\ load[t].prog.size \in Nat
  BY <1>1, LoadFacts, LoaderAssumption
<1>3. Own(m) \subseteq writable
  BY <1>1 DEF LoaderInv, LoadsApart, LoadApart
<1> HIDE DEF m
<1>4. faults' = faults
  BY <1>1, <1>2, <1>3, InvMem, WriteHitsWritable
<1>5. UNCHANGED memVars
  BY <1>1, <1>4 DEF Write, memVars
<1> QED BY <1>1, <1>5, StepKeeps

\* The end of load: the module takes the memory over from the load.
LEMMA LoadProtectKeeps ==
  ASSUME LoaderInv, NEW t \in Threads, LoadProtect(t)
  PROVE  LoaderInv'
<1> DEFINE prog == load[t].prog
           e == prog.exec \div PageSize
           new == [state |-> "alive", held |-> TRUE, closed |-> FALSE, prog |-> prog]
<1>1. PICK m \in Mems : m = load[t].mem
  BY LoadFacts DEF LoadProtect
<1>2. /\ load[t].step = "protect" /\ ProtectExec(m, e)
      /\ load' = [load EXCEPT ![t] = NoLoad]
      /\ module' = [module EXCEPT ![m] = new]
      /\ UNCHANGED <<handle, taking, table, def>>
  BY <1>1 DEF LoadProtect
<1>3. prog \in Programs /\ e \in Nat
  <2>1. prog \in Programs
    BY <1>2, LoadFacts
  <2>2. prog.exec \in Nat /\ PageSize \in Nat \ {0}
    BY <2>1, LoaderAssumption, MemoryAssumption
  <2>3. e \in Int /\ (e * PageSize <= prog.exec) /\ prog.exec < e * PageSize + PageSize
    BY <2>2, PageOfByte
  <2> HIDE DEF e
  <2>4. 0 * PageSize < e * PageSize + PageSize
    BY <2>2, <2>3
  <2>5. 0 < e + 1
    BY <2>2, <2>3, <2>4, NextPage
  <2> QED BY <2>1, <2>3, <2>5
<1> HIDE DEF e
<1>4. LoadApart(t, m)
  BY <1>1, <1>2 DEF LoaderInv, LoadsApart
<1>5. MemInv
  BY InvMem
<1>6. /\ Open(m)' /\ mem'[m].executable /\ mem'[m].execSize = e
      /\ mem'[m].first = mem[m].first /\ mem'[m].size = mem[m].size
      /\ mem'[m].state = mem[m].state
      /\ writable' = writable \ Range0(mem[m].first, e)
      /\ faults' = faults
      /\ \A o \in Mems \ {m} : mem'[o] = mem[o]
      /\ \A o \in Mems \ {m} : Open(o) => Untouched(o)
  BY <1>2, <1>3, <1>5, ProtectEffect
<1>7. MemInv'
  BY <1>2, <1>3, <1>5, ProtectKeeps
<1>8. load \in [Threads -> LoadStates] /\ module \in [Mems -> ModuleStates]
  BY DEF LoaderInv, LoaderTypeOK
<1>9. load'[t] = NoLoad /\ \A u \in Threads \ {t} : load'[u] = load[u]
  BY <1>2, <1>8
<1>10. module'[m] = new /\ \A o \in Mems \ {m} : module'[o] = module[o]
  BY <1>2, <1>8
<1>11. LoaderTypeOK'
  <2>1. NoLoad \in LoadStates
    BY DEF LoadStates
  <2>2. new \in ModuleStates
    BY <1>3 DEF ModuleStates
  <2> HIDE DEF new
  <2>3. load' \in [Threads -> LoadStates]
    BY <1>2, <1>8, <2>1
  <2>4. module' \in [Mems -> ModuleStates]
    BY <1>2, <1>8, <2>2
  <2> QED BY <1>2, <2>3, <2>4 DEF LoaderInv, LoaderTypeOK
<1>12. LoadsApart'
  <2>1. \A u \in Threads : load'[u].step # "idle" =>
          /\ load[u].step # "idle" /\ load[u].mem # m
          /\ load'[u].mem = load[u].mem /\ load'[u].prog = load[u].prog
    BY <1>4, <1>9 DEF LoadApart, NoLoad
  <2> QED BY <2>1, <1>6, <1>10, OtherLoads
<1>13. ModulesReady'
  <2>1. ModuleReady(m)'
    <3>1. Own(m)' = Own(m)
      BY <1>6 DEF Own
    <3>2. Own(m)' \ Range0(mem'[m].first, mem'[m].execSize) \subseteq writable'
      BY <1>4, <1>6, <3>1 DEF LoadApart
    <3>3. prog.size <= mem'[m].size * PageSize
      BY <1>4, <1>6 DEF LoadApart
    <3>4. mem'[m].state # "unborn"
      BY <1>6 DEF Open
    <3> QED BY <1>6, <1>10, <3>2, <3>3, <3>4 DEF ModuleReady, e
  <2>2. ASSUME NEW o \in Mems \ {m} PROVE ModuleReady(o)'
    BY <1>6, <1>10, OtherModules
  <2> QED BY <2>1, <2>2 DEF ModulesReady
<1>14. NoLeak'
  <2>1. Owned(m)'
    BY <1>10 DEF Owned
  <2>2. ASSUME NEW o \in Mems \ {m} PROVE Owned(o)'
    <3>1. \A u \in Threads : load[u].step # "idle" /\ load[u].mem = o =>
            load'[u].step # "idle" /\ load'[u].mem = o
      BY <1>1, <1>9
    <3> QED BY <3>1, <1>6, <1>10, OtherOwners
  <2> QED BY <2>1, <2>2, <1>13, LeakFromReady
<1>15. EntriesLive'
  <2>1. module[m].state # "alive"
    BY <1>4 DEF LoadApart, NotLoaded
  <2>2. \A o \in Mems : module[o].state = "alive" /\ mem[o].state # "unborn" =>
          mem'[o].first = mem[o].first /\ module'[o].prog = module[o].prog
    BY <1>6, <1>10, <2>1
  <2>3. \A o \in Mems : module[o].state = "alive" => module'[o].state = "alive"
    BY <1>10, <2>1
  <2>4. \A h \in Handles : handle[h].state = "held" => module'[handle[h].module].state = "alive"
    BY <2>3 DEF LoaderInv, EntriesLive, EntryOf
  <2>5. \A u \in Threads : taking[u].step = "publish" => module'[taking[u].module].state = "alive"
    BY <2>3 DEF LoaderInv, EntriesLive, EntryOf
  <2> QED BY <1>2, <2>2, <2>4, <2>5, EntriesKept
<1>16. TableUsed' /\ MethodDefsOutlive'
  BY <1>2, TableKept
<1>17. NoFault'
  BY <1>6 DEF LoaderInv, NoFault
<1> QED BY <1>7, <1>11, <1>12, <1>13, <1>14, <1>15, <1>16, <1>17 DEF LoaderInv, MemInv

\* What a step preserves that closes m, unless m's module goes on being used.
LEMMA ClosingKeeps ==
  ASSUME LoaderInv, NEW m \in Mems, Close(m),
         \A o \in Mems \ {m} : module'[o] = module[o],
         module'[m].state = "alive" => module'[m].closed,
         \A t \in Threads : load'[t].step # "idle" =>
           /\ load[t].step # "idle" /\ load[t].mem # m
           /\ load'[t].mem = load[t].mem /\ load'[t].prog = load[t].prog,
         \A t \in Threads : load[t].step # "idle" /\ load[t].mem # m =>
           load'[t].step # "idle" /\ load'[t].mem = load[t].mem
  PROVE  /\ MemInv' /\ LoadsApart' /\ ModulesReady' /\ NoLeak' /\ NoFault'
         /\ \A o \in Mems : mem'[o].first = mem[o].first
<1>1. MemInv
  BY InvMem
<1>2. MemInv'
  BY <1>1, CloseKeeps
<1>3. /\ mem'[m].first = mem[m].first /\ mem'[m].state # "unborn" /\ ~Open(m)'
      /\ faults' = faults
      /\ \A o \in Mems \ {m} : mem'[o] = mem[o]
      /\ \A o \in Mems \ {m} : Open(o) => Untouched(o)
  BY <1>1, CloseEffect
<1>4. LoadsApart'
  BY <1>3, OtherLoads
<1>5. ModulesReady'
  <2>1. ModuleReady(m)'
    BY <1>3 DEF ModuleReady
  <2>2. ASSUME NEW o \in Mems \ {m} PROVE ModuleReady(o)'
    BY <1>3, OtherModules
  <2> QED BY <2>1, <2>2 DEF ModulesReady
<1>6. NoLeak'
  <2>1. Owned(m)'
    BY <1>3 DEF Owned
  <2>2. ASSUME NEW o \in Mems \ {m} PROVE Owned(o)'
    BY <1>3, OtherOwners
  <2> QED BY <2>1, <2>2, <1>5, LeakFromReady
<1>7. NoFault'
  BY <1>3 DEF LoaderInv, NoFault
<1>8. \A o \in Mems : mem'[o].first = mem[o].first
  BY <1>3
<1> QED BY <1>2, <1>4, <1>5, <1>6, <1>7, <1>8

LEMMA LoadFailsKeeps ==
  ASSUME LoaderInv, NEW t \in Threads, LoadFails(t)
  PROVE  LoaderInv'
<1>1. PICK m \in Mems : m = load[t].mem
  BY LoadFacts DEF LoadFails
<1>2. /\ load[t].step # "idle" /\ Close(m) /\ load' = [load EXCEPT ![t] = NoLoad]
      /\ UNCHANGED <<module, handle, taking, table, def>>
  BY <1>1 DEF LoadFails, ReleasesMemory
<1>3. LoadApart(t, m)
  BY <1>1, <1>2 DEF LoaderInv, LoadsApart
<1>4. load \in [Threads -> LoadStates]
  BY DEF LoaderInv, LoaderTypeOK
<1>5. load'[t] = NoLoad /\ \A u \in Threads \ {t} : load'[u] = load[u]
  BY <1>2, <1>4
<1>6. \A u \in Threads : load'[u].step # "idle" =>
        /\ load[u].step # "idle" /\ load[u].mem # m
        /\ load'[u].mem = load[u].mem /\ load'[u].prog = load[u].prog
  BY <1>3, <1>5 DEF LoadApart, NoLoad
<1>7. \A u \in Threads : load[u].step # "idle" /\ load[u].mem # m =>
        load'[u].step # "idle" /\ load'[u].mem = load[u].mem
  BY <1>1, <1>5
<1>8. module'[m].state # "alive"
  BY <1>2, <1>3 DEF LoadApart, NotLoaded
<1>9. /\ MemInv' /\ LoadsApart' /\ ModulesReady' /\ NoLeak' /\ NoFault'
      /\ \A o \in Mems : mem'[o].first = mem[o].first
  BY <1>2, <1>6, <1>7, <1>8, ClosingKeeps
<1>10. LoaderTypeOK'
  <2>1. NoLoad \in LoadStates
    BY DEF LoadStates
  <2>2. load' \in [Threads -> LoadStates]
    BY <1>2, <1>4, <2>1
  <2> QED BY <1>2, <2>2 DEF LoaderInv, LoaderTypeOK
<1>11. EntriesLive'
  <2>1. \A h \in Handles : handle[h].state = "held" => module[handle[h].module].state = "alive"
    BY DEF LoaderInv, EntriesLive, EntryOf
  <2>2. \A u \in Threads : taking[u].step = "publish" => module[taking[u].module].state = "alive"
    BY DEF LoaderInv, EntriesLive, EntryOf
  <2> QED BY <1>2, <1>9, <2>1, <2>2, EntriesKept
<1>12. TableUsed' /\ MethodDefsOutlive'
  BY <1>2, TableKept
<1> QED BY <1>9, <1>10, <1>11, <1>12 DEF LoaderInv, MemInv

-----------------------------------------------------------------------------
(* Module.close and the collection of a module                              *)

\* No load is over the memory of a module.
LEMMA NotLoading ==
  ASSUME LoaderInv, NEW m \in Mems, module[m] # NotLoaded, NEW t \in Threads,
         load[t].step # "idle"
  PROVE  load[t].mem # m
<1>1. module[load[t].mem] = NotLoaded
  BY DEF LoaderInv, LoadsApart, LoadApart
<1> QED BY <1>1

LEMMA CloseModuleKeeps ==
  ASSUME LoaderInv, NEW m \in Mems, CloseModule(m)
  PROVE  LoaderInv'
<1>1. /\ module[m].state = "alive" /\ Close(m)
      /\ module' = [module EXCEPT ![m].closed = TRUE]
      /\ UNCHANGED <<load, handle, taking, table, def>>
  BY DEF CloseModule, Reachable
<1>2. /\ module[m] \in [state : {"alive", "gone"}, held : BOOLEAN, closed : BOOLEAN,
                         prog : Programs]
      /\ module[m] # NotLoaded
  BY <1>1, ModuleFacts
<1>3. module \in [Mems -> ModuleStates]
  BY DEF LoaderInv, LoaderTypeOK
<1>4. /\ module'[m].closed /\ module'[m].state = "alive"
      /\ module'[m].prog = module[m].prog
      /\ module'[m] \in [state : {"alive", "gone"}, held : BOOLEAN, closed : BOOLEAN,
                          prog : Programs]
      /\ \A o \in Mems \ {m} : module'[o] = module[o]
  BY <1>1, <1>2, <1>3
<1>5. \A u \in Threads : load[u].step # "idle" => load[u].mem # m
  BY <1>2, NotLoading
<1>6. /\ MemInv' /\ LoadsApart' /\ ModulesReady' /\ NoLeak' /\ NoFault'
      /\ \A o \in Mems : mem'[o].first = mem[o].first
  BY <1>1, <1>4, <1>5, ClosingKeeps
<1>7. LoaderTypeOK'
  <2>1. module'[m] \in ModuleStates
    BY <1>4 DEF ModuleStates
  <2>2. module' \in [Mems -> ModuleStates]
    BY <1>1, <1>3, <1>4, <2>1
  <2> QED BY <1>1, <2>2 DEF LoaderInv, LoaderTypeOK
<1>8. EntriesLive'
  <2>1. \A o \in Mems : module[o].state = "alive" =>
          module'[o].state = "alive" /\ module'[o].prog = module[o].prog
    BY <1>4
  <2>2. \A h \in Handles : handle[h].state = "held" => module'[handle[h].module].state = "alive"
    BY <2>1 DEF LoaderInv, EntriesLive, EntryOf
  <2>3. \A u \in Threads : taking[u].step = "publish" => module'[taking[u].module].state = "alive"
    BY <2>1 DEF LoaderInv, EntriesLive, EntryOf
  <2> QED BY <1>1, <1>6, <2>1, <2>2, <2>3, EntriesKept
<1>9. TableUsed' /\ MethodDefsOutlive'
  BY <1>1, TableKept
<1> QED BY <1>6, <1>7, <1>8, <1>9 DEF LoaderInv, MemInv

\* A collected module has no handle that the program holds, and no builtin in
\* the making.
LEMMA CollectKeeps ==
  ASSUME LoaderInv, NEW m \in Mems, Collect(m)
  PROVE  LoaderInv'
<1>1. /\ module[m].state = "alive" /\ Close(m) /\ HandlesOf(m) = {}
      /\ \A t \in Threads : taking[t].step = "publish" => taking[t].module # m
      /\ module' = [module EXCEPT ![m].state = "gone"]
      /\ handle' = [h \in Handles |->
           IF handle[h].state = "attached" /\ handle[h].module = m
           THEN [handle[h] EXCEPT !.state = "dying"] ELSE handle[h]]
      /\ UNCHANGED <<load, taking, table, def>>
  BY DEF Collect
<1>2. /\ module[m] \in [state : {"alive", "gone"}, held : BOOLEAN, closed : BOOLEAN,
                         prog : Programs]
      /\ module[m] # NotLoaded
  BY <1>1, ModuleFacts
<1>3. module \in [Mems -> ModuleStates] /\ handle \in [Handles -> Handle]
  BY DEF LoaderInv, LoaderTypeOK
<1>4. /\ module'[m].state = "gone"
      /\ module'[m] \in [state : {"alive", "gone"}, held : BOOLEAN, closed : BOOLEAN,
                          prog : Programs]
      /\ \A o \in Mems \ {m} : module'[o] = module[o]
  BY <1>1, <1>2, <1>3
<1>5. \A u \in Threads : load[u].step # "idle" => load[u].mem # m
  BY <1>2, NotLoading
<1>6. /\ MemInv' /\ LoadsApart' /\ ModulesReady' /\ NoLeak' /\ NoFault'
      /\ \A o \in Mems : mem'[o].first = mem[o].first
  BY <1>1, <1>4, <1>5, ClosingKeeps
<1>7. ASSUME NEW h \in Handles
      PROVE  /\ handle'[h] \in Handle
             /\ handle'[h].module = handle[h].module /\ handle'[h].at = handle[h].at
             /\ handle'[h].def = handle[h].def /\ handle'[h].builtin = handle[h].builtin
             /\ handle'[h].state = "held" <=> handle[h].state = "held"
             /\ handle'[h].state \in {"held", "attached", "dying"} =>
                  handle[h].state \in {"held", "attached", "dying"}
  <2>1. handle[h] \in Handle
    BY <1>3
  <2>2. CASE handle[h].state = "attached" /\ handle[h].module = m
    <3>1. handle'[h] = [handle[h] EXCEPT !.state = "dying"]
      BY <1>1, <2>2
    <3> QED BY <2>1, <2>2, <3>1 DEF Handle, HandleStates
  <2>3. CASE ~(handle[h].state = "attached" /\ handle[h].module = m)
    <3>1. handle'[h] = handle[h]
      BY <1>1, <2>3
    <3> QED BY <2>1, <3>1
  <2> QED BY <2>2, <2>3
<1>8. LoaderTypeOK'
  <2>1. module'[m] \in ModuleStates
    BY <1>4 DEF ModuleStates
  <2>2. module' \in [Mems -> ModuleStates]
    BY <1>1, <1>3, <1>4, <2>1
  <2>3. handle' \in [Handles -> Handle]
    <3>1. DOMAIN handle' = Handles /\ handle' = [h \in Handles |-> handle'[h]]
      BY <1>1
    <3> QED BY <1>7, <3>1
  <2> QED BY <1>1, <2>2, <2>3 DEF LoaderInv, LoaderTypeOK
<1>9. EntriesLive'
  <2>1. ASSUME NEW h \in Handles, handle[h].state = "held"
        PROVE  handle[h].module \in Mems \ {m} /\ module[handle[h].module].state = "alive"
    <3>1. handle[h].module \in Mems /\ module[handle[h].module].state = "alive"
      BY <2>1 DEF LoaderInv, EntriesLive, EntryOf
    <3>2. handle[h].module # m
      BY <1>1, <2>1 DEF HandlesOf
    <3> QED BY <3>1, <3>2
  <2>2. ASSUME NEW t \in Threads, taking[t].step = "publish"
        PROVE  module'[taking[t].module].state = "alive"
    <3>1. taking[t].module \in Mems /\ module[taking[t].module].state = "alive"
      BY <2>2 DEF LoaderInv, EntriesLive, EntryOf
    <3> QED BY <1>1, <1>4, <2>2, <3>1
  <2>3. ASSUME NEW h \in Handles, handle'[h].state = "held"
        PROVE  module'[handle[h].module].state = "alive"
    BY <1>4, <1>7, <2>1, <2>3
  <2>4. \A o \in Mems : module'[o].prog = module[o].prog
    <3>1. module'[m].prog = module[m].prog
      BY <1>1, <1>2, <1>3
    <3> QED BY <3>1, <1>4
  <2> QED BY <1>1, <1>6, <1>7, <2>2, <2>3, <2>4, EntriesKept
<1>10. TableUsed' /\ MethodDefsOutlive'
  BY <1>1, <1>7, TableKept
<1> QED BY <1>6, <1>8, <1>9, <1>10 DEF LoaderInv, MemInv

-----------------------------------------------------------------------------
(* Steps that leave loads and memory alone                                  *)

LEMMA StutterLoader ==
  ASSUME LoaderInv, UNCHANGED vars
  PROVE  LoaderInv'
<1>1. UNCHANGED <<memVars, load, module>> /\ UNCHANGED <<handle, taking, table, def>>
  BY DEF vars
<1>2. MemInv' /\ LoadsApart' /\ ModulesReady' /\ NoLeak' /\ NoFault'
  BY <1>1, MemoryKept
<1>3. LoaderTypeOK'
  BY <1>1 DEF LoaderInv, LoaderTypeOK
<1>4. TableUsed' /\ MethodDefsOutlive'
  BY <1>1, TableKept
<1>5. EntriesLive'
  <2>1. \A h \in Handles : handle[h].state = "held" => module[handle[h].module].state = "alive"
    BY DEF LoaderInv, EntriesLive, EntryOf
  <2>2. \A u \in Threads : taking[u].step = "publish" => module[taking[u].module].state = "alive"
    BY DEF LoaderInv, EntriesLive, EntryOf
  <2>3. mem' = mem /\ module' = module
    BY <1>1 DEF memVars
  <2> QED BY <1>1, <2>1, <2>2, <2>3, EntriesKept
<1> QED BY <1>2, <1>3, <1>4, <1>5 DEF LoaderInv, MemInv

\* Module.write reaches only pages after the executable prefix.
LEMMA ModuleWriteKeeps ==
  ASSUME LoaderInv, NEW m \in Mems, NEW off \in Entries, NEW len \in Spans,
         ModuleWrite(m, off, len)
  PROVE  LoaderInv'
<1>1. Usable(m) /\ Write(m, off, len) /\ UNCHANGED <<load, module, handle, taking, table, def>>
  BY DEF ModuleWrite
<1>2. off \in Nat /\ len \in Nat
  BY LoaderAssumption, MemoryAssumption
<1>3. \A p \in Own(m) : \/ p \in writable
                        \/ mem[m].executable /\ p \in Range0(mem[m].first, mem[m].execSize)
  BY <1>1 DEF Usable, Reachable, LoaderInv, ModulesReady, ModuleReady
<1>4. faults' = faults
  BY <1>1, <1>2, <1>3, InvMem, WriteHitsWritable
<1>5. UNCHANGED vars
  BY <1>1, <1>4 DEF Write, memVars, vars
<1> QED BY <1>5, StutterLoader

LEMMA HoldingKeeps ==
  ASSUME LoaderInv, NEW m \in Mems, NEW held \in BOOLEAN, module[m].state = "alive",
         module' = [module EXCEPT ![m].held = held],
         UNCHANGED <<memVars, load, handle, taking, table, def>>
  PROVE  LoaderInv'
<1>1. /\ module[m] \in [state : {"alive", "gone"}, held : BOOLEAN, closed : BOOLEAN,
                         prog : Programs]
      /\ module[m] # NotLoaded /\ mem[m].state # "unborn"
  BY ModuleFacts
<1>2. module \in [Mems -> ModuleStates]
  BY DEF LoaderInv, LoaderTypeOK
<1>3. /\ module'[m].state = module[m].state /\ module'[m].prog = module[m].prog
      /\ module'[m].closed = module[m].closed
      /\ module'[m] \in [state : {"alive", "gone"}, held : BOOLEAN, closed : BOOLEAN,
                          prog : Programs]
      /\ \A o \in Mems \ {m} : module'[o] = module[o]
  BY <1>1, <1>2
<1>4. owner' = owner /\ writable' = writable /\ mem' = mem /\ faults' = faults /\ load' = load
  BY DEF memVars
<1>5. \A o : Open(o)' = Open(o) /\ Own(o)' = Own(o)
  BY <1>4 DEF Open, Own
<1>6. MemInv'
  BY InvMem, StutterKeeps
<1>7. LoaderTypeOK'
  <2>1. module'[m] \in ModuleStates
    BY <1>3 DEF ModuleStates
  <2>2. module' \in [Mems -> ModuleStates]
    BY <1>2, <1>3, <2>1
  <2> QED BY <1>4, <2>2 DEF LoaderInv, LoaderTypeOK
<1>8. LoadsApart'
  <2> SUFFICES ASSUME NEW t \in Threads, load[t].step # "idle"
               PROVE  LoadApart(t, load[t].mem)'
    BY <1>4 DEF LoadsApart
  <2>1. PICK o \in Mems : o = load[t].mem
    BY LoadFacts
  <2>2. LoadApart(t, o)
    BY <2>1 DEF LoaderInv, LoadsApart
  <2>3. module'[o] = module[o]
    BY <1>1, <1>3, <2>2 DEF LoadApart
  <2>4. LoadApart(t, o)'
    BY <1>4, <1>5, <2>2, <2>3 DEF LoadApart
  <2> QED BY <1>4, <2>1, <2>4
<1>9. ModulesReady'
  <2>1. ModuleReady(m)'
    BY <1>1, <1>3, <1>4, <1>5 DEF LoaderInv, ModulesReady, ModuleReady
  <2>2. ASSUME NEW o \in Mems \ {m} PROVE ModuleReady(o)'
    BY <1>3, <1>4, <1>5 DEF LoaderInv, ModulesReady, ModuleReady
  <2> QED BY <2>1, <2>2 DEF ModulesReady
<1>10. NoLeak'
  BY <1>3, <1>4, <1>5 DEF LoaderInv, NoLeak, Owned
<1>11. EntriesLive'
  <2>1. \A o \in Mems : module[o].state = "alive" => module'[o].state = "alive"
    BY <1>3
  <2>2. \A h \in Handles : handle[h].state = "held" => module'[handle[h].module].state = "alive"
    BY <2>1 DEF LoaderInv, EntriesLive, EntryOf
  <2>3. \A u \in Threads : taking[u].step = "publish" => module'[taking[u].module].state = "alive"
    BY <2>1 DEF LoaderInv, EntriesLive, EntryOf
  <2>4. \A o \in Mems : module'[o].prog = module[o].prog
    BY <1>3
  <2> QED BY <1>4, <2>2, <2>3, <2>4, EntriesKept
<1>12. TableUsed' /\ MethodDefsOutlive'
  BY TableKept
<1>13. NoFault'
  BY <1>4 DEF LoaderInv, NoFault
<1> QED BY <1>6, <1>7, <1>8, <1>9, <1>10, <1>11, <1>12, <1>13 DEF LoaderInv, MemInv

\* A handle that goes on only to be deallocated.
LEMMA FadingKeeps ==
  ASSUME LoaderInv, NEW h \in Handles, NEW state \in {"attached", "dying", "gone"},
         handle[h].state \in {"held", "dying"},
         handle' = [handle EXCEPT ![h].state = state],
         UNCHANGED <<memVars, load, module, taking, table, def>>
  PROVE  LoaderInv'
<1>1. handle \in [Handles -> Handle] /\ handle[h] \in Handle
  BY DEF LoaderInv, LoaderTypeOK
<1>2. /\ handle'[h] \in Handle /\ handle'[h].state = state
      /\ handle'[h].at = handle[h].at /\ handle'[h].def = handle[h].def
      /\ handle'[h].builtin = handle[h].builtin
      /\ \A g \in Handles \ {h} : handle'[g] = handle[g]
  BY <1>1 DEF Handle, HandleStates
<1>3. UNCHANGED <<memVars, load, module>>
  OBVIOUS
<1>4. MemInv' /\ LoadsApart' /\ ModulesReady' /\ NoLeak' /\ NoFault'
  BY <1>3, MemoryKept
<1>5. LoaderTypeOK'
  <2>1. handle' \in [Handles -> Handle]
    BY <1>1, <1>2
  <2> QED BY <2>1 DEF LoaderInv, LoaderTypeOK
<1>6. EntriesLive'
  <2>1. \A g \in Handles : handle'[g].state = "held" =>
          handle[g].state = "held" /\ handle'[g] = handle[g]
    BY <1>2
  <2>2. \A g \in Handles : handle[g].state = "held" => module[handle[g].module].state = "alive"
    BY DEF LoaderInv, EntriesLive, EntryOf
  <2>3. \A u \in Threads : taking[u].step = "publish" => module[taking[u].module].state = "alive"
    BY DEF LoaderInv, EntriesLive, EntryOf
  <2>4. mem' = mem
    BY DEF memVars
  <2> QED BY <2>1, <2>2, <2>3, <2>4, EntriesKept
<1>7. TableUsed' /\ MethodDefsOutlive'
  BY <1>2, TableKept
<1> QED BY <1>4, <1>5, <1>6, <1>7 DEF LoaderInv, MemInv

-----------------------------------------------------------------------------
(* Functions and builtins                                                   *)

LEMMA TakingFacts ==
  ASSUME LoaderInv, NEW t \in Threads, taking[t].step = "publish"
  PROVE  /\ taking[t] \in [step : {"publish"}, module : Mems, at : Nat, def : Defs]
         /\ EntryOf(taking[t].module, taking[t].at) /\ def[taking[t].def] = "used"
<1>1. taking[t] \in TakingStates /\ taking[t] # NoTaking
  BY DEF LoaderInv, LoaderTypeOK, NoTaking
<1> QED BY <1>1 DEF TakingStates, LoaderInv, EntriesLive

\* What a function or builtin is taken at is an entry of its module.
LEMMA UsableEntry ==
  ASSUME LoaderInv, NEW m \in Mems, NEW off \in Entries, Usable(m),
         off < module[m].prog.size
  PROVE  Base(m) + off \in Nat /\ EntryOf(m, Base(m) + off)
<1>1. off \in Nat /\ PageSize \in Nat /\ mem[m].first \in Nat
  BY LoaderAssumption, MemoryAssumption, InvMem, MemInvFacts
<1>2. Base(m) \in Nat
  BY <1>1 DEF Base
<1> HIDE DEF Base
<1>3. module[m].state = "alive"
  BY DEF Usable, Reachable
<1> QED BY <1>1, <1>2, <1>3 DEF EntryOf

LEMMA EntryKept ==
  ASSUME UNCHANGED <<memVars, load, module>>, NEW m, NEW at, EntryOf(m, at)
  PROVE  EntryOf(m, at)'
<1>1. mem' = mem /\ module' = module
  BY DEF memVars
<1> QED BY <1>1 DEF EntryOf, Base

\* A new handle on an entry, with the structure that the table has for it if
\* it is a builtin.
LEMMA NewHandleKeeps ==
  ASSUME LoaderInv, UNCHANGED <<memVars, load, module>>,
         NEW h \in Handles, NEW b \in BOOLEAN, NEW m \in Mems, NEW at \in Nat,
         NEW d \in Defs \cup {NoDef}, EntryOf(m, at),
         handle' = [handle EXCEPT ![h] = [state |-> "held", builtin |-> b, module |-> m,
                                          at |-> at, def |-> d]],
         taking' \in [Threads -> TakingStates],
         \A t \in Threads : taking'[t].step = "publish" =>
           taking[t] = taking'[t] /\ def'[taking[t].def] = "used",
         def' \in [Defs -> {"unborn", "used", "freed"}],
         b => at \in DOMAIN table' /\ table'[at] = d,
         \A k \in DOMAIN table : k \in DOMAIN table' /\ table'[k] = table[k],
         TableUsed'
  PROVE  LoaderInv'
<1>1. handle \in [Handles -> Handle]
  BY DEF LoaderInv, LoaderTypeOK
<1> DEFINE new == [state |-> "held", builtin |-> b, module |-> m, at |-> at, def |-> d]
<1>2. new \in Handle
  BY DEF Handle, HandleStates
<1>3. handle'[h] = new /\ \A g \in Handles \ {h} : handle'[g] = handle[g]
  BY <1>1
<1>4. new.state = "held" /\ new.builtin = b /\ new.module = m /\ new.at = at /\ new.def = d
  OBVIOUS
<1> HIDE DEF new
<1>5. MemInv' /\ LoadsApart' /\ ModulesReady' /\ NoLeak' /\ NoFault'
  BY MemoryKept
<1>6. LoaderTypeOK'
  <2>1. handle' \in [Handles -> Handle]
    BY <1>1, <1>2 DEF new
  <2> QED BY <2>1 DEF LoaderInv, LoaderTypeOK
<1>7. EntriesLive'
  <2>1. ASSUME NEW g \in Handles, handle'[g].state = "held"
        PROVE  EntryOf(handle[g].module, handle[g].at)'
    <3>1. CASE g = h
      <4>1. EntryOf(m, at)'
        BY EntryKept
      <4> QED BY <1>3, <1>4, <3>1, <4>1
    <3>2. CASE g # h
      <4>1. EntryOf(handle[g].module, handle[g].at)
        BY <1>3, <2>1, <3>2 DEF LoaderInv, EntriesLive
      <4>2. mem' = mem /\ module' = module
        BY DEF memVars
      <4> QED BY <1>3, <3>2, <4>1, <4>2 DEF EntryOf, Base
    <3> QED BY <3>1, <3>2
  <2>2. ASSUME NEW t \in Threads, taking'[t].step = "publish"
        PROVE  EntryOf(taking[t].module, taking[t].at)' /\ def'[taking'[t].def] = "used"
    <3>1. taking'[t] = taking[t] /\ def'[taking[t].def] = "used"
      BY <2>2
    <3>2. EntryOf(taking[t].module, taking[t].at)
      BY <2>2, <3>1, TakingFacts
    <3>3. mem' = mem /\ module' = module
      BY DEF memVars
    <3> QED BY <3>1, <3>2, <3>3 DEF EntryOf, Base
  <2> QED BY <2>1, <2>2 DEF EntriesLive
<1>8. MethodDefsOutlive'
  <2> SUFFICES ASSUME NEW g \in Handles, handle'[g].builtin,
                      handle'[g].state \in {"held", "attached", "dying"}
               PROVE  /\ handle'[g].at \in DOMAIN table'
                      /\ table'[handle'[g].at] = handle'[g].def
    BY DEF MethodDefsOutlive, TableUsed
  <2>1. CASE g = h
    BY <1>3, <1>4, <2>1
  <2>2. CASE g # h
    BY <1>3, <2>2 DEF LoaderInv, MethodDefsOutlive
  <2> QED BY <2>1, <2>2
<1> QED BY <1>5, <1>6, <1>7, <1>8 DEF LoaderInv, MemInv

LEMMA FunctionKeeps ==
  ASSUME LoaderInv, NEW m \in Mems, NEW h \in Handles, NEW off \in Entries,
         Function(h, m, off)
  PROVE  LoaderInv'
<1>1. Base(m) + off \in Nat /\ EntryOf(m, Base(m) + off)
  BY UsableEntry DEF Function
<1>2. /\ handle' = [handle EXCEPT ![h] = [state |-> "held", builtin |-> FALSE, module |-> m,
                                          at |-> Base(m) + off, def |-> NoDef]]
      /\ UNCHANGED <<memVars, load, module>> /\ UNCHANGED <<taking, table, def>>
  BY DEF Function
<1>3. /\ taking \in [Threads -> TakingStates]
      /\ def \in [Defs -> {"unborn", "used", "freed"}]
  BY DEF LoaderInv, LoaderTypeOK
<1>4. TableUsed'
  BY <1>2 DEF LoaderInv, TableUsed
<1>5. \A t \in Threads : taking[t].step = "publish" => def[taking[t].def] = "used"
  BY TakingFacts
<1> QED BY <1>1, <1>2, <1>3, <1>4, <1>5, NewHandleKeeps

LEMMA BuiltinFindsKeeps ==
  ASSUME LoaderInv, NEW m \in Mems, NEW h \in Handles, NEW off \in Entries,
         BuiltinFinds(h, m, off)
  PROVE  LoaderInv'
<1> DEFINE k == Base(m) + off
<1>1. k \in Nat /\ EntryOf(m, k)
  BY UsableEntry DEF BuiltinFinds
<1>2. /\ k \in DOMAIN table
      /\ handle' = [handle EXCEPT ![h] = [state |-> "held", builtin |-> TRUE, module |-> m,
                                          at |-> k, def |-> table[k]]]
      /\ UNCHANGED <<memVars, load, module>> /\ UNCHANGED <<taking, table, def>>
  BY DEF BuiltinFinds
<1> HIDE DEF k
<1>3. /\ taking \in [Threads -> TakingStates]
      /\ def \in [Defs -> {"unborn", "used", "freed"}]
  BY DEF LoaderInv, LoaderTypeOK
<1>4. TableUsed' /\ table[k] \in Defs
  BY <1>2 DEF LoaderInv, TableUsed
<1>5. \A t \in Threads : taking[t].step = "publish" => def[taking[t].def] = "used"
  BY TakingFacts
<1> QED BY <1>1, <1>2, <1>3, <1>4, <1>5, NewHandleKeeps

\* What is published stays the table's from then on, and what the table has
\* or another thread is about to publish is not freed.
LEMMA BuiltinPublishesKeeps ==
  ASSUME LoaderInv, NEW t \in Threads, NEW h \in Handles, BuiltinPublishes(t, h)
  PROVE  LoaderInv'
<1> DEFINE k == taking[t].at
           d == taking[t].def
           tbl == SetDefault(k, d)
           tk == [taking EXCEPT ![t] = NoTaking]
<1>1. /\ taking[t].step = "publish" /\ table' = tbl /\ taking' = tk
      /\ handle' = [handle EXCEPT ![h] = [state |-> "held", builtin |-> TRUE,
                      module |-> taking[t].module, at |-> k, def |-> tbl[k]]]
      /\ def' = Collected(tbl, tk)
      /\ UNCHANGED <<memVars, load, module>>
  BY DEF BuiltinPublishes
<1>2. /\ taking[t].module \in Mems /\ k \in Nat /\ d \in Defs
      /\ EntryOf(taking[t].module, k) /\ def[d] = "used"
  BY <1>1, TakingFacts
<1>3. /\ DOMAIN tbl = DOMAIN table \cup {k}
      /\ \A x \in DOMAIN table : tbl[x] = table[x]
      /\ k \notin DOMAIN table => tbl[k] = d
  BY DEF SetDefault
<1>4. taking \in [Threads -> TakingStates] /\ def \in [Defs -> {"unborn", "used", "freed"}]
  BY DEF LoaderInv, LoaderTypeOK
<1>5. /\ tk \in [Threads -> TakingStates]
      /\ tk[t] = NoTaking /\ \A u \in Threads \ {t} : tk[u] = taking[u]
  <2>1. NoTaking \in TakingStates
    BY DEF TakingStates
  <2> QED BY <1>4, <2>1
<1> HIDE DEF tbl, tk, k, d
<1>6. \A x \in DOMAIN tbl : tbl[x] \in Defs /\ def[tbl[x]] = "used"
  BY <1>2, <1>3 DEF LoaderInv, TableUsed
<1>7. ASSUME NEW e \in Defs, def[e] = "used",
             e \in Range(tbl) \/ \E u \in Threads : tk[u].step = "publish" /\ tk[u].def = e
      PROVE  def'[e] = "used"
  BY <1>1, <1>7 DEF Collected
<1>8. TableUsed'
  <2> SUFFICES ASSUME NEW x \in DOMAIN tbl PROVE tbl[x] \in Defs /\ def'[tbl[x]] = "used"
    BY <1>1 DEF TableUsed
  <2>1. tbl[x] \in Range(tbl)
    BY DEF Range
  <2> QED BY <1>6, <1>7, <2>1
<1>9. ASSUME NEW u \in Threads, taking'[u].step = "publish"
      PROVE  taking[u] = taking'[u] /\ def'[taking[u].def] = "used"
  <2>1. taking[u] = tk[u]
    BY <1>1, <1>5, <1>9 DEF NoTaking
  <2>2. taking[u].def \in Defs /\ def[taking[u].def] = "used"
    BY <1>1, <1>9, <2>1, TakingFacts
  <2> QED BY <1>1, <1>7, <1>9, <2>1, <2>2
<1>10. def' \in [Defs -> {"unborn", "used", "freed"}]
  BY <1>1, <1>4 DEF Collected
<1>11. k \in DOMAIN tbl /\ tbl[k] \in Defs
  BY <1>3, <1>6
<1>12. \A x \in DOMAIN table : x \in DOMAIN table' /\ table'[x] = table[x]
  BY <1>1, <1>3
<1>13. k \in DOMAIN table' /\ table'[k] = tbl[k]
  BY <1>1, <1>11
<1>14. taking' \in [Threads -> TakingStates]
  BY <1>1, <1>5
<1>15. PICK m \in Mems : m = taking[t].module
  BY <1>2
<1>16. EntryOf(m, k)
  BY <1>2, <1>15
<1>17. handle' = [handle EXCEPT ![h] = [state |-> "held", builtin |-> TRUE, module |-> m,
                                        at |-> k, def |-> tbl[k]]]
  BY <1>1, <1>15
<1>18. PICK e \in Defs : e = tbl[k]
  BY <1>11
<1>19. PICK at \in Nat : at = k
  BY <1>2
<1>20. handle' = [handle EXCEPT ![h] = [state |-> "held", builtin |-> TRUE, module |-> m,
                                        at |-> at, def |-> e]]
       /\ EntryOf(m, at) /\ at \in DOMAIN table' /\ table'[at] = e
  BY <1>13, <1>16, <1>17, <1>18, <1>19
<1> QED BY <1>1, <1>8, <1>9, <1>10, <1>12, <1>14, <1>20, NewHandleKeeps

LEMMA BuiltinCreatesKeeps ==
  ASSUME LoaderInv, NEW t \in Threads, NEW m \in Mems, NEW off \in Entries, NEW d \in Defs,
         BuiltinCreates(t, m, off, d)
  PROVE  LoaderInv'
<1> DEFINE k == Base(m) + off
           new == [step |-> "publish", module |-> m, at |-> k, def |-> d]
<1>1. k \in Nat /\ EntryOf(m, k)
  BY UsableEntry DEF BuiltinCreates
<1>2. /\ def[d] = "unborn" /\ def' = [def EXCEPT ![d] = "used"]
      /\ taking' = [taking EXCEPT ![t] = new]
      /\ UNCHANGED <<memVars, load, module>> /\ UNCHANGED <<handle, table>>
  BY DEF BuiltinCreates
<1> HIDE DEF k
<1>3. new \in TakingStates /\ new.module = m /\ new.at = k /\ new.def = d
  BY <1>1 DEF TakingStates
<1> HIDE DEF new
<1>4. taking \in [Threads -> TakingStates] /\ def \in [Defs -> {"unborn", "used", "freed"}]
  BY DEF LoaderInv, LoaderTypeOK
<1>5. /\ taking' \in [Threads -> TakingStates] /\ def' \in [Defs -> {"unborn", "used", "freed"}]
      /\ taking'[t] = new /\ \A u \in Threads \ {t} : taking'[u] = taking[u]
  BY <1>2, <1>3, <1>4
<1>6. def'[d] = "used" /\ \A e \in Defs : def[e] = "used" => def'[e] = "used"
  BY <1>2, <1>4
<1>7. MemInv' /\ LoadsApart' /\ ModulesReady' /\ NoLeak' /\ NoFault'
  BY <1>2, MemoryKept
<1>8. LoaderTypeOK'
  BY <1>2, <1>5 DEF LoaderInv, LoaderTypeOK
<1>9. TableUsed'
  BY <1>2, <1>6 DEF LoaderInv, TableUsed
<1>10. MethodDefsOutlive'
  <2> SUFFICES ASSUME NEW g \in Handles, handle[g].builtin,
                      handle[g].state \in {"held", "attached", "dying"}
               PROVE  /\ handle[g].at \in DOMAIN table'
                      /\ table'[handle[g].at] = handle[g].def
    BY <1>2, <1>9 DEF MethodDefsOutlive, TableUsed
  <2> QED BY <1>2 DEF LoaderInv, MethodDefsOutlive
<1>11. EntriesLive'
  <2>1. mem' = mem /\ module' = module
    BY <1>2 DEF memVars
  <2>2. ASSUME NEW g \in Handles, handle'[g].state = "held"
        PROVE  EntryOf(handle[g].module, handle[g].at)'
    BY <1>2, <2>1, <2>2 DEF LoaderInv, EntriesLive, EntryOf, Base
  <2>3. ASSUME NEW u \in Threads, taking'[u].step = "publish"
        PROVE  EntryOf(taking[u].module, taking[u].at)' /\ def'[taking'[u].def] = "used"
    <3>1. CASE u = t
      BY <1>1, <1>3, <1>5, <1>6, <2>1, <3>1 DEF EntryOf, Base
    <3>2. CASE u # t
      <4>1. taking'[u] = taking[u] /\ taking[u].def \in Defs
            /\ EntryOf(taking[u].module, taking[u].at) /\ def[taking[u].def] = "used"
        BY <1>5, <2>3, <3>2, TakingFacts
      <4> QED BY <1>6, <2>1, <4>1 DEF EntryOf, Base
    <3> QED BY <3>1, <3>2
  <2> QED BY <2>2, <2>3 DEF EntriesLive
<1> QED BY <1>7, <1>8, <1>9, <1>10, <1>11 DEF LoaderInv, MemInv

-----------------------------------------------------------------------------
(* The theorems                                                             *)

LEMMA LoaderInvInit == LoaderInit => LoaderInv
<1> SUFFICES ASSUME LoaderInit PROVE LoaderInv
  OBVIOUS
<1>1. MemTypeOK /\ OwnsItsPages /\ SealedPrefix /\ NoFault
  BY MemInvInit DEF LoaderInit, MemInv, MemInit, NoFault
<1>2. \A t \in Threads : load[t].step = "idle" /\ taking[t].step = "idle"
  BY DEF LoaderInit, NoLoad, NoTaking
<1>3. \A m \in Mems : ~Open(m) /\ module[m] = NotLoaded /\ module[m].state = "none"
  BY DEF LoaderInit, MemInit, Open, Unborn, NotLoaded
<1>4. \A h \in Handles : handle[h].state = "none"
  BY DEF LoaderInit, NoHandle
<1>5. LoaderTypeOK
  <2>1. NoLoad \in LoadStates /\ NotLoaded \in ModuleStates /\ NoTaking \in TakingStates
    BY DEF LoadStates, ModuleStates, TakingStates
  <2>2. NoHandle \in Handle
    BY DEF NoHandle, Handle, HandleStates
  <2> QED BY <2>1, <2>2 DEF LoaderInit, LoaderTypeOK
<1>6. LoadsApart /\ ModulesReady /\ NoLeak
  BY <1>2, <1>3 DEF LoadsApart, ModulesReady, ModuleReady, NoLeak, Owned
<1>7. EntriesLive /\ MethodDefsOutlive
  BY <1>2, <1>4 DEF EntriesLive, MethodDefsOutlive
<1>8. TableUsed
  <2>1. DOMAIN table = {}
    BY DEF LoaderInit
  <2> QED BY <2>1 DEF TableUsed
<1> QED BY <1>1, <1>5, <1>6, <1>7, <1>8 DEF LoaderInv

LEMMA LoaderNextKeeps ==
  ASSUME LoaderInv, [LoaderNext]_vars
  PROVE  LoaderInv'
<1>1. CASE LoadNext
  <2> PICK t \in Threads :
        \/ \E m \in Mems, p \in Programs : LoadMap(t, m, p)
        \/ LoadLink(t) \/ LoadWrite(t) \/ LoadProtect(t)
        \/ LoadProtectFails(t) \/ LoadFails(t)
    BY <1>1 DEF LoadNext
  <2>1. ASSUME NEW m \in Mems, NEW p \in Programs, LoadMap(t, m, p) PROVE LoaderInv'
    BY <2>1, LoadMapKeeps
  <2>2. ASSUME LoadLink(t) \/ LoadWrite(t) \/ LoadProtect(t) PROVE LoaderInv'
    BY <2>2, LoadLinkKeeps, LoadWriteKeeps, LoadProtectKeeps
  <2>3. ASSUME LoadProtectFails(t) \/ LoadFails(t) PROVE LoaderInv'
    BY <2>3, LoadProtectFailsKeeps, LoadFailsKeeps
  <2> QED BY <2>1, <2>2, <2>3
<1>2. CASE ModuleNext
  <2> PICK m \in Mems :
        \/ \E h \in Handles, off \in Entries : Function(h, m, off) \/ BuiltinFinds(h, m, off)
        \/ \E t \in Threads, off \in Entries, d \in Defs : BuiltinCreates(t, m, off, d)
        \/ \E off \in Entries, len \in Spans : ModuleWrite(m, off, len)
        \/ CloseModule(m) \/ DropModule(m) \/ HoldModule(m) \/ Collect(m)
    BY <1>2 DEF ModuleNext
  <2>1. ASSUME NEW h \in Handles, NEW off \in Entries,
               Function(h, m, off) \/ BuiltinFinds(h, m, off)
        PROVE  LoaderInv'
    BY <2>1, FunctionKeeps, BuiltinFindsKeeps
  <2>2. ASSUME NEW t \in Threads, NEW off \in Entries, NEW d \in Defs,
               BuiltinCreates(t, m, off, d)
        PROVE  LoaderInv'
    BY <2>2, BuiltinCreatesKeeps
  <2>3. ASSUME NEW off \in Entries, NEW len \in Spans, ModuleWrite(m, off, len)
        PROVE  LoaderInv'
    BY <2>3, ModuleWriteKeeps
  <2>4. ASSUME CloseModule(m) \/ Collect(m) PROVE LoaderInv'
    BY <2>4, CloseModuleKeeps, CollectKeeps
  <2>5. ASSUME DropModule(m) \/ HoldModule(m) PROVE LoaderInv'
    BY <2>5, HoldingKeeps DEF DropModule, HoldModule, Reachable
  <2> QED BY <2>1, <2>2, <2>3, <2>4, <2>5
<1>3. CASE HandleNext
  <2> PICK h \in Handles :
        (\E t \in Threads : BuiltinPublishes(t, h)) \/ Attach(h) \/ Drop(h) \/ Deallocate(h)
    BY <1>3 DEF HandleNext
  <2>1. ASSUME NEW t \in Threads, BuiltinPublishes(t, h) PROVE LoaderInv'
    BY <2>1, BuiltinPublishesKeeps
  <2>2. CASE Attach(h) \/ Drop(h) \/ Deallocate(h)
    BY <2>2, FadingKeeps DEF Attach, Drop, Deallocate
  <2> QED BY <2>1, <2>2
<1>4. CASE UNCHANGED vars
  BY <1>4, StutterLoader
<1> QED BY <1>1, <1>2, <1>3, <1>4 DEF LoaderNext

\* The entry of a handle lies in a page of its module, and in the protected
\* prefix if it lies in the executable part of the image.
LEMMA EntryPage ==
  ASSUME LoaderInv, NEW m \in Mems, NEW at \in Nat, EntryOf(m, at), ~module[m].closed
  PROVE  /\ owner[at \div PageSize] = m
         /\ at - Base(m) < module[m].prog.exec => (at \div PageSize) \notin writable
<1> DEFINE first == mem[m].first
           size == mem[m].size
           exec == module[m].prog.exec
           page == at \div PageSize
<1>1. PageSize \in Nat \ {0}
  BY MemoryAssumption
<1>2. first \in Nat /\ size \in Nat /\ mem[m].execSize \in Nat
  BY InvMem, MemInvFacts
<1>3. /\ Open(m) /\ mem[m].executable
      /\ mem[m].execSize = exec \div PageSize
      /\ module[m].prog.size <= size * PageSize
  BY DEF EntryOf, LoaderInv, ModulesReady, ModuleReady
<1>4. exec \in Nat /\ exec % PageSize = 0 /\ module[m].prog.size \in Nat
  BY ModuleFacts, LoaderAssumption DEF EntryOf
<1>5. Base(m) = first * PageSize /\ Base(m) <= at /\ at - Base(m) < module[m].prog.size
  BY DEF EntryOf, Base
<1> HIDE DEF first, size, exec
<1>6. first * PageSize \in Nat
  BY <1>1, <1>2
<1>7. ASSUME NEW n \in Nat, at - Base(m) < n * PageSize
      PROVE  page \in Range0(first, n)
  <2>1. at < (first + n) * PageSize
    BY <1>1, <1>2, <1>5, <1>6, <1>7
  <2> DEFINE past == first + n
  <2>3. past \in Nat /\ first * PageSize <= at /\ at < past * PageSize
    BY <1>2, <1>5, <2>1
  <2> HIDE DEF past
  <2>4. page \in Int /\ first <= page /\ page < past
    BY <1>1, <1>2, <2>3, PageBetween
  <2>2. page \in Int /\ first <= page /\ page < first + n
    BY <2>4 DEF past
  <2> HIDE DEF page
  <2> QED BY <1>2, <2>2 DEF Range0
<1>8. at - Base(m) < size * PageSize
  BY <1>1, <1>2, <1>3, <1>4, <1>5, <1>6
<1>9. page \in Own(m)
  BY <1>2, <1>7, <1>8 DEF Own, first, size
<1>10. page \in Pages
  BY <1>3, <1>9 DEF LoaderInv, MemTypeOK
<1>11. owner[page] = m
  BY <1>3, <1>9, <1>10 DEF LoaderInv, OwnsItsPages
<1>12. ASSUME at - Base(m) < exec PROVE page \notin writable
  <2>1. exec = (exec \div PageSize) * PageSize
    BY <1>1, <1>4, WholePages
  <2>2. page \in Range0(first, mem[m].execSize)
    BY <1>2, <1>3, <1>7, <1>12, <2>1
  <2> QED BY <1>3, <2>2 DEF LoaderInv, SealedPrefix, first
<1> QED BY <1>11, <1>12 DEF exec

LEMMA InvCallsSafe == LoaderInv => CallsSafe
<1> SUFFICES ASSUME LoaderInv, NEW h \in Handles, handle[h].state = "held",
                    ~module[handle[h].module].closed
             PROVE  LET m == handle[h].module
                        page == handle[h].at \div PageSize
                    IN  /\ owner[page] = m
                        /\ handle[h].at - Base(m) < module[m].prog.exec => page \notin writable
  BY DEF CallsSafe
<1>1. handle[h].at \in Nat
  BY DEF LoaderInv, LoaderTypeOK, Handle
<1>2. EntryOf(handle[h].module, handle[h].at) /\ handle[h].module \in Mems
  BY DEF LoaderInv, EntriesLive, EntryOf
<1> QED BY <1>1, <1>2, EntryPage

LEMMA LoaderInvariant == LoaderSpec => []LoaderInv
<1>1. LoaderInv /\ [LoaderNext]_vars => LoaderInv'
  BY LoaderNextKeeps
<1> QED BY LoaderInvInit, <1>1, PTL DEF LoaderSpec

\* Any number of threads that load, fail, take entries, write, close, drop and
\* collect: no mapping is orphaned, no module that can be used loses its
\* memory.
THEOREM NothingLeaks == LoaderSpec => [](NoLeak /\ OwnsItsPages)
<1>1. LoaderInv => NoLeak /\ OwnsItsPages
  BY DEF LoaderInv
<1> QED BY LoaderInvariant, <1>1, PTL

\* Whatever a module lets its users write, no write that was accepted hits a
\* page that is not mapped read-write.
THEOREM WritesLand == LoaderSpec => []NoFault
<1>1. LoaderInv => NoFault
  BY DEF LoaderInv
<1> QED BY LoaderInvariant, <1>1, PTL

\* The pages an open mapping counts as executable are not writable, also when
\* a load failed while it protected them.
THEOREM PrefixSealed == LoaderSpec => []SealedPrefix
<1>1. LoaderInv => SealedPrefix
  BY DEF LoaderInv
<1> QED BY LoaderInvariant, <1>1, PTL

\* A held function or builtin of a module that was not closed enters memory
\* of that module, in a protected page if it enters the executable part.
THEOREM CallsAreSafe == LoaderSpec => []CallsSafe
BY LoaderInvariant, InvCallsSafe, PTL

\* The PyMethodDef of a builtin is the table's until the builtin is gone.
THEOREM DefsOutlive == LoaderSpec => []MethodDefsOutlive
<1>1. LoaderInv => MethodDefsOutlive
  BY DEF LoaderInv
<1> QED BY LoaderInvariant, <1>1, PTL
=============================================================================
