----------------------------- MODULE ScanProofs ------------------------------
(* Proofs about the scan of headers, the layout of their structs and typed    *)
(* views, for any text, any types, any packing and any registers.            *)
EXTENDS Packing, HeaderScan, Structs, DataProofs

-----------------------------------------------------------------------------
(* The greater and the lesser of two                                        *)

LEMMA GreaterOfTwo ==
  ASSUME NEW m \in Nat, NEW n \in Nat
  PROVE  Max({m, n}) = IF m >= n THEN m ELSE n
<1> DEFINE g == IF m >= n THEN m ELSE n
<1>1. g \in {m, n} /\ \A y \in {m, n} : g >= y
  OBVIOUS
<1>2. Max({m, n}) \in {m, n} /\ \A y \in {m, n} : Max({m, n}) >= y
  BY <1>1 DEF Max
<1>3. QED
  BY <1>1, <1>2

LEMMA LesserOfTwo ==
  ASSUME NEW m \in Nat, NEW n \in Nat
  PROVE  Min({m, n}) = IF m <= n THEN m ELSE n
<1> DEFINE g == IF m <= n THEN m ELSE n
<1>1. g \in {m, n} /\ \A y \in {m, n} : g <= y
  OBVIOUS
<1>2. Min({m, n}) \in {m, n} /\ \A y \in {m, n} : Min({m, n}) <= y
  BY <1>1 DEF Min
<1>3. QED
  BY <1>1, <1>2

LEMMA LowerOf ==
  ASSUME NEW m \in Nat, NEW n \in Nat
  PROVE  Lower(m, n) = IF n # 0 /\ n < m THEN n ELSE m
BY LesserOfTwo DEF Lower

-----------------------------------------------------------------------------
(* The inductive invariant of Packing                                       *)

Pushes == [value : Nat, id : Ids \cup {Unnamed}]
Members == [type : Types, packed : BOOLEAN, aligned : Nat]

StacksOK == packs \in Seq(Nat) /\ Len(packs) >= 1 /\ orderly \in BOOLEAN

\* As long as all is in order the compiler has the same alignments in force.
StacksAgree ==
  orderly =>
    /\ compiler \in Seq(Pushes) /\ Len(compiler) = Len(packs)
    /\ \A i \in 1 .. Len(packs) : compiler[i].value = packs[i]

BodyTypeOK ==
  body # Unread =>
    /\ body \in [kind : {"struct", "union"}, pack : Nat, align : Nat, members : Seq(Members),
                 packed : BOOLEAN, late : BOOLEAN, closing : BOOLEAN, fine : BOOLEAN]
    /\ body.pack = IF body.packed THEN 1 ELSE InForce

\* Of a member that was not refused, its attributes change nothing.
MemberHarmless(m) ==
  IF body.packed THEN body.late \/ m.aligned <= 1
  ELSE (m.packed => Effective(m.type) <= 1) /\ m.aligned <= Effective(m.type)
MembersOK ==
  body # Unread /\ body.fine => \A i \in 1 .. Len(body.members) : MemberHarmless(body.members[i])

PackInv == StacksOK /\ StacksAgree /\ BodyTypeOK /\ MembersOK /\ LoadedAsCompiled

LEMMA PackInvInit == PackInit => PackInv
BY PackingAssumption DEF PackInit, PackInv, StacksOK, Pushes, StacksAgree, BodyTypeOK, MembersOK,
   LoadedAsCompiled, Loaded

LEMMA Pragmas ==
  ASSUME PackInv
  PROVE  /\ InForce \in Nat /\ InForce = packs[Len(packs)]
         /\ Len(packs) \in 1 .. Len(packs) /\ Len(packs) \in Nat
         /\ orderly => Last(compiler).value = InForce
<1>1. packs \in Seq(Nat) /\ Len(packs) \in Nat /\ Len(packs) \in 1 .. Len(packs)
  BY LenProperties DEF PackInv, StacksOK
<1>2. packs[Len(packs)] \in Nat
  BY <1>1, ElementOfSeq
<1>3. QED
  BY <1>1, <1>2 DEF InForce, Last, PackInv, StacksAgree

LEMMA PackTypes ==
  /\ \A t \in Types : t.size \in Nat /\ t.align \in Nat /\ t.align >= 1
  /\ \A n \in Packs \cup {0} : n \in Nat
  /\ \A n \in Alignments \cup {0} : n \in Nat
BY PackingAssumption

\* What a step that leaves the body alone has to show.
LEMMA SameBody ==
  ASSUME PackInv, UNCHANGED <<body, result>>, body = Unread \/ InForce' = InForce,
         orderly' => orderly, StacksOK', StacksAgree'
  PROVE  PackInv'
BY DEF PackInv, BodyTypeOK, MembersOK, MemberHarmless, Effective, LoadedAsCompiled, Loaded

LEMMA SetKeeps ==
  ASSUME PackInv, NEW n \in Nat, packs' = [packs EXCEPT ![Len(packs)] = n],
         compiler' = CompilerSets(n), orderly' = orderly
  PROVE  StacksOK' /\ StacksAgree'
<1>1. /\ packs' \in Seq(Nat) /\ Len(packs') = Len(packs)
      /\ \A i \in 1 .. Len(packs) : packs'[i] = IF i = Len(packs) THEN n ELSE packs[i]
  BY Pragmas, ExceptSeq DEF PackInv, StacksOK
<1>2. StacksOK'
  BY <1>1 DEF PackInv, StacksOK
<1>3. StacksAgree'
  <2> SUFFICES ASSUME orderly'
               PROVE  /\ compiler' \in Seq(Pushes) /\ Len(compiler') = Len(packs')
                      /\ \A i \in 1 .. Len(packs') : compiler'[i].value = packs'[i]
    BY DEF StacksAgree
  <2>1. /\ compiler \in Seq(Pushes) /\ Len(compiler) = Len(packs)
        /\ \A i \in 1 .. Len(packs) : compiler[i].value = packs[i]
        /\ compiler[Len(compiler)] \in Pushes
    BY Pragmas, ElementOfSeq DEF PackInv, StacksAgree
  <2>2. PICK e \in Pushes : e.value = n /\ compiler' = [compiler EXCEPT ![Len(compiler)] = e]
    <3>1. [compiler[Len(compiler)] EXCEPT !.value = n] \in Pushes
      BY <2>1 DEF Pushes
    <3>2. [compiler[Len(compiler)] EXCEPT !.value = n].value = n
      BY <2>1 DEF Pushes
    <3>3. compiler' = [compiler EXCEPT ![Len(compiler)] = [compiler[Len(compiler)] EXCEPT !.value = n]]
      BY <2>1, Pragmas DEF CompilerSets
    <3>4. QED
      BY <3>1, <3>2, <3>3
  <2>3. /\ compiler' \in Seq(Pushes) /\ Len(compiler') = Len(compiler)
        /\ \A i \in 1 .. Len(compiler) :
             compiler'[i] = IF i = Len(compiler) THEN e ELSE compiler[i]
    BY <2>1, <2>2, Pragmas, ExceptSeq
  <2>4. \A i \in 1 .. Len(packs') : compiler'[i].value = packs'[i]
    <3>1. SUFFICES ASSUME NEW i \in 1 .. Len(packs')
                   PROVE  compiler'[i].value = packs'[i]
      OBVIOUS
    <3>2. i \in 1 .. Len(packs) /\ i \in 1 .. Len(compiler)
      BY <1>1, <2>1
    <3>3. QED
      BY <1>1, <2>1, <2>2, <2>3, <3>2
  <2>5. QED
    BY <1>1, <2>1, <2>3, <2>4
<1>4. QED
  BY <1>2, <1>3

LEMMA PushKeeps ==
  ASSUME PackInv, NEW id \in Ids \cup {Unnamed}, NEW n \in Packs \cup {0}, Push(id, n)
  PROVE  StacksOK' /\ StacksAgree'
<1>1. PICK p \in Nat : packs' = Append(packs, p) /\ p = IF n = 0 THEN InForce ELSE n
  BY Pragmas, PackTypes DEF Push, Pushed
<1>2. /\ packs' \in Seq(Nat) /\ Len(packs') = Len(packs) + 1
      /\ \A i \in 1 .. Len(packs) : packs'[i] = packs[i]
      /\ packs'[Len(packs) + 1] = p
  BY <1>1, AppendProperties DEF PackInv, StacksOK
<1>3. StacksOK'
  BY <1>2, Pragmas DEF PackInv, StacksOK, Push
<1>4. StacksAgree'
  <2> SUFFICES ASSUME orderly'
               PROVE  /\ compiler' \in Seq(Pushes) /\ Len(compiler') = Len(packs')
                      /\ \A i \in 1 .. Len(packs') : compiler'[i].value = packs'[i]
    BY DEF StacksAgree
  <2>1. /\ compiler \in Seq(Pushes) /\ Len(compiler) = Len(packs)
        /\ \A i \in 1 .. Len(packs) : compiler[i].value = packs[i]
    BY DEF PackInv, StacksAgree, Push
  <2>2. compiler' = Append(compiler, [value |-> p, id |-> id])
    BY <1>1, Pragmas DEF Push, CompilerPushes
  <2>3. [value |-> p, id |-> id] \in Pushes
    BY DEF Pushes
  <2>4. /\ compiler' \in Seq(Pushes) /\ Len(compiler') = Len(compiler) + 1
        /\ \A i \in 1 .. Len(compiler) : compiler'[i] = compiler[i]
        /\ compiler'[Len(compiler) + 1].value = p
    BY <2>1, <2>2, <2>3, AppendProperties
  <2>5. \A i \in 1 .. Len(packs') : i \in 1 .. Len(packs) \/ i = Len(packs) + 1
    BY <1>2, Pragmas
  <2>6. QED
    BY <1>2, <2>1, <2>4, <2>5
<1>5. QED
  BY <1>3, <1>4

\* What is popped off a stack of two or more.
LEMMA Shorter ==
  ASSUME NEW S, NEW s \in Seq(S), Len(s) > 1
  PROVE  /\ Front(s) \in Seq(S) /\ Len(Front(s)) = Len(s) - 1
         /\ \A i \in 1 .. Len(s) - 1 : Front(s)[i] = s[i]
<1>1. Len(s) \in Nat /\ Len(s) - 1 \in 0 .. Len(s) /\ 1 \in 1 .. Len(s)
  BY LenProperties
<1>2. QED
  BY <1>1, SubSeqProperties, Z3 DEF Front

LEMMA PopKeeps ==
  ASSUME PackInv, NEW id \in Ids \cup {Unnamed}, Pop(id)
  PROVE  StacksOK' /\ StacksAgree'
<1>1. packs \in Seq(Nat) /\ Len(packs) >= 1 /\ orderly \in BOOLEAN /\ Len(packs) \in Nat
  BY Pragmas DEF PackInv, StacksOK
<1>2. CASE Len(packs) > 1
  <2>1. /\ packs' = Front(packs) /\ packs' \in Seq(Nat) /\ Len(packs') = Len(packs) - 1
        /\ \A i \in 1 .. Len(packs) - 1 : packs'[i] = packs[i]
    BY <1>1, <1>2, Shorter DEF Pop, Popped
  <2>2. StacksOK'
    BY <1>1, <1>2, <2>1 DEF StacksOK, Pop
  <2>3. StacksAgree'
    <3> SUFFICES ASSUME orderly'
                 PROVE  /\ compiler' \in Seq(Pushes) /\ Len(compiler') = Len(packs')
                        /\ \A i \in 1 .. Len(packs') : compiler'[i].value = packs'[i]
      BY DEF StacksAgree
    <3>1. /\ compiler \in Seq(Pushes) /\ Len(compiler) = Len(packs)
          /\ \A i \in 1 .. Len(packs) : compiler[i].value = packs[i]
      BY DEF PackInv, StacksAgree, Pop
    <3>2. compiler' = Front(compiler)
      <4>1. compiler' = CompilerPops(Unnamed)
        BY DEF Pop
      <4>2. Len(compiler) # 1
        BY <1>2, <3>1
      <4>3. QED
        BY <4>1, <4>2 DEF CompilerPops
    <3>3. /\ compiler' \in Seq(Pushes) /\ Len(compiler') = Len(compiler) - 1
          /\ \A i \in 1 .. Len(compiler) - 1 : compiler'[i] = compiler[i]
      BY <1>2, <3>1, <3>2, Shorter
    <3>4. \A i \in 1 .. Len(packs') : i \in 1 .. Len(packs) /\ i \in 1 .. Len(packs) - 1
      BY <1>1, <2>1
    <3>5. QED
      BY <2>1, <3>1, <3>3, <3>4
  <2>4. QED
    BY <2>2, <2>3
<1>3. CASE Len(packs) = 1
  <2>1. packs' = packs
    BY <1>3 DEF Pop, Popped
  <2>2. orderly' => orderly /\ compiler' = compiler
    BY <1>3 DEF PackInv, StacksAgree, Pop, CompilerPops
  <2>3. orderly' \in BOOLEAN
    BY DEF Pop
  <2>4. QED
    BY <1>1, <2>1, <2>2, <2>3 DEF PackInv, StacksOK, StacksAgree
<1>4. Len(packs) > 1 \/ Len(packs) = 1
  <2>1. \A n \in Nat : n >= 1 => n > 1 \/ n = 1
    OBVIOUS
  <2>2. QED
    BY <1>1, <2>1
<1>5. QED
  BY <1>2, <1>3, <1>4

-----------------------------------------------------------------------------
(* The body                                                                 *)

LEMMA Laying ==
  ASSUME PackInv, body # Unread, body.fine, orderly, ~body.late
  PROVE  CtypesLayout(body) = Compiled(body)
<1>1. /\ body.members \in Seq(Members) /\ body.pack \in Nat
      /\ body.packed \in BOOLEAN
      /\ body.pack = IF body.packed THEN 1 ELSE Last(compiler).value
      /\ Last(compiler).value \in Nat
      /\ DOMAIN body.members = 1 .. Len(body.members)
  BY Pragmas, LenProperties DEF PackInv, BodyTypeOK
<1>2. ASSUME NEW i \in 1 .. Len(body.members)
      PROVE  Lower(body.members[i].type.align, body.pack) = CompilerAlign(body, body.members[i])
  <2> DEFINE m == body.members[i]
             own == IF body.packed \/ m.packed THEN 1 ELSE m.type.align
  <2>1. m \in Members
    BY <1>1, ElementOfSeq
  <2>2. /\ m.type \in Types /\ m.packed \in BOOLEAN /\ m.aligned \in Nat
        /\ m.type.align \in Nat /\ m.type.align >= 1
        /\ own \in Nat
    BY <2>1, PackTypes DEF Members
  <2>3. MemberHarmless(m)
    BY DEF PackInv, MembersOK
  <2>4. CompilerAlign(body, m) = Lower(Max({m.aligned, own}), Last(compiler).value)
    BY DEF CompilerAlign
  <2>5. Max({m.aligned, own}) = IF m.aligned >= own THEN m.aligned ELSE own
    BY <2>2, GreaterOfTwo
  <2>6. CASE body.packed
    <3>1. m.aligned <= 1 /\ own = 1
      BY <2>3, <2>6 DEF MemberHarmless
    <3>2. Max({m.aligned, own}) = 1
      BY <2>2, <2>5, <3>1
    <3>3. Lower(1, Last(compiler).value) = 1 /\ Lower(m.type.align, 1) = 1
      BY <1>1, <2>2, LowerOf
    <3>4. QED
      BY <1>1, <2>4, <2>6, <3>2, <3>3
  <2>7. CASE ~ body.packed
    <3>1. /\ body.pack = Last(compiler).value
          /\ Lower(m.type.align, body.pack)
               = IF body.pack # 0 /\ body.pack < m.type.align THEN body.pack ELSE m.type.align
      BY <1>1, <2>2, <2>7, LowerOf
    <3>2. /\ m.packed => Lower(m.type.align, body.pack) <= 1
          /\ m.aligned <= Lower(m.type.align, body.pack)
      BY <2>3, <2>7 DEF MemberHarmless, Effective
    <3>3. CASE m.packed
      <4>1. own = 1 /\ Lower(m.type.align, body.pack) = 1 /\ m.aligned <= 1
        BY <1>1, <2>2, <3>1, <3>2, <3>3
      <4>2. Max({m.aligned, own}) = 1 /\ Lower(1, body.pack) = 1
        BY <1>1, <2>2, <2>5, <4>1, LowerOf
      <4>3. QED
        BY <2>4, <3>1, <4>1, <4>2
    <3>4. CASE ~ m.packed
      <4>1. own = m.type.align /\ m.aligned <= own
        BY <1>1, <2>2, <2>7, <3>1, <3>2, <3>4
      <4>2. Max({m.aligned, own}) = own
        BY <2>2, <2>5, <4>1
      <4>3. QED
        BY <2>4, <3>1, <4>1, <4>2
    <3>5. QED
      BY <2>2, <3>3, <3>4
  <2>8. QED
    BY <1>1, <2>6, <2>7
<1>3. [i \in DOMAIN body.members |-> Lower(body.members[i].type.align, body.pack)]
      = [i \in DOMAIN body.members |-> CompilerAlign(body, body.members[i])]
  BY <1>1, <1>2
<1>4. QED
  BY <1>3 DEF CtypesLayout, Compiled

LEMMA OpenBodyKeeps ==
  ASSUME PackInv, NEW kind \in {"struct", "union"}, OpenBody(kind)
  PROVE  PackInv'
<1>1. /\ UNCHANGED <<packs, compiler, result, orderly>>
      /\ body' = [kind |-> kind, pack |-> InForce, align |-> 0, members |-> <<>>,
                  packed |-> FALSE, late |-> FALSE, closing |-> FALSE, fine |-> TRUE]
      /\ InForce \in Nat /\ InForce' = InForce
  BY Pragmas DEF OpenBody, InForce
<1>2. StacksOK' /\ StacksAgree' /\ LoadedAsCompiled'
  BY <1>1 DEF PackInv, StacksOK, StacksAgree, LoadedAsCompiled, Loaded
<1>3. <<>> \in Seq(Members)
  OBVIOUS
<1>4. BodyTypeOK'
  BY <1>1, <1>3 DEF BodyTypeOK
<1>5. body'.members = <<>> /\ Len(<<>>) = 0
  BY <1>1, EmptySeq
<1>6. MembersOK'
  BY <1>5 DEF MembersOK
<1>7. QED
  BY <1>2, <1>4, <1>6 DEF PackInv

\* A marker or a member changes nothing but the body.
InBody == body # Unread /\ UNCHANGED <<packs, compiler, result, orderly>>

LEMMA InBodyKeeps ==
  ASSUME PackInv, InBody, BodyTypeOK', MembersOK'
  PROVE  PackInv'
BY DEF PackInv, InBody, StacksOK, StacksAgree, LoadedAsCompiled, Loaded

LEMMA PackedKeeps ==
  ASSUME PackInv, PackedMarker
  PROVE  PackInv'
<1>1. InBody /\ InForce' = InForce
  BY DEF PackedMarker, InBody, InForce
<1> DEFINE early == ~body.packed /\ \E m \in ToSet(body.members) : m.aligned > 1
<1>2. /\ body \in [kind : {"struct", "union"}, pack : Nat, align : Nat, members : Seq(Members),
                   packed : BOOLEAN, late : BOOLEAN, closing : BOOLEAN, fine : BOOLEAN]
      /\ body.members \in Seq(Members) /\ DOMAIN body.members = 1 .. Len(body.members)
  BY <1>1, LenProperties DEF PackInv, BodyTypeOK, InBody
<1>3. /\ body' = [body EXCEPT !.pack = 1, !.packed = TRUE, !.closing = AtEnd, !.late = (body.late \/ early)]
      /\ AtEnd \in BOOLEAN /\ early \in BOOLEAN
  BY DEF PackedMarker, AtEnd
<1>4. ~early => body.packed \/ \A i \in 1 .. Len(body.members) : ~ (body.members[i].aligned > 1)
  BY <1>2 DEF ToSet
<1> HIDE DEF early
<1>5. /\ body'.pack = 1 /\ body'.packed /\ body'.members = body.members /\ body'.fine = body.fine
      /\ body'.late = (body.late \/ early)
  BY <1>2, <1>3
<1>6. BodyTypeOK'
  BY <1>2, <1>3, <1>5 DEF BodyTypeOK
<1>7. MembersOK'
  <2> SUFFICES ASSUME body'.fine, NEW i \in 1 .. Len(body.members), ~ body'.late
               PROVE  body.members[i].aligned <= 1
    BY <1>5 DEF MembersOK, MemberHarmless
  <2>1. body.members[i] \in Members
    BY <1>2, ElementOfSeq
  <2>2. body.packed => body.members[i].aligned <= 1
    BY <1>1, <1>5 DEF PackInv, MembersOK, MemberHarmless, InBody
  <2>3. ~early /\ ~body.late
    BY <1>5
  <2>4. body.members[i].aligned \in Nat
    BY <2>1 DEF Members
  <2>5. CASE body.packed
    BY <2>2, <2>5
  <2>6. CASE ~ body.packed
    <3>1. ~ (body.members[i].aligned > 1)
      BY <1>4, <2>3, <2>6
    <3>2. QED
      BY <2>4, <3>1
  <2>7. QED
    BY <2>5, <2>6
<1>8. QED
  BY <1>1, <1>6, <1>7, InBodyKeeps

LEMMA AlignedKeeps ==
  ASSUME PackInv, NEW n \in Alignments, AlignedMarker(n)
  PROVE  PackInv'
<1>1. InBody /\ InForce' = InForce
  BY DEF AlignedMarker, InBody, InForce
<1>2. body \in [kind : {"struct", "union"}, pack : Nat, align : Nat, members : Seq(Members),
                packed : BOOLEAN, late : BOOLEAN, closing : BOOLEAN, fine : BOOLEAN]
  BY <1>1 DEF PackInv, BodyTypeOK, InBody
<1>3. PICK a \in Nat : body' = [body EXCEPT !.align = a, !.closing = AtEnd]
  <2>1. body.align \in Nat /\ n \in Nat
    BY <1>2, PackTypes
  <2>2. Max({body.align, n}) \in Nat
    BY <2>1, GreaterOfTwo
  <2>3. QED
    BY <2>2 DEF AlignedMarker
<1>4. /\ body'.pack = body.pack /\ body'.packed = body.packed /\ body'.members = body.members
      /\ body'.fine = body.fine /\ body'.late = body.late
  BY <1>2, <1>3
<1>5. BodyTypeOK'
  BY <1>1, <1>2, <1>3, <1>4 DEF PackInv, BodyTypeOK, AtEnd, InBody
<1>6. MembersOK'
  BY <1>1, <1>4 DEF PackInv, MembersOK, MemberHarmless, Effective, InBody
<1>7. QED
  BY <1>1, <1>5, <1>6, InBodyKeeps

LEMMA MemberKeeps ==
  ASSUME PackInv, NEW t \in Types, NEW packed \in BOOLEAN, NEW n \in Alignments \cup {0},
         Member(t, packed, n)
  PROVE  PackInv'
<1> DEFINE m == [type |-> t, packed |-> packed, aligned |-> n]
<1>1. InBody /\ InForce' = InForce
  BY DEF Member, InBody, InForce
<1>2. /\ body \in [kind : {"struct", "union"}, pack : Nat, align : Nat, members : Seq(Members),
                   packed : BOOLEAN, late : BOOLEAN, closing : BOOLEAN, fine : BOOLEAN]
      /\ body.members \in Seq(Members) /\ body.pack \in Nat
      /\ body.packed => body.pack = 1
  BY <1>1 DEF PackInv, BodyTypeOK, InBody
<1>3. body' = [body EXCEPT !.members = Append(body.members, m), !.fine = (body.fine /\ Exact(t, packed, n))]
  BY DEF Member
<1>4. m \in Members /\ n \in Nat /\ t.align \in Nat /\ t.align >= 1
      /\ m.type = t /\ m.packed = packed /\ m.aligned = n
  BY PackTypes DEF Members
<1> HIDE DEF m
<1>5. /\ body'.pack = body.pack /\ body'.packed = body.packed /\ body'.late = body.late
      /\ body'.members = Append(body.members, m) /\ body'.fine = (body.fine /\ Exact(t, packed, n))
  BY <1>2, <1>3
<1>6. /\ Append(body.members, m) \in Seq(Members)
      /\ Len(Append(body.members, m)) = Len(body.members) + 1
      /\ \A i \in 1 .. Len(body.members) : Append(body.members, m)[i] = body.members[i]
      /\ Append(body.members, m)[Len(body.members) + 1] = m
      /\ Len(body.members) \in Nat
  BY <1>2, <1>4, AppendProperties
<1>7. Exact(t, packed, n) \in BOOLEAN
  BY DEF Exact
<1>8. BodyTypeOK'
  BY <1>1, <1>2, <1>3, <1>5, <1>6, <1>7 DEF PackInv, BodyTypeOK, InBody
<1>9. MembersOK'
  <2> SUFFICES ASSUME body.fine, Exact(t, packed, n), NEW i \in 1 .. Len(body'.members)
               PROVE  MemberHarmless(body.members[i])'
    BY <1>5 DEF MembersOK
  <2>1. CASE i \in 1 .. Len(body.members)
    BY <1>1, <1>5, <1>6, <2>1 DEF PackInv, MembersOK, MemberHarmless, Effective, InBody
  <2>2. CASE i = Len(body.members) + 1
    <3>1. body'.members[i] = m /\ (packed => Effective(t) <= 1) /\ n <= Effective(t)
      BY <1>5, <1>6, <2>2 DEF Exact
    <3>2. body.packed => Effective(t) = 1
      BY <1>2, <1>4, LowerOf DEF Effective
    <3>3. body.packed => n <= 1
      BY <3>1, <3>2
    <3>4. QED
      BY <1>4, <1>5, <3>1, <3>3 DEF MemberHarmless, Effective
  <2>3. QED
    BY <1>5, <1>6, <2>1, <2>2
<1>10. QED
  BY <1>1, <1>8, <1>9, InBodyKeeps

LEMMA CloseKeeps ==
  ASSUME PackInv, CloseBody
  PROVE  PackInv'
<1>1. body' = Unread /\ UNCHANGED <<packs, compiler, orderly>> /\ body # Unread
  BY DEF CloseBody
<1>2. StacksOK' /\ StacksAgree' /\ BodyTypeOK' /\ MembersOK'
  BY <1>1 DEF PackInv, StacksOK, StacksAgree, BodyTypeOK, MembersOK
<1>3. LoadedAsCompiled'
  <2> SUFFICES ASSUME Loaded', orderly', ~ result'.late
               PROVE  result'.loaded = result'.compiled
    BY DEF LoadedAsCompiled
  <2>1. /\ result'.loaded = IF body.fine THEN CtypesLayout(body) ELSE Unsupported
        /\ result'.compiled = Compiled(body) /\ result'.late = body.late
    BY DEF CloseBody
  <2>2. body.fine
    BY <2>1 DEF Loaded
  <2>3. QED
    BY <1>1, <2>1, <2>2, Laying
<1>4. QED
  BY <1>2, <1>3 DEF PackInv

LEMMA PragmaInsideKeeps ==
  ASSUME PackInv, NEW n \in Packs \cup {0}, PragmaInside(n)
  PROVE  PackInv'
<1>1. /\ body # Unread /\ UNCHANGED <<packs, result>> /\ orderly' = FALSE /\ InForce' = InForce
      /\ body' = [body EXCEPT !.fine = FALSE]
  BY DEF PragmaInside, InForce
<1>2. body \in [kind : {"struct", "union"}, pack : Nat, align : Nat, members : Seq(Members),
                packed : BOOLEAN, late : BOOLEAN, closing : BOOLEAN, fine : BOOLEAN]
  BY <1>1 DEF PackInv, BodyTypeOK
<1>3. body'.pack = body.pack /\ body'.packed = body.packed /\ body'.fine = FALSE
  BY <1>1, <1>2
<1>4. StacksOK' /\ StacksAgree' /\ MembersOK' /\ LoadedAsCompiled'
  BY <1>1, <1>3 DEF PackInv, StacksOK, StacksAgree, MembersOK, LoadedAsCompiled
<1>5. BodyTypeOK'
  BY <1>1, <1>2, <1>3 DEF PackInv, BodyTypeOK
<1>6. QED
  BY <1>4, <1>5 DEF PackInv

LEMMA PackInvNext == PackInv /\ [PackNext]_packVars => PackInv'
<1> SUFFICES ASSUME PackInv, [PackNext]_packVars PROVE PackInv'
  OBVIOUS
<1>1. ASSUME NEW n \in Packs \cup {0}, SetPack(n) PROVE PackInv'
  <2>1. StacksOK' /\ StacksAgree'
    BY <1>1, PackTypes, SetKeeps DEF SetPack
  <2>2. QED
    BY <1>1, <2>1, SameBody DEF SetPack, Between
<1>2. ASSUME NEW id \in Ids \cup {Unnamed}, NEW n \in Packs \cup {0}, Push(id, n) PROVE PackInv'
  BY <1>2, PushKeeps, SameBody DEF Push, Between
<1>3. ASSUME NEW id \in Ids \cup {Unnamed}, Pop(id) PROVE PackInv'
  BY <1>3, PopKeeps, SameBody DEF Pop, Between
<1>4. CASE UNCHANGED packVars
  BY <1>4, SameBody DEF packVars, PackInv, StacksOK, StacksAgree, InForce
<1>5. QED
  BY <1>1, <1>2, <1>3, <1>4, OpenBodyKeeps, PackedKeeps, AlignedKeeps, MemberKeeps, CloseKeeps,
     PragmaInsideKeeps DEF PackNext

\* A struct that is loaded has the layout the compiler gives it, whatever
\* pragmas came before it and whatever its attributes say (pragma, fields and
\* check_alignment of cheader/convert.py).
THEOREM StructsLoadedAsCompiled == PackSpec => []LoadedAsCompiled
<1>1. PackInv => LoadedAsCompiled
  BY DEF PackInv
<1>2. QED
  BY <1>1, PackInvInit, PackInvNext, PTL DEF PackSpec

-----------------------------------------------------------------------------
(* The inductive invariant of HeaderScan                                    *)

\* What is read, and what a long way to the brace is shortened to.
Shown == {"struct", "enum", "word", "(", ")", "=", "lbrace", "rbrace", "semicolon", "more"}
Destinations == {"pending", "waiting", "aggregate", "member", "failed"}
Attrs == [to : Destinations, on : Nat, landed : Nat, span : Nat, inner : Nat,
          since : Seq(Shown), parens : BOOLEAN]
Braces == [kind : {"aggregate", "enum", "other"}, id : Nat, waiting : SUBSET Nat]

ScanTyped ==
  /\ scanned \in Seq(Attrs) /\ stack \in Seq(Braces)
  /\ span \in Nat /\ opened \in Nat /\ pending \subseteq Nat /\ bodies \subseteq Nat /\ closed.id \in Nat
  /\ parens \in BOOLEAN /\ mayName \in BOOLEAN /\ ended \in BOOLEAN

\* Attributes are numbered as the declarations are.
SpansOK ==
  /\ \A b \in bodies : b < span
  /\ \A i \in 1 .. Len(scanned) :
       /\ scanned[i].span <= span
       /\ \A j \in 1 .. Len(scanned) : i <= j => scanned[i].span <= scanned[j].span

\* What waits for a brace is of the declaration being read, or of a function.
Current(i) == scanned[i].span = span \/ scanned[i].span \in bodies
PendingOK ==
  /\ \A i \in pending : i \in 1 .. Len(scanned) /\ scanned[i].to = "pending" /\ Current(i)
  /\ \A i \in 1 .. Len(scanned) : scanned[i].to = "pending" => i \in pending
  /\ ended => pending = {} /\ stack = <<>>

\* What waits for the end of its member is kept with the struct it is in.
WaitingOK ==
  /\ \A i \in 1 .. Len(scanned) : scanned[i].to = "waiting" =>
       scanned[i].span = span /\ \E k \in 1 .. Len(stack) : i \in stack[k].waiting
  /\ \A k \in 1 .. Len(stack) : \A i \in stack[k].waiting :
       /\ i \in 1 .. Len(scanned) /\ scanned[i].to = "waiting" /\ scanned[i].inner = stack[k].id
       /\ \A l \in 1 .. Len(stack) : i \in stack[l].waiting => k = l

\* Behind struct, and its tag, the text has no other struct keyword.
KeywordOK == AfterKeyword("struct") => ~mayName

\* Either what was read since an attribute leads to the brace of its struct,
\* or no struct can come any more.
OnTrack(since) ==
  \/ since = <<>> /\ AfterKeyword("struct")
  \/ since = <<>> /\ expect = "struct" /\ ~AfterKeyword("struct")
  \/ since = <<"word">> /\ prev = "word" /\ prev2 = "struct"
  \/ since = <<"struct">> /\ prev = "struct"
  \/ since = <<"struct", "word">> /\ prev = "word" /\ prev2 = "struct"
  \/ ~AfterKeyword("struct") /\ ~mayName
TrailOK ==
  \A i \in pending : scanned[i].span \notin bodies /\ ~scanned[i].parens =>
    ~parens /\ OnTrack(scanned[i].since)

ToBrace == {<<>>, <<"lbrace">>, <<"word", "lbrace">>, <<"struct", "lbrace">>, <<"struct", "word", "lbrace">>}
SettledOK ==
  \A i \in 1 .. Len(scanned) : scanned[i].span \notin bodies =>
    /\ scanned[i].to = "aggregate" =>
         scanned[i].landed = scanned[i].span /\ (scanned[i].parens \/ scanned[i].since \in ToBrace)
    /\ scanned[i].to = "member" =>
         scanned[i].on = scanned[i].inner /\ scanned[i].landed = scanned[i].span
    /\ scanned[i].to = "failed" => scanned[i].span \in reported

ScanInv == ScanTyped /\ SpansOK /\ PendingOK /\ WaitingOK /\ KeywordOK /\ TrailOK /\ SettledOK

LEMMA ScanInvInit == ScanInit => ScanInv
<1> SUFFICES ASSUME ScanInit PROVE ScanInv
  OBVIOUS
<1>1. scanned = <<>> /\ stack = <<>> /\ pending = {} /\ bodies = {} /\ prev = "semicolon" /\ ended = FALSE
  BY DEF ScanInit
<1>2. /\ scanned \in Seq(Attrs) /\ stack \in Seq(Braces)
      /\ 1 .. Len(scanned) = {} /\ 1 .. Len(stack) = {}
  <2>1. <<>> \in Seq(Attrs) /\ <<>> \in Seq(Braces) /\ Len(<<>>) = 0
    BY EmptySeq
  <2>2. 1 .. 0 = {}
    OBVIOUS
  <2>3. QED
    BY <1>1, <2>1, <2>2
<1>3. ScanTyped
  BY <1>1, <1>2 DEF ScanInit, ScanTyped, NoBrace
<1>4. SpansOK /\ PendingOK /\ WaitingOK
  BY <1>1, <1>2 DEF SpansOK, PendingOK, WaitingOK
<1>5. KeywordOK /\ TrailOK /\ SettledOK
  BY <1>1, <1>2 DEF KeywordOK, AfterKeyword, TrailOK, SettledOK
<1>6. QED
  BY <1>3, <1>4, <1>5 DEF ScanInv

-----------------------------------------------------------------------------
(* The table of attributes                                                  *)

LEMMA Greatest ==
  ASSUME NEW n \in Nat, NEW s \in SUBSET (1 .. n), s # {}
  PROVE  \E i \in s : \A j \in s : j <= i
<1> DEFINE S == {m \in Nat : \A t \in SUBSET (1 .. m) : t # {} => \E i \in t : \A j \in t : j <= i}
<1>1. 0 \in S
  <2>1. 1 .. 0 = {}
    OBVIOUS
  <2>2. QED
    BY <2>1
<1>2. ASSUME NEW m \in Nat, m \in S PROVE m + 1 \in S
  <2> SUFFICES ASSUME NEW t \in SUBSET (1 .. m + 1), t # {}
               PROVE  \E i \in t : \A j \in t : j <= i
    OBVIOUS
  <2>1. CASE m + 1 \in t
    BY <2>1
  <2>2. CASE m + 1 \notin t
    <3>1. t \in SUBSET (1 .. m)
      BY <2>2
    <3>2. QED
      BY <1>2, <3>1
  <2>3. QED
    BY <2>1, <2>2
<1> HIDE DEF S
<1>3. n \in S
  BY <1>1, <1>2, AllNumbers
<1>4. QED
  BY <1>3 DEF S

LEMMA Becoming ==
  ASSUME NEW table \in Seq(Attrs), NEW some, NEW to \in Destinations, NEW on \in Nat, span \in Nat
  PROVE  /\ Becomes(table, some, to, on) \in Seq(Attrs)
         /\ Len(Becomes(table, some, to, on)) = Len(table)
         /\ \A i \in 1 .. Len(table) : LET b == Becomes(table, some, to, on)[i] IN
              /\ b.span = table[i].span /\ b.inner = table[i].inner
              /\ i \notin some => b = table[i]
              /\ i \in some => b.to = to /\ b.landed = span
              /\ i \in some /\ to # "failed" =>
                   b.on = on /\ b.since = table[i].since /\ b.parens = table[i].parens
<1> DEFINE B == Becomes(table, some, to, on)
<1>1. Len(table) \in Nat /\ DOMAIN table = 1 .. Len(table) /\ <<>> \in Seq(Shown)
  BY LenProperties
<1>2. ASSUME NEW i \in 1 .. Len(table)
      PROVE  /\ B[i] \in Attrs
             /\ B[i].span = table[i].span /\ B[i].inner = table[i].inner
             /\ i \notin some => B[i] = table[i]
             /\ i \in some => B[i].to = to /\ B[i].landed = span
             /\ i \in some /\ to # "failed" =>
                  B[i].on = on /\ B[i].since = table[i].since /\ B[i].parens = table[i].parens
  <2> DEFINE a == table[i]
  <2>1. a \in Attrs
    BY ElementOfSeq
  <2>2. B[i] = IF i \notin some THEN a
               ELSE IF to = "failed"
               THEN [a EXCEPT !.to = to, !.landed = span, !.since = <<>>, !.parens = FALSE]
               ELSE [a EXCEPT !.to = to, !.on = on, !.landed = span]
    BY <1>1 DEF Becomes
  <2> HIDE DEF a, B
  <2>3. QED
    BY <1>1, <2>1, <2>2 DEF Attrs, a
<1>3. B = [i \in 1 .. Len(table) |-> B[i]]
  BY <1>1 DEF Becomes
<1> HIDE DEF B
<1>4. B \in Seq(Attrs) /\ Len(B) = Len(table)
  BY <1>1, <1>2, <1>3, IsASeq
<1>5. QED
  BY <1>2, <1>4 DEF B

LEMMA Seeing ==
  ASSUME ScanTyped, NEW t \in Shown
  PROVE  /\ SeenAfter(t) \in Seq(Attrs)
         /\ Len(SeenAfter(t)) = Len(scanned)
         /\ \A i \in 1 .. Len(scanned) : LET b == SeenAfter(t)[i] IN
              /\ b.to = scanned[i].to /\ b.on = scanned[i].on /\ b.landed = scanned[i].landed
              /\ b.span = scanned[i].span /\ b.inner = scanned[i].inner
              /\ i \notin pending => b = scanned[i]
              /\ i \in pending /\ ~b.parens => ~scanned[i].parens /\ t # "("
              /\ i \in pending /\ Len(scanned[i].since) < 3 =>
                   b.since = Append(scanned[i].since, t)
<1> DEFINE B == SeenAfter(t)
<1>1. /\ scanned \in Seq(Attrs) /\ Len(scanned) \in Nat /\ DOMAIN scanned = 1 .. Len(scanned)
  BY LenProperties DEF ScanTyped
<1>2. ASSUME NEW i \in 1 .. Len(scanned)
      PROVE  /\ B[i] \in Attrs
             /\ B[i].to = scanned[i].to /\ B[i].on = scanned[i].on
             /\ B[i].landed = scanned[i].landed
             /\ B[i].span = scanned[i].span /\ B[i].inner = scanned[i].inner
             /\ i \notin pending => B[i] = scanned[i]
             /\ i \in pending /\ ~B[i].parens => ~scanned[i].parens /\ t # "("
             /\ i \in pending /\ Len(scanned[i].since) < 3 =>
                  B[i].since = Append(scanned[i].since, t)
  <2> DEFINE a == scanned[i]
             q == IF Len(a.since) < 3 THEN Append(a.since, t)
                  ELSE Append(SubSeq(a.since, 1, 2), "more")
             p == a.parens \/ t = "("
  <2>1. a \in Attrs
    BY <1>1, ElementOfSeq
  <2>2. a.since \in Seq(Shown) /\ Len(a.since) \in Nat
    BY <2>1, LenProperties DEF Attrs
  <2>3. q \in Seq(Shown)
    <3>1. CASE Len(a.since) < 3
      BY <2>2, <3>1, AppendProperties
    <3>2. CASE ~ (Len(a.since) < 3)
      <4>1. \A k \in 1 .. 2 : a.since[k] \in Shown
        BY <2>2, <3>2, ElementOfSeq
      <4>2. SubSeq(a.since, 1, 2) \in Seq(Shown)
        BY <4>1, SubSeqProperties, Z3
      <4>3. QED
        <5>1. "more" \in Shown
          BY DEF Shown
        <5>2. QED
          BY <3>2, <4>2, <5>1, AppendProperties
    <3>3. QED
      BY <3>1, <3>2
  <2>4. p \in BOOLEAN /\ (~p => ~a.parens /\ t # "(")
    OBVIOUS
  <2>5. B[i] = IF i \in pending THEN [a EXCEPT !.since = q, !.parens = p] ELSE a
    BY <1>1 DEF SeenAfter
  <2>6. Len(a.since) < 3 => q = Append(a.since, t)
    OBVIOUS
  <2> HIDE DEF p, q, B
  <2>7. a.to = scanned[i].to /\ a.on = scanned[i].on /\ a.landed = scanned[i].landed
        /\ a.span = scanned[i].span /\ a.inner = scanned[i].inner /\ a = scanned[i]
        /\ a.parens = scanned[i].parens /\ a.since = scanned[i].since
    OBVIOUS
  <2> HIDE DEF a
  <2>8. CASE i \in pending
    <3>1. /\ B[i].to = a.to /\ B[i].on = a.on /\ B[i].landed = a.landed /\ B[i].span = a.span
          /\ B[i].inner = a.inner /\ B[i].since = q /\ B[i].parens = p
      BY <2>1, <2>5, <2>8 DEF Attrs
    <3>2. B[i] \in Attrs
      BY <2>1, <2>3, <2>4, <2>5, <2>8 DEF Attrs
    <3>3. QED
      BY <2>4, <2>6, <2>7, <2>8, <3>1, <3>2
  <2>9. CASE i \notin pending
    BY <2>1, <2>5, <2>7, <2>9
  <2>10. QED
    BY <2>8, <2>9
<1>3. B = [i \in 1 .. Len(scanned) |-> B[i]]
  BY <1>1 DEF SeenAfter
<1> HIDE DEF B
<1>4. B \in Seq(Attrs) /\ Len(B) = Len(scanned)
  BY <1>1, <1>2, <1>3, IsASeq
<1>5. QED
  BY <1>2, <1>4 DEF B

\* A token that lets the markers in some fail.
LEMMA TokenTable ==
  ASSUME ScanTyped, NEW t \in Shown, NEW some \in SUBSET pending,
         scanned' = Becomes(SeenAfter(t), some, "failed", 0)
  PROVE  /\ scanned' \in Seq(Attrs) /\ Len(scanned') = Len(scanned)
         /\ \A i \in 1 .. Len(scanned) :
              /\ scanned'[i].span = scanned[i].span /\ scanned'[i].inner = scanned[i].inner
              /\ i \notin pending => scanned'[i] = scanned[i]
              /\ i \in some => scanned'[i].to = "failed"
              /\ i \in pending \ some =>
                   /\ scanned'[i].to = scanned[i].to
                   /\ ~scanned'[i].parens => ~scanned[i].parens /\ t # "("
                   /\ Len(scanned[i].since) < 3 =>
                        scanned'[i].since = Append(scanned[i].since, t)
<1> DEFINE seen == SeenAfter(t)
<1>1. seen \in Seq(Attrs) /\ Len(seen) = Len(scanned) /\ span \in Nat
      /\ "failed" \in Destinations /\ 0 \in Nat
  BY Seeing DEF ScanTyped, Destinations
<1>2. \A i \in 1 .. Len(scanned) :
        /\ seen[i].to = scanned[i].to
        /\ seen[i].span = scanned[i].span /\ seen[i].inner = scanned[i].inner
        /\ i \notin pending => seen[i] = scanned[i]
        /\ i \in pending /\ ~seen[i].parens => ~scanned[i].parens /\ t # "("
        /\ i \in pending /\ Len(scanned[i].since) < 3 =>
             seen[i].since = Append(scanned[i].since, t)
  BY Seeing
<1> HIDE DEF seen
<1>3. /\ scanned' \in Seq(Attrs) /\ Len(scanned') = Len(seen)
      /\ \A i \in 1 .. Len(seen) :
           /\ scanned'[i].span = seen[i].span /\ scanned'[i].inner = seen[i].inner
           /\ i \notin some => scanned'[i] = seen[i]
           /\ i \in some => scanned'[i].to = "failed"
  BY <1>1, Becoming DEF seen
<1>4. QED
  BY <1>1, <1>2, <1>3

\* One at which, then, what is in settled has arrived.
Settled(t, some, settled, to, on) ==
  {T \in Seq(Attrs) :
     /\ Len(T) = Len(scanned)
     /\ \A i \in 1 .. Len(scanned) :
          /\ T[i].span = scanned[i].span /\ T[i].inner = scanned[i].inner
          /\ i \notin pending \cup settled => T[i] = scanned[i]
          /\ i \in some => T[i].to = "failed"
          /\ i \in pending \ (some \cup settled) => T[i].to = scanned[i].to
          /\ i \in settled => T[i].to = to /\ T[i].on = on /\ T[i].landed = span
          /\ i \in pending \ some =>
               /\ ~T[i].parens => ~scanned[i].parens /\ t # "("
               /\ Len(scanned[i].since) < 3 => T[i].since = Append(scanned[i].since, t)}

LEMMA SettlingTable ==
  ASSUME ScanTyped, NEW t \in Shown, NEW some \in SUBSET pending, NEW settled,
         NEW to \in Destinations \ {"failed"}, NEW on \in Nat, some \cap settled = {},
         scanned' = Becomes(Becomes(SeenAfter(t), some, "failed", 0), settled, to, on)
  PROVE  scanned' \in Settled(t, some, settled, to, on)
<1> DEFINE seen == SeenAfter(t)
           left == Becomes(seen, some, "failed", 0)
<1>1. seen \in Seq(Attrs) /\ Len(seen) = Len(scanned) /\ span \in Nat
      /\ "failed" \in Destinations /\ 0 \in Nat
  BY Seeing DEF ScanTyped, Destinations
<1>2. \A i \in 1 .. Len(scanned) :
        /\ seen[i].to = scanned[i].to
        /\ seen[i].span = scanned[i].span /\ seen[i].inner = scanned[i].inner
        /\ i \notin pending => seen[i] = scanned[i]
        /\ i \in pending /\ ~seen[i].parens => ~scanned[i].parens /\ t # "("
        /\ i \in pending /\ Len(scanned[i].since) < 3 =>
             seen[i].since = Append(scanned[i].since, t)
  BY Seeing
<1> HIDE DEF seen
<1>3. /\ left \in Seq(Attrs) /\ Len(left) = Len(seen)
      /\ \A i \in 1 .. Len(seen) :
           /\ left[i].span = seen[i].span /\ left[i].inner = seen[i].inner
           /\ i \notin some => left[i] = seen[i]
           /\ i \in some => left[i].to = "failed"
  BY <1>1, Becoming
<1>4. scanned' = Becomes(left, settled, to, on)
  BY DEF seen
<1> HIDE DEF left
<1>5. /\ scanned' \in Seq(Attrs) /\ Len(scanned') = Len(left)
      /\ \A i \in 1 .. Len(left) :
           /\ scanned'[i].span = left[i].span /\ scanned'[i].inner = left[i].inner
           /\ i \notin settled => scanned'[i] = left[i]
           /\ i \in settled =>
                /\ scanned'[i].to = to /\ scanned'[i].landed = span /\ scanned'[i].on = on
                /\ scanned'[i].since = left[i].since /\ scanned'[i].parens = left[i].parens
  BY <1>1, <1>3, <1>4, Becoming
<1>6. /\ scanned' \in Seq(Attrs) /\ Len(scanned') = Len(scanned)
      /\ \A i \in 1 .. Len(scanned) :
           /\ scanned'[i].span = scanned[i].span /\ scanned'[i].inner = scanned[i].inner
           /\ i \notin pending \cup settled => scanned'[i] = scanned[i]
           /\ i \in some => scanned'[i].to = "failed"
           /\ i \in pending \ (some \cup settled) => scanned'[i].to = scanned[i].to
           /\ i \in settled =>
                scanned'[i].to = to /\ scanned'[i].on = on /\ scanned'[i].landed = span
           /\ i \in pending \ some =>
                /\ ~scanned'[i].parens => ~scanned[i].parens /\ t # "("
                /\ Len(scanned[i].since) < 3 =>
                     scanned'[i].since = Append(scanned[i].since, t)
  <2>1. Len(seen) = Len(scanned) /\ Len(left) = Len(scanned)
    BY <1>1, <1>3
  <2>2. scanned' \in Seq(Attrs) /\ Len(scanned') = Len(scanned)
    BY <1>5, <2>1
  <2>3. ASSUME NEW i \in 1 .. Len(scanned)
        PROVE  /\ scanned'[i].span = scanned[i].span /\ scanned'[i].inner = scanned[i].inner
               /\ i \notin pending \cup settled => scanned'[i] = scanned[i]
               /\ i \in some => scanned'[i].to = "failed"
               /\ i \in pending \ (some \cup settled) => scanned'[i].to = scanned[i].to
    BY <1>1, <1>2, <1>3, <1>5, <2>1, <2>3
  <2>4. ASSUME NEW i \in 1 .. Len(scanned)
        PROVE  i \in settled =>
                 scanned'[i].to = to /\ scanned'[i].on = on /\ scanned'[i].landed = span
    BY <1>5, <2>1, <2>4
  <2>5. ASSUME NEW i \in 1 .. Len(scanned)
        PROVE  i \in pending \ some =>
                 /\ ~scanned'[i].parens => ~scanned[i].parens /\ t # "("
                 /\ Len(scanned[i].since) < 3 =>
                      scanned'[i].since = Append(scanned[i].since, t)
    BY <1>1, <1>2, <1>3, <1>5, <2>1, <2>5
  <2>6. QED
    BY <2>2, <2>3, <2>4, <2>5
<1>7. QED
  BY <1>6 DEF Settled

LEMMA FailedReported ==
  ASSUME ScanInv, NEW some \in SUBSET pending, NEW i \in some, scanned[i].span \notin bodies
  PROVE  scanned[i].span \in Reports(some)
<1>1. some \in SUBSET (1 .. Len(scanned)) /\ Len(scanned) \in Nat
  BY LenProperties DEF ScanInv, PendingOK, ScanTyped
<1>2. \E j \in some : \A k \in some : k <= j
  BY <1>1, Greatest
<1> DEFINE j == CHOOSE j \in some : \A k \in some : k <= j
<1>3. j \in some /\ i <= j
  BY <1>2
<1>4. Reports(some) = {scanned[j].span}
  BY DEF Reports
<1> HIDE DEF j
<1>5. /\ scanned[i].span <= scanned[j].span /\ scanned[j].span <= span
      /\ scanned[i].span = span /\ scanned[j].span \in Nat /\ span \in Nat
  <2>1. i \in 1 .. Len(scanned) /\ j \in 1 .. Len(scanned)
    BY <1>1, <1>3
  <2>2. scanned[j] \in Attrs
    BY <1>1, <2>1, ElementOfSeq DEF ScanInv, ScanTyped
  <2>3. QED
    BY <1>3, <2>1, <2>2 DEF ScanInv, ScanTyped, SpansOK, PendingOK, Current, Attrs
<1>6. QED
  BY <1>4, <1>5

-----------------------------------------------------------------------------
(* Every step keeps the invariant                                           *)

LEMMA ScanFacts ==
  ASSUME ScanInv
  PROVE  /\ scanned \in Seq(Attrs) /\ stack \in Seq(Braces)
         /\ Len(scanned) \in Nat /\ Len(stack) \in Nat
         /\ span \in Nat /\ opened \in Nat
         /\ \A i \in 1 .. Len(scanned) : scanned[i].span \in Nat /\ scanned[i].since \in Seq(Shown)
         /\ pending \subseteq 1 .. Len(scanned)
         /\ stack = <<>> => Innermost = [kind |-> "none", id |-> 0, waiting |-> {}]
         /\ stack # <<>> => Innermost = stack[Len(stack)] /\ Len(stack) \in 1 .. Len(stack)
         /\ Innermost.id \in Nat
         /\ \A i \in Innermost.waiting :
              /\ i \in 1 .. Len(scanned) /\ scanned[i].to = "waiting"
              /\ scanned[i].inner = Innermost.id /\ scanned[i].span = span
              /\ i \notin pending
<1>1. /\ scanned \in Seq(Attrs) /\ stack \in Seq(Braces) /\ span \in Nat /\ opened \in Nat
      /\ Len(scanned) \in Nat /\ Len(stack) \in Nat
  BY LenProperties DEF ScanInv, ScanTyped
<1>2. ASSUME NEW i \in 1 .. Len(scanned) PROVE scanned[i].span \in Nat /\ scanned[i].since \in Seq(Shown)
  <2>1. scanned[i] \in Attrs
    BY <1>1, ElementOfSeq
  <2>2. QED
    BY <2>1 DEF Attrs
<1>3. pending \subseteq 1 .. Len(scanned) /\ \A i \in pending : scanned[i].to = "pending"
  BY DEF ScanInv, PendingOK
<1>4. CASE stack = <<>>
  <2>1. Innermost = [kind |-> "none", id |-> 0, waiting |-> {}]
    BY <1>4 DEF Innermost
  <2>2. QED
    BY <1>1, <1>2, <1>3, <1>4, <2>1
<1>5. CASE stack # <<>>
  <2>1. Len(stack) \in Nat \ {0} /\ Len(stack) \in 1 .. Len(stack)
    BY <1>1, <1>5, EmptySeq
  <2>2. Innermost = stack[Len(stack)]
    BY <1>5 DEF Innermost, Last
  <2>3. stack[Len(stack)] \in Braces
    BY <1>1, <2>1, ElementOfSeq
  <2>4. \A i \in stack[Len(stack)].waiting :
          /\ i \in 1 .. Len(scanned) /\ scanned[i].to = "waiting"
          /\ scanned[i].inner = stack[Len(stack)].id /\ scanned[i].span = span
    BY <2>1 DEF ScanInv, WaitingOK
  <2>5. QED
    BY <1>1, <1>2, <1>3, <1>5, <2>1, <2>2, <2>3, <2>4 DEF Braces
<1>6. QED
  BY <1>4, <1>5

LEMMA NothingOpen == stack = <<>> => 1 .. Len(stack) = {}
<1>1. Len(<<>>) = 0
  BY EmptySeq
<1>2. 1 .. 0 = {}
  OBVIOUS
<1>3. QED
  BY <1>1, <1>2

LEMMA FailIsPending == \A t : Fail(t) \in SUBSET pending
  BY DEF Fail

LEMMA FunctionBodyKeeps ==
  ASSUME ScanInv, FunctionBody
  PROVE  ScanInv'
<1>1. /\ stack = <<>> /\ stack' = <<>> /\ bodies' = bodies \cup {span} /\ span' = span + 1
      /\ pending' = pending \ Fail("lbrace") /\ reported \subseteq reported'
      /\ prev' = "semicolon" /\ ~ ended' /\ "lbrace" \in Shown /\ Fail("lbrace") \in SUBSET pending
  BY FailIsPending DEF FunctionBody, AtTopLevel, ReadToken, Left, Shown
<1>2. /\ scanned' \in Seq(Attrs) /\ Len(scanned') = Len(scanned)
      /\ \A i \in 1 .. Len(scanned) :
           /\ scanned'[i].span = scanned[i].span
           /\ i \notin pending => scanned'[i] = scanned[i]
           /\ i \in Fail("lbrace") => scanned'[i].to = "failed"
           /\ i \in pending \ Fail("lbrace") => scanned'[i].to = scanned[i].to
  <2>1. scanned' = Becomes(SeenAfter("lbrace"), Fail("lbrace"), "failed", 0)
    BY DEF FunctionBody
  <2>2. ScanTyped
    BY DEF ScanInv
  <2> HIDE DEF FunctionBody
  <2>3. QED
    BY <1>1, <2>1, <2>2, TokenTable
<1>3. \A i \in pending : i \in 1 .. Len(scanned) /\ scanned[i].span \in bodies' /\ scanned[i].to = "pending"
  BY <1>1 DEF ScanInv, PendingOK, Current
<1>4. ScanTyped'
  <2>1. closed'.id \in Nat /\ mayName' \in BOOLEAN /\ UNCHANGED <<parens, opened, ended>>
    BY DEF FunctionBody, ReadToken, NoBrace
  <2>2. span' \in Nat /\ bodies' \subseteq Nat /\ pending' \subseteq Nat
    <3>1. span \in Nat /\ span + 1 \in Nat /\ bodies \subseteq Nat /\ pending \subseteq Nat
      BY DEF ScanInv, ScanTyped
    <3>2. QED
      BY <1>1, <3>1
  <2>3. QED
    BY <1>1, <1>2, <2>1, <2>2 DEF ScanInv, ScanTyped
<1>5. SpansOK'
  <2>1. \A b \in bodies' : b < span'
    <3>1. span \in Nat /\ bodies \subseteq Nat /\ \A b \in bodies : b < span
      BY DEF ScanInv, ScanTyped, SpansOK
    <3>2. bodies' = bodies \cup {span} /\ span' = span + 1
      BY <1>1
    <3>3. \A b \in bodies \cup {span} : b < span + 1
      BY <3>1
    <3>4. QED
      BY <3>2, <3>3
  <2>2. \A i \in 1 .. Len(scanned) : scanned[i].span <= span + 1
    BY ScanFacts DEF ScanInv, SpansOK
  <2>3. QED
    BY <1>1, <1>2, <2>1, <2>2 DEF ScanInv, SpansOK
<1>6. PendingOK'
  <2>1. \A i \in pending' : i \in 1 .. Len(scanned') /\ scanned'[i].to = "pending" /\ scanned'[i].span \in bodies'
    BY <1>1, <1>2, <1>3
  <2>2. \A i \in 1 .. Len(scanned') : scanned'[i].to = "pending" => i \in pending'
    BY <1>1, <1>2, <1>3 DEF ScanInv, PendingOK
  <2>3. QED
    BY <1>1, <2>1, <2>2 DEF PendingOK, Current
<1>7. WaitingOK'
  <2>1. 1 .. Len(stack) = {}
    BY <1>1, NothingOpen
  <2>2. \A i \in 1 .. Len(scanned') : scanned'[i].to # "waiting"
    BY <1>1, <1>2, <1>3, <2>1 DEF ScanInv, WaitingOK
  <2>3. QED
    BY <1>1, <2>1, <2>2 DEF WaitingOK
<1>8. KeywordOK'
  BY <1>1 DEF KeywordOK, AfterKeyword
<1>9. TrailOK'
  BY <1>1, <1>2, <1>3 DEF TrailOK
<1>10. SettledOK'
  BY <1>1, <1>2, <1>3 DEF ScanInv, SettledOK
<1>11. QED
  BY <1>4, <1>5, <1>6, <1>7, <1>8, <1>9, <1>10 DEF ScanInv

LEMMA TokenKeeps ==
  ASSUME ScanInv, NEW t \in {"struct", "enum", "word", "(", ")", "="}, Token(t)
  PROVE  ScanInv'
<1>1. /\ UNCHANGED <<stack, bodies, span, opened, ended>> /\ ~ ended
      /\ pending' = pending \ Fail(t) /\ reported' = reported \cup Reports(Fail(t))
      /\ t \in Shown /\ Fail(t) \in SUBSET pending
      /\ t = "(" => ~parens
      /\ t = ")" => parens
      /\ t \in {"struct", "enum"} => mayName
      /\ mayName' = (t = "(" \/ (mayName /\ t \notin {"struct", "enum", ")", "="}))
      /\ parens' = IF t = "(" THEN TRUE ELSE IF t = ")" THEN FALSE ELSE parens
      /\ prev' = t /\ prev2' = IF t = "word" /\ prev \in {"struct", "enum"} THEN prev ELSE ""
  BY FailIsPending DEF Token, ReadToken, Left, Shown
<1>2. /\ scanned' \in Seq(Attrs) /\ Len(scanned') = Len(scanned)
      /\ \A i \in 1 .. Len(scanned) :
           /\ scanned'[i].span = scanned[i].span
           /\ scanned'[i].inner = scanned[i].inner
           /\ i \notin pending => scanned'[i] = scanned[i]
           /\ i \in Fail(t) => scanned'[i].to = "failed"
           /\ i \in pending' =>
                /\ scanned'[i].to = scanned[i].to
                /\ ~scanned'[i].parens => ~scanned[i].parens /\ t # "("
                /\ Len(scanned[i].since) < 3 =>
                     scanned'[i].since = Append(scanned[i].since, t)
  BY <1>1, TokenTable DEF Token, ScanInv
<1>3. \A i \in pending : i \in 1 .. Len(scanned) /\ scanned[i].to = "pending"
  BY <1>1 DEF ScanInv, PendingOK
<1>4. ScanTyped'
  <2>1. closed'.id \in Nat
    BY <1>1 DEF Token, ReadToken, NoBrace
  <2>2. QED
    BY <1>1, <1>2, <2>1 DEF ScanInv, ScanTyped
<1>5. SpansOK'
  BY <1>1, <1>2 DEF ScanInv, SpansOK
<1>6. PendingOK'
  <2>1. \A i \in pending' : i \in 1 .. Len(scanned') /\ scanned'[i].to = "pending" /\ Current(i)'
    BY <1>1, <1>2, <1>3 DEF ScanInv, PendingOK, Current
  <2>2. \A i \in 1 .. Len(scanned') : scanned'[i].to = "pending" => i \in pending'
    BY <1>1, <1>2, <1>3 DEF ScanInv, PendingOK
  <2>3. QED
    BY <1>1, <2>1, <2>2 DEF PendingOK
<1>7. WaitingOK'
  <2>1. \A i \in 1 .. Len(scanned) :
          /\ scanned'[i].to = "waiting" <=> scanned[i].to = "waiting"
    BY <1>1, <1>2, <1>3
  <2>2. \A i \in 1 .. Len(scanned') : scanned'[i].to = "waiting" =>
          scanned'[i].span = span /\ \E k \in 1 .. Len(stack) : i \in stack[k].waiting
    BY <1>2, <2>1 DEF ScanInv, WaitingOK
  <2>3. \A k \in 1 .. Len(stack) : \A i \in stack[k].waiting :
          /\ i \in 1 .. Len(scanned) /\ scanned'[i].to = "waiting"
          /\ scanned'[i].inner = stack[k].id
          /\ \A l \in 1 .. Len(stack) : i \in stack[l].waiting => k = l
    BY <1>2, <2>1 DEF ScanInv, WaitingOK
  <2>4. QED
    BY <1>1, <1>2, <2>2, <2>3 DEF WaitingOK
<1>8. KeywordOK'
  BY <1>1 DEF ScanInv, KeywordOK, AfterKeyword
<1>9. TrailOK'
  <2> SUFFICES ASSUME NEW i \in pending', scanned'[i].span \notin bodies', ~scanned'[i].parens
               PROVE  ~parens' /\ OnTrack(scanned[i].since)'
    BY DEF TrailOK
  <2>1. /\ i \in pending /\ i \notin Fail(t) /\ scanned[i].span \notin bodies
        /\ ~scanned[i].parens /\ t # "("
    BY <1>1, <1>2, <1>3
  <2>2. ~parens /\ OnTrack(scanned[i].since)
    BY <2>1 DEF ScanInv, TrailOK
  <2> DEFINE q == scanned[i].since
  <2>3. Len(q) < 3 => scanned'[i].since = Append(q, t)
    BY <1>1, <1>2, <1>3, <2>1
  <2>4. ~parens' /\ t # ")"
    BY <1>1, <2>1, <2>2
  <2>5. AfterKeyword("struct") => ~mayName
    BY DEF ScanInv, KeywordOK
  <2>6. CASE ~mayName
    <3>1. t \in {"word", "="} /\ ~mayName'
      BY <1>1, <2>1, <2>4, <2>6
    <3>2. CASE q = <<>> /\ prev = "struct" /\ t = "word"
      <4>1. scanned'[i].since = <<"word">>
        BY <2>3, <3>2
      <4>2. QED
        BY <1>1, <2>4, <3>2, <4>1 DEF OnTrack
    <3>3. CASE q = <<"struct">> /\ prev = "struct" /\ t = "word"
      <4>1. scanned'[i].since = <<"struct", "word">>
        BY <2>3, <3>3
      <4>2. QED
        BY <1>1, <2>4, <3>3, <4>1 DEF OnTrack
    <3>4. CASE ~ (prev = "struct" /\ t = "word")
      BY <1>1, <2>4, <3>1, <3>4 DEF OnTrack, AfterKeyword
    <3>5. CASE prev = "struct" /\ t = "word" /\ q \notin {<<>>, <<"struct">>}
      BY <2>2, <3>5 DEF OnTrack, AfterKeyword
    <3>6. QED
      BY <3>2, <3>3, <3>4, <3>5
  <2>7. CASE mayName
    <3>1. q = <<>> /\ expect = "struct"
      BY <2>2, <2>5, <2>7 DEF OnTrack, AfterKeyword
    <3>2. t = "struct"
      BY <2>1, <3>1 DEF Fail
    <3>3. scanned'[i].since = <<"struct">>
      BY <2>3, <3>1, <3>2
    <3>4. QED
      BY <1>1, <2>4, <3>2, <3>3 DEF OnTrack
  <2>8. QED
    BY <2>6, <2>7 DEF ScanInv, ScanTyped
<1>10. SettledOK'
  <2>1. \A i \in Fail(t) : scanned[i].span \notin bodies => scanned[i].span \in reported'
    BY <1>1, FailedReported
  <2>2. \A i \in 1 .. Len(scanned) : i \in pending => scanned'[i].to \in {"pending", "failed"}
    BY <1>1, <1>2, <1>3
  <2> SUFFICES ASSUME NEW i \in 1 .. Len(scanned), scanned[i].span \notin bodies
               PROVE  /\ scanned'[i].to = "aggregate" =>
                           /\ scanned'[i].landed = scanned'[i].span
                           /\ scanned'[i].parens \/ scanned'[i].since \in ToBrace
                      /\ scanned'[i].to = "member" =>
                           scanned'[i].on = scanned'[i].inner /\ scanned'[i].landed = scanned'[i].span
                      /\ scanned'[i].to = "failed" => scanned'[i].span \in reported'
    BY <1>1, <1>2 DEF SettledOK
  <2>3. CASE i \in pending
    BY <1>1, <1>2, <1>3, <2>1, <2>2, <2>3
  <2>4. CASE i \notin pending
    BY <1>1, <1>2, <2>4 DEF ScanInv, SettledOK
  <2>5. QED
    BY <2>3, <2>4
<1>11. QED
  BY <1>4, <1>5, <1>6, <1>7, <1>8, <1>9, <1>10 DEF ScanInv

LEMMA EndOfTextKeeps ==
  ASSUME ScanInv, EndOfText
  PROVE  ScanInv'
<1>1. /\ UNCHANGED <<stack, bodies, span, parens, prev, prev2, mayName, opened, closed>>
      /\ stack = <<>> /\ pending' = {} /\ reported' = reported \cup Reports(pending)
      /\ ended' = TRUE /\ pending \in SUBSET pending
  BY DEF EndOfText, AtTopLevel
<1>2. /\ scanned' \in Seq(Attrs) /\ Len(scanned') = Len(scanned)
      /\ \A i \in 1 .. Len(scanned) :
           /\ scanned'[i].span = scanned[i].span
           /\ i \notin pending => scanned'[i] = scanned[i]
           /\ i \in pending => scanned'[i].to = "failed"
  <2>1. "failed" \in Destinations /\ 0 \in Nat
    BY DEF Destinations
  <2>2. QED
    BY <2>1, ScanFacts, Becoming DEF EndOfText
<1>3. \A i \in pending : i \in 1 .. Len(scanned) /\ scanned[i].to = "pending"
  BY <1>1 DEF ScanInv, PendingOK
<1>4. ScanTyped'
  BY <1>1, <1>2 DEF ScanInv, ScanTyped
<1>5. SpansOK'
  BY <1>1, <1>2 DEF ScanInv, SpansOK
<1>6. PendingOK'
  BY <1>1, <1>2, <1>3 DEF ScanInv, PendingOK
<1>7. WaitingOK'
  <2>1. 1 .. Len(stack) = {}
    BY <1>1, NothingOpen
  <2>2. \A i \in 1 .. Len(scanned') : scanned'[i].to # "waiting"
    BY <1>1, <1>2, <1>3, <2>1 DEF ScanInv, WaitingOK
  <2>3. QED
    BY <1>1, <2>1, <2>2 DEF WaitingOK
<1>8. KeywordOK' /\ TrailOK'
  BY <1>1 DEF ScanInv, KeywordOK, AfterKeyword, TrailOK
<1>9. SettledOK'
  <2>1. \A i \in pending : scanned[i].span \notin bodies => scanned[i].span \in reported'
    BY <1>1, FailedReported
  <2>2. QED
    BY <1>1, <1>2, <1>3, <2>1 DEF ScanInv, SettledOK
<1>10. QED
  BY <1>4, <1>5, <1>6, <1>7, <1>8, <1>9 DEF ScanInv

LEMMA OpenBraceKeeps ==
  ASSUME ScanInv, OpenBrace
  PROVE  ScanInv'
<1> DEFINE struct == AfterKeyword("struct")
           kind == IF struct THEN "aggregate" ELSE IF AfterKeyword("enum") THEN "enum" ELSE "other"
           fail == IF kind = "aggregate" THEN Fail("lbrace") ELSE pending
           brace == [kind |-> kind, id |-> opened + 1, waiting |-> {}]
<1>1. /\ UNCHANGED <<bodies, span, parens, ended>> /\ ~ ended
      /\ pending' = {} /\ reported' = reported \cup Reports(fail)
      /\ opened' = opened + 1 /\ stack' = Append(stack, brace)
      /\ prev' = "lbrace" /\ mayName' = TRUE /\ closed' = NoBrace
  BY DEF OpenBrace, ReadToken
<1>0. scanned' = Becomes(Becomes(SeenAfter("lbrace"), fail, "failed", 0),
                         pending \ fail, "aggregate", opened + 1)
  BY DEF OpenBrace
<1>2. fail \in SUBSET pending /\ (pending \ fail # {} => struct)
  BY FailIsPending
<1>3. brace \in Braces /\ brace.waiting = {} /\ opened + 1 \in Nat
  BY ScanFacts DEF Braces
<1> HIDE DEF fail, brace, kind
<1>4. /\ scanned' \in Seq(Attrs) /\ Len(scanned') = Len(scanned)
      /\ \A i \in 1 .. Len(scanned) :
           /\ scanned'[i].span = scanned[i].span
           /\ scanned'[i].inner = scanned[i].inner
           /\ i \notin pending => scanned'[i] = scanned[i]
           /\ i \in fail => scanned'[i].to = "failed"
           /\ i \in pending \ fail =>
                /\ scanned'[i].to = "aggregate" /\ scanned'[i].landed = span
                /\ ~scanned'[i].parens => ~scanned[i].parens
                /\ Len(scanned[i].since) < 3 =>
                     scanned'[i].since = Append(scanned[i].since, "lbrace")
  <2>1. /\ "lbrace" \in Shown /\ "aggregate" \in Destinations \ {"failed"}
        /\ fail \cap (pending \ fail) = {}
        /\ pending \cup (pending \ fail) = pending
    BY <1>2 DEF Shown, Destinations
  <2>2. ScanTyped
    BY DEF ScanInv
  <2> DEFINE settled == pending \ fail
             number == opened + 1
  <2>3. scanned' = Becomes(Becomes(SeenAfter("lbrace"), fail, "failed", 0),
                           settled, "aggregate", number)
    BY <1>0
  <2>4. fail \cap settled = {} /\ pending \cup settled = pending
        /\ settled = pending \ fail /\ number \in Nat
    BY <1>2, <1>3
  <2> HIDE DEF settled, number
  <2>5. scanned' \in Settled("lbrace", fail, settled, "aggregate", number)
    BY <1>2, <1>3, <2>1, <2>2, <2>3, <2>4, SettlingTable
  <2>6. QED
    BY <2>4, <2>5 DEF Settled
<1>5. \A i \in pending : /\ i \in 1 .. Len(scanned) /\ scanned[i].to = "pending" /\ Current(i)
                         /\ scanned'[i].to \in {"failed", "aggregate"}
  BY <1>2, <1>4 DEF ScanInv, PendingOK
<1>6. /\ stack' \in Seq(Braces) /\ Len(stack') = Len(stack) + 1 /\ Len(stack) \in Nat
      /\ \A k \in 1 .. Len(stack) : stack'[k] = stack[k]
      /\ stack'[Len(stack) + 1] = brace
  BY <1>1, <1>3, ScanFacts, AppendProperties
<1>7. ScanTyped'
  <2>1. closed'.id \in Nat
    BY <1>1 DEF NoBrace
  <2>2. QED
    BY <1>1, <1>3, <1>4, <1>6, <2>1 DEF ScanInv, ScanTyped
<1>8. SpansOK'
  BY <1>1, <1>4 DEF ScanInv, SpansOK
<1>9. PendingOK'
  BY <1>1, <1>4, <1>5 DEF ScanInv, PendingOK
<1>10. WaitingOK'
  <2>1. \A i \in 1 .. Len(scanned) : scanned'[i].to = "waiting" <=> scanned[i].to = "waiting"
    BY <1>4, <1>5
  <2>2. \A i \in 1 .. Len(scanned) : scanned[i].to = "waiting" =>
          scanned[i].span = span /\ \E k \in 1 .. Len(stack) : i \in stack'[k].waiting
    BY <1>6 DEF ScanInv, WaitingOK
  <2>3. \A k \in 1 .. Len(stack') : \A i \in stack'[k].waiting :
          k \in 1 .. Len(stack) /\ i \in stack[k].waiting
    BY <1>3, <1>6
  <2>4. \A k \in 1 .. Len(stack') : \A i \in stack'[k].waiting :
          /\ i \in 1 .. Len(scanned) /\ scanned'[i].to = "waiting"
          /\ scanned'[i].inner = stack'[k].id
          /\ \A l \in 1 .. Len(stack') : i \in stack'[l].waiting => k = l
    <3> SUFFICES ASSUME NEW k \in 1 .. Len(stack'), NEW i \in stack'[k].waiting
                 PROVE  /\ i \in 1 .. Len(scanned) /\ scanned'[i].to = "waiting"
                        /\ scanned'[i].inner = stack'[k].id
                        /\ \A l \in 1 .. Len(stack') : i \in stack'[l].waiting => k = l
      OBVIOUS
    <3>1. k \in 1 .. Len(stack) /\ i \in stack[k].waiting /\ stack'[k] = stack[k]
      BY <1>6, <2>3
    <3>2. /\ i \in 1 .. Len(scanned) /\ scanned[i].to = "waiting" /\ scanned[i].inner = stack[k].id
          /\ \A l \in 1 .. Len(stack) : i \in stack[l].waiting => k = l
      BY <3>1 DEF ScanInv, WaitingOK
    <3>3. scanned'[i].to = "waiting" /\ scanned'[i].inner = stack'[k].id
      BY <1>4, <2>1, <3>1, <3>2
    <3>4. ASSUME NEW l \in 1 .. Len(stack'), i \in stack'[l].waiting PROVE k = l
      BY <2>3, <3>2, <3>4
    <3>5. QED
      BY <3>2, <3>3, <3>4
  <2>5. 1 .. Len(stack) \subseteq 1 .. Len(stack')
    BY <1>6
  <2>6. QED
    <3>1. \A i \in 1 .. Len(scanned') : scanned'[i].to = "waiting" =>
            scanned'[i].span = span /\ \E k \in 1 .. Len(stack') : i \in stack'[k].waiting
      BY <1>4, <2>1, <2>2, <2>5
    <3>2. QED
      BY <1>1, <1>4, <2>4, <3>1 DEF WaitingOK
<1>11. KeywordOK' /\ TrailOK'
  BY <1>1 DEF KeywordOK, AfterKeyword, TrailOK
<1>12. ASSUME NEW i \in pending, scanned[i].span \notin bodies
       PROVE  /\ i \in fail => scanned[i].span \in reported'
              /\ i \notin fail => scanned'[i].parens \/ scanned'[i].since \in ToBrace
  <2>1. i \in fail => scanned[i].span \in reported'
    BY <1>1, <1>2, <1>12, FailedReported
  <2>2. ASSUME i \notin fail, ~scanned'[i].parens
        PROVE  scanned'[i].since \in ToBrace
    <3>1. struct /\ ~mayName /\ ~scanned[i].parens
      BY <1>2, <1>4, <1>5, <2>2 DEF ScanInv, KeywordOK
    <3>2. OnTrack(scanned[i].since)
      BY <1>12, <3>1 DEF ScanInv, TrailOK
    <3> DEFINE q == scanned[i].since
    <3>3. q \in {<<>>, <<"word">>, <<"struct">>, <<"struct", "word">>}
      BY <3>1, <3>2 DEF OnTrack
    <3>4. Len(q) < 3 => scanned'[i].since = Append(q, "lbrace")
      BY <1>4, <1>5, <2>2
    <3>5. CASE q = <<>>
      <4>1. scanned'[i].since = <<"lbrace">>
        BY <3>4, <3>5
      <4>2. QED
        BY <4>1 DEF ToBrace
    <3>6. CASE q = <<"word">>
      <4>1. scanned'[i].since = <<"word", "lbrace">>
        BY <3>4, <3>6
      <4>2. QED
        BY <4>1 DEF ToBrace
    <3>7. CASE q = <<"struct">>
      <4>1. scanned'[i].since = <<"struct", "lbrace">>
        BY <3>4, <3>7
      <4>2. QED
        BY <4>1 DEF ToBrace
    <3>8. CASE q = <<"struct", "word">>
      <4>1. scanned'[i].since = <<"struct", "word", "lbrace">>
        BY <3>4, <3>8
      <4>2. QED
        BY <4>1 DEF ToBrace
    <3>9. QED
      BY <3>3, <3>5, <3>6, <3>7, <3>8
  <2>3. QED
    BY <2>1, <2>2
<1>13. SettledOK'
  <2> SUFFICES ASSUME NEW i \in 1 .. Len(scanned), scanned[i].span \notin bodies
               PROVE  /\ scanned'[i].to = "aggregate" =>
                           /\ scanned'[i].landed = scanned'[i].span
                           /\ scanned'[i].parens \/ scanned'[i].since \in ToBrace
                      /\ scanned'[i].to = "member" =>
                           scanned'[i].on = scanned'[i].inner /\ scanned'[i].landed = scanned'[i].span
                      /\ scanned'[i].to = "failed" => scanned'[i].span \in reported'
    BY <1>1, <1>4 DEF SettledOK
  <2>1. CASE i \in pending
    BY <1>2, <1>4, <1>5, <1>12, <2>1 DEF Current
  <2>2. CASE i \notin pending
    BY <1>1, <1>4, <2>2 DEF ScanInv, SettledOK
  <2>3. QED
    BY <2>1, <2>2
<1>14. QED
  BY <1>7, <1>8, <1>9, <1>10, <1>11, <1>13 DEF ScanInv

\* What waited for the end of its member has arrived.
LEMMA MembersSettle ==
  ASSUME ScanInv, NEW t \in Shown, NEW some \in SUBSET pending, bodies' = bodies,
         pending' \subseteq pending \ some, reported' = reported \cup Reports(some),
         scanned' = Becomes(Becomes(SeenAfter(t), some, "failed", 0),
                            Innermost.waiting, "member", Innermost.id)
  PROVE  /\ scanned' \in Seq(Attrs) /\ Len(scanned') = Len(scanned) /\ SettledOK'
         /\ \A i \in 1 .. Len(scanned) :
              /\ scanned'[i].span = scanned[i].span /\ scanned'[i].inner = scanned[i].inner
              /\ scanned'[i].to = "pending" <=> i \in pending \ some
              /\ scanned'[i].to = "waiting" <=>
                   scanned[i].to = "waiting" /\ i \notin Innermost.waiting
              /\ i \in pending \ some /\ ~scanned'[i].parens => ~scanned[i].parens
<1>1. /\ scanned' \in Seq(Attrs) /\ Len(scanned') = Len(scanned)
      /\ \A i \in 1 .. Len(scanned) :
           /\ scanned'[i].span = scanned[i].span /\ scanned'[i].inner = scanned[i].inner
           /\ i \notin pending \cup Innermost.waiting => scanned'[i] = scanned[i]
           /\ i \in some => scanned'[i].to = "failed"
           /\ i \in pending \ (some \cup Innermost.waiting) => scanned'[i].to = scanned[i].to
           /\ i \in Innermost.waiting =>
                /\ scanned'[i].to = "member" /\ scanned'[i].on = Innermost.id
                /\ scanned'[i].landed = span
           /\ i \in pending \ some => (~scanned'[i].parens => ~scanned[i].parens)
  <2>1. "member" \in Destinations \ {"failed"} /\ ScanTyped
    BY DEF Destinations, ScanInv
  <2>2. some \cap Innermost.waiting = {} /\ Innermost.id \in Nat
    BY ScanFacts
  <2> DEFINE settled == Innermost.waiting
  <2>3. some \cap settled = {} /\ settled = Innermost.waiting
    BY <2>2
  <2>4. scanned' = Becomes(Becomes(SeenAfter(t), some, "failed", 0), settled, "member", Innermost.id)
    OBVIOUS
  <2> HIDE DEF settled
  <2>5. scanned' \in Settled(t, some, settled, "member", Innermost.id)
    BY <2>1, <2>2, <2>3, <2>4, SettlingTable
  <2>6. QED
    BY <2>3, <2>5 DEF Settled
<1>2. \A i \in 1 .. Len(scanned) : i \in pending <=> scanned[i].to = "pending"
  BY DEF ScanInv, PendingOK
<1>3. \A i \in Innermost.waiting :
        /\ scanned[i].to = "waiting" /\ scanned[i].inner = Innermost.id
        /\ scanned[i].span = span /\ i \notin pending
  BY ScanFacts
<1>4. SettledOK'
  <2> SUFFICES ASSUME NEW i \in 1 .. Len(scanned), scanned[i].span \notin bodies
               PROVE  /\ scanned'[i].to = "aggregate" =>
                           /\ scanned'[i].landed = scanned'[i].span
                           /\ scanned'[i].parens \/ scanned'[i].since \in ToBrace
                      /\ scanned'[i].to = "member" =>
                           scanned'[i].on = scanned'[i].inner /\ scanned'[i].landed = scanned'[i].span
                      /\ scanned'[i].to = "failed" => scanned'[i].span \in reported'
    BY <1>1 DEF SettledOK
  <2>1. CASE i \in some
    <3>1. scanned[i].span \in reported'
      BY <2>1, FailedReported
    <3>2. QED
      BY <1>1, <2>1, <3>1
  <2>2. CASE i \in pending \ some
    BY <1>1, <1>2, <1>3, <2>2
  <2>3. CASE i \in Innermost.waiting
    BY <1>1, <1>3, <2>3
  <2>4. CASE i \notin pending \cup Innermost.waiting
    BY <1>1, <2>4 DEF ScanInv, SettledOK
  <2>5. QED
    BY <2>1, <2>2, <2>3, <2>4
<1>5. ASSUME NEW i \in 1 .. Len(scanned)
      PROVE  /\ scanned'[i].to = "pending" <=> i \in pending \ some
             /\ scanned'[i].to = "waiting" <=>
                   scanned[i].to = "waiting" /\ i \notin Innermost.waiting
  <2>1. CASE i \in some
    BY <1>1, <1>2, <2>1
  <2>2. CASE i \in pending \ some
    BY <1>1, <1>2, <1>3, <2>2
  <2>3. CASE i \in Innermost.waiting
    BY <1>1, <1>3, <2>3
  <2>4. CASE i \notin pending \cup Innermost.waiting
    BY <1>1, <1>2, <2>4
  <2>5. QED
    BY <2>1, <2>2, <2>3, <2>4
<1>6. QED
  BY <1>1, <1>4, <1>5

LEMMA CloseBraceKeeps ==
  ASSUME ScanInv, CloseBrace
  PROVE  ScanInv'
<1> DEFINE fail == Fail("rbrace")
           n == Len(stack)
<1>1. /\ UNCHANGED <<bodies, span, parens, opened, ended>> /\ ~ ended /\ ~parens
      /\ stack # <<>> /\ stack' = Front(stack)
      /\ pending' = pending \ fail /\ reported' = reported \cup Reports(fail)
      /\ prev' = "rbrace" /\ mayName' = FALSE
      /\ closed' = [kind |-> Innermost.kind, id |-> Innermost.id]
  BY DEF CloseBrace, ReadToken, Left
<1>2. scanned' = Becomes(Becomes(SeenAfter("rbrace"), fail, "failed", 0),
                         Innermost.waiting, "member", Innermost.id)
  BY DEF CloseBrace
<1>3. fail \in SUBSET pending /\ "rbrace" \in Shown
  BY FailIsPending DEF Shown
<1> HIDE DEF fail
<1>4. /\ scanned' \in Seq(Attrs) /\ Len(scanned') = Len(scanned) /\ SettledOK'
      /\ \A i \in 1 .. Len(scanned) :
           /\ scanned'[i].span = scanned[i].span /\ scanned'[i].inner = scanned[i].inner
           /\ scanned'[i].to = "pending" <=> i \in pending \ fail
           /\ scanned'[i].to = "waiting" <=>
                scanned[i].to = "waiting" /\ i \notin Innermost.waiting
           /\ i \in pending \ fail /\ ~scanned'[i].parens => ~scanned[i].parens
  <2>1. bodies' = bodies /\ pending' \subseteq pending \ fail /\ reported' = reported \cup Reports(fail)
    BY <1>1
  <2>2. QED
    BY <1>2, <1>3, <2>1, MembersSettle
<1>5. /\ n \in Nat \ {0} /\ Innermost = stack[n] /\ n \in 1 .. n
      /\ stack' \in Seq(Braces) /\ Len(stack') = n - 1
      /\ \A k \in 1 .. n - 1 : stack'[k] = stack[k]
  <2>1. stack \in Seq(Braces) /\ n \in Nat \ {0} /\ Innermost = stack[n] /\ n \in 1 .. n
    BY <1>1, ScanFacts
  <2>2. \A k \in 1 .. n - 1 : stack[k] \in Braces
    BY <2>1, ElementOfSeq
  <2>3. stack' = SubSeq(stack, 1, n - 1) /\ 1 \in Nat /\ n - 1 \in Nat
    BY <1>1, <2>1 DEF Front
  <2> HIDE DEF n
  <2>4. QED
    BY <2>1, <2>2, <2>3, SubSeqProperties, Z3
<1> HIDE DEF n
<1>6. ScanTyped'
  <2>1. closed'.id \in Nat
    BY <1>1, ScanFacts
  <2>2. QED
    BY <1>1, <1>4, <1>5, <2>1 DEF ScanInv, ScanTyped
<1>7. SpansOK'
  BY <1>1, <1>4 DEF ScanInv, SpansOK
<1>8. PendingOK'
  BY <1>1, <1>4 DEF ScanInv, PendingOK, Current
<1>9. WaitingOK'
  <2>1. ASSUME NEW i \in 1 .. Len(scanned), scanned'[i].to = "waiting"
        PROVE  scanned[i].span = span /\ \E k \in 1 .. n - 1 : i \in stack[k].waiting
    <3>1. scanned[i].to = "waiting" /\ i \notin stack[n].waiting
      BY <1>4, <1>5, <2>1
    <3>2. scanned[i].span = span /\ \E k \in 1 .. n : i \in stack[k].waiting
      BY <3>1 DEF ScanInv, WaitingOK, n
    <3>3. PICK k \in 1 .. n : i \in stack[k].waiting
      BY <3>2
    <3>4. k \in 1 .. n - 1
      BY <1>5, <3>1, <3>3
    <3>5. QED
      BY <3>2, <3>3, <3>4
  <2>2. ASSUME NEW k \in 1 .. n - 1, NEW i \in stack[k].waiting
        PROVE  /\ i \in 1 .. Len(scanned) /\ scanned'[i].to = "waiting"
               /\ scanned[i].inner = stack[k].id
               /\ \A l \in 1 .. n - 1 : i \in stack[l].waiting => k = l
    <3>1. k \in 1 .. n /\ k # n /\ 1 .. n - 1 \subseteq 1 .. n
      BY <1>5
    <3>2. /\ i \in 1 .. Len(scanned) /\ scanned[i].to = "waiting" /\ scanned[i].inner = stack[k].id
          /\ \A l \in 1 .. n : i \in stack[l].waiting => k = l
      BY <3>1 DEF ScanInv, WaitingOK, n
    <3>3. i \notin stack[n].waiting
      BY <1>5, <3>1, <3>2
    <3>4. QED
      BY <1>4, <1>5, <3>1, <3>2, <3>3
  <2>3. \A i \in 1 .. Len(scanned') : scanned'[i].to = "waiting" =>
          scanned'[i].span = span' /\ \E k \in 1 .. Len(stack') : i \in stack'[k].waiting
    BY <1>1, <1>4, <1>5, <2>1
  <2>4. \A k \in 1 .. Len(stack') : \A i \in stack'[k].waiting :
          /\ i \in 1 .. Len(scanned') /\ scanned'[i].to = "waiting"
          /\ scanned'[i].inner = stack'[k].id
          /\ \A l \in 1 .. Len(stack') : i \in stack'[l].waiting => k = l
    <3> SUFFICES ASSUME NEW k \in 1 .. n - 1, NEW i \in stack'[k].waiting
                 PROVE  /\ i \in 1 .. Len(scanned') /\ scanned'[i].to = "waiting"
                        /\ scanned'[i].inner = stack'[k].id
                        /\ \A l \in 1 .. n - 1 : i \in stack'[l].waiting => k = l
      BY <1>5
    <3>1. stack'[k] = stack[k] /\ \A l \in 1 .. n - 1 : stack'[l] = stack[l]
      BY <1>5
    <3>2. i \in stack[k].waiting
      BY <3>1
    <3>3. QED
      BY <1>4, <2>2, <3>1, <3>2
  <2>5. QED
    BY <2>3, <2>4 DEF WaitingOK
<1>10. KeywordOK'
  BY <1>1 DEF KeywordOK
<1>11. TrailOK'
  <2>1. ~parens' /\ ~mayName' /\ ~AfterKeyword("struct")'
    BY <1>1 DEF AfterKeyword
  <2>2. QED
    BY <2>1 DEF TrailOK, OnTrack
<1>12. QED
  BY <1>4, <1>6, <1>7, <1>8, <1>9, <1>10, <1>11 DEF ScanInv

LEMMA SemicolonKeeps ==
  ASSUME ScanInv, Semicolon
  PROVE  ScanInv'
<1> DEFINE n == Len(stack)
<1>1. /\ UNCHANGED <<bodies, parens, opened, ended>> /\ ~ ended /\ ~parens
      /\ pending' = {} /\ reported' = reported \cup Reports(pending)
      /\ prev' = "semicolon" /\ mayName' = TRUE /\ closed' = NoBrace
      /\ stack = <<>> => span' = span + 1 /\ stack' = stack
      /\ stack # <<>> => span' = span /\ stack' = [stack EXCEPT ![Len(stack)].waiting = {}]
  BY DEF Semicolon, ReadToken, FailAtSemicolon, AtTopLevel
<1>2. scanned' = Becomes(Becomes(SeenAfter("semicolon"), pending, "failed", 0),
                         Innermost.waiting, "member", Innermost.id)
  BY DEF Semicolon, FailAtSemicolon
<1>3. pending \in SUBSET pending /\ "semicolon" \in Shown
  BY DEF Shown
<1>4. /\ scanned' \in Seq(Attrs) /\ Len(scanned') = Len(scanned) /\ SettledOK'
      /\ \A i \in 1 .. Len(scanned) :
           /\ scanned'[i].span = scanned[i].span /\ scanned'[i].inner = scanned[i].inner
           /\ scanned'[i].to # "pending"
           /\ scanned'[i].to = "waiting" <=>
                scanned[i].to = "waiting" /\ i \notin Innermost.waiting
  <2>1. bodies' = bodies /\ pending' \subseteq pending \ pending
        /\ reported' = reported \cup Reports(pending)
    BY <1>1
  <2>2. QED
    BY <1>2, <1>3, <2>1, MembersSettle
<1>5. SpansOK' /\ PendingOK' /\ KeywordOK' /\ TrailOK'
  <2>1. span' \in Nat /\ span \in Nat /\ span <= span' /\ bodies \subseteq Nat
        /\ \A i \in 1 .. Len(scanned) : scanned[i].span \in Nat
    BY <1>1, ScanFacts DEF ScanInv, ScanTyped
  <2>2. SpansOK'
    BY <1>1, <1>4, <2>1 DEF ScanInv, SpansOK
  <2>3. QED
    BY <1>1, <1>4, <2>2 DEF PendingOK, KeywordOK, AfterKeyword, TrailOK
<1>6. span' \in Nat /\ closed'.id \in Nat
  BY <1>1, ScanFacts DEF NoBrace
<1>7. CASE stack = <<>>
  <2>1. WaitingOK'
    <3>1. 1 .. Len(stack) = {}
      BY <1>7, NothingOpen
    <3>2. \A i \in 1 .. Len(scanned') : scanned'[i].to # "waiting"
      BY <1>4, <3>1 DEF ScanInv, WaitingOK
    <3>3. QED
      BY <1>1, <1>7, <3>1, <3>2 DEF WaitingOK
  <2>2. ScanTyped'
    BY <1>1, <1>4, <1>6, <1>7 DEF ScanInv, ScanTyped
  <2>3. QED
    BY <1>4, <1>5, <2>1, <2>2 DEF ScanInv
<1>8. CASE stack # <<>>
  <2>1. /\ stack \in Seq(Braces) /\ n \in Nat \ {0} /\ n \in 1 .. n /\ Innermost = stack[n]
        /\ \A k \in 1 .. n : stack[k] \in Braces
    BY <1>8, ScanFacts, ElementOfSeq, EmptySeq
  <2> DEFINE top == [stack[n] EXCEPT !.waiting = {}]
  <2>2. top \in Braces /\ top.waiting = {} /\ top.id = stack[n].id
    BY <2>1 DEF Braces
  <2>3. stack' = [stack EXCEPT ![n] = top]
    BY <1>1, <1>8
  <2> HIDE DEF top, n
  <2>4. /\ stack' \in Seq(Braces) /\ Len(stack') = n
        /\ \A k \in 1 .. n : stack'[k] = IF k = n THEN top ELSE stack[k]
    BY <2>1, <2>2, <2>3, ExceptSeq DEF n
  <2>5. ASSUME NEW i \in 1 .. Len(scanned), scanned'[i].to = "waiting"
        PROVE  scanned[i].span = span /\ \E k \in 1 .. n : i \in stack'[k].waiting
    <3>1. scanned[i].to = "waiting" /\ i \notin stack[n].waiting
      BY <1>4, <2>1, <2>5
    <3>2. scanned[i].span = span /\ \E k \in 1 .. n : i \in stack[k].waiting
      BY <3>1 DEF ScanInv, WaitingOK, n
    <3>3. PICK k \in 1 .. n : i \in stack[k].waiting
      BY <3>2
    <3>4. i \in stack'[k].waiting
      BY <2>4, <3>1, <3>3
    <3>5. QED
      BY <3>2, <3>4
  <2>6. ASSUME NEW k \in 1 .. n, NEW i \in stack'[k].waiting
        PROVE  /\ i \in 1 .. Len(scanned) /\ scanned'[i].to = "waiting"
               /\ scanned[i].inner = stack'[k].id
               /\ \A l \in 1 .. n : i \in stack'[l].waiting => k = l
    <3>1. k # n /\ stack'[k] = stack[k]
      BY <2>2, <2>4
    <3>2. /\ i \in 1 .. Len(scanned) /\ scanned[i].to = "waiting" /\ scanned[i].inner = stack[k].id
          /\ \A l \in 1 .. n : i \in stack[l].waiting => k = l
      BY <3>1 DEF ScanInv, WaitingOK, n
    <3>3. i \notin stack[n].waiting
      BY <2>1, <3>1, <3>2
    <3>4. \A l \in 1 .. n : i \in stack'[l].waiting => k = l
      BY <2>2, <2>4, <3>2
    <3>5. QED
      BY <1>4, <2>1, <3>1, <3>2, <3>3, <3>4
  <2>7. WaitingOK'
    BY <1>1, <1>4, <1>8, <2>4, <2>5, <2>6 DEF WaitingOK
  <2>8. ScanTyped'
    BY <1>1, <1>4, <1>6, <2>4 DEF ScanInv, ScanTyped
  <2>9. QED
    BY <1>4, <1>5, <2>7, <2>8 DEF ScanInv
<1>9. QED
  BY <1>7, <1>8

\* A row is added for the attribute just read.
LEMMA NewRow ==
  ASSUME ScanInv, NEW to \in Destinations, NEW on \in Nat, New(to, on)
  PROVE  /\ scanned' \in Seq(Attrs) /\ Len(scanned') = Len(scanned) + 1
         /\ \A i \in 1 .. Len(scanned) : scanned'[i] = scanned[i]
         /\ LET a == scanned'[Len(scanned) + 1] IN
              /\ a.to = to /\ a.on = on /\ a.landed = span /\ a.span = span
              /\ a.inner = Innermost.id /\ a.since = <<>>
              /\ ~a.parens => to # "pending" \/ ~parens
<1> DEFINE p == to = "pending" /\ parens
           a == [to |-> to, on |-> on, landed |-> span, span |-> span, inner |-> Innermost.id,
                 since |-> <<>>, parens |-> p]
<1>1. p \in BOOLEAN /\ (~p => to # "pending" \/ ~parens)
  BY DEF ScanInv, ScanTyped
<1>2. scanned' = Append(scanned, a)
  BY DEF New
<1> HIDE DEF p
<1>3. span \in Nat /\ Innermost.id \in Nat /\ <<>> \in Seq(Shown) /\ scanned \in Seq(Attrs)
  BY ScanFacts, EmptySeq
<1>4. a \in Attrs
  BY <1>1, <1>3 DEF Attrs
<1>5. /\ a.to = to /\ a.on = on /\ a.landed = span /\ a.span = span
      /\ a.inner = Innermost.id /\ a.since = <<>> /\ a.parens = p
  OBVIOUS
<1> HIDE DEF a
<1>6. /\ scanned' \in Seq(Attrs) /\ Len(scanned') = Len(scanned) + 1
      /\ \A i \in 1 .. Len(scanned) : scanned'[i] = scanned[i]
      /\ scanned'[Len(scanned) + 1] = a
  BY <1>2, <1>3, <1>4, AppendProperties
<1>7. QED
  BY <1>1, <1>5, <1>6

\* Only what waits for a brace, or for the end of its member, is left to say.
LEMMA RowKeeps ==
  ASSUME ScanInv, NEW to \in Destinations, NEW on \in Nat, New(to, on),
         UNCHANGED <<parens, prev, prev2, closed, assigns, span, opened, bodies, ended, mayName>>,
         ~ ended, to # "member", reported \subseteq reported', to = "failed" => span \in reported',
         pending' = IF to = "pending" THEN pending \cup {Len(scanned) + 1} ELSE pending,
         stack' \in Seq(Braces), WaitingOK', TrailOK'
  PROVE  ScanInv'
<1> DEFINE n == Len(scanned)
           a == scanned'[n + 1]
<1>1. /\ scanned' \in Seq(Attrs) /\ Len(scanned') = n + 1 /\ n \in Nat
      /\ \A i \in 1 .. n : scanned'[i] = scanned[i] /\ scanned[i].span \in Nat
      /\ a.to = to /\ a.on = on /\ a.landed = span /\ a.span = span /\ a.since = <<>>
      /\ span \in Nat /\ \A i \in 1 .. n + 1 : i \in 1 .. n \/ i = n + 1
      /\ n + 1 \notin 1 .. n /\ pending \subseteq 1 .. n
  BY NewRow, ScanFacts
<1> HIDE DEF a
<1>2. ScanTyped'
  <2>1. pending' \subseteq Nat
    BY <1>1
  <2> HIDE DEF n
  <2>2. QED
    BY <1>1, <2>1 DEF ScanInv, ScanTyped
<1>3. SpansOK'
  <2>1. \A i \in 1 .. n : scanned[i].span <= span
    BY DEF ScanInv, SpansOK
  <2>2. \A i \in 1 .. n + 1 : scanned'[i].span <= span /\ scanned'[i].span \in Nat
    BY <1>1, <2>1 DEF a
  <2>3. ASSUME NEW i \in 1 .. n + 1, NEW j \in 1 .. n + 1, i <= j
        PROVE  scanned'[i].span <= scanned'[j].span
    <3>1. CASE j = n + 1
      BY <1>1, <2>2, <3>1 DEF a
    <3>2. CASE j \in 1 .. n
      <4>1. i \in 1 .. n
        BY <1>1, <2>3, <3>2
      <4>2. QED
        BY <1>1, <2>3, <3>2, <4>1 DEF ScanInv, SpansOK
    <3>3. QED
      BY <1>1, <3>1, <3>2
  <2>4. \A b \in bodies : b < span
    BY DEF ScanInv, SpansOK
  <2> HIDE DEF n
  <2>5. QED
    BY <1>1, <2>2, <2>3, <2>4 DEF SpansOK
<1>4. PendingOK'
  <2>1. \A i \in pending : i \in 1 .. n /\ scanned[i].to = "pending" /\ Current(i)
    BY DEF ScanInv, PendingOK
  <2>2. \A i \in 1 .. n : scanned[i].to = "pending" => i \in pending
    BY DEF ScanInv, PendingOK
  <2> HIDE DEF n
  <2>3. \A i \in pending' :
          /\ i \in 1 .. Len(scanned') /\ scanned'[i].to = "pending"
          /\ scanned'[i].span = span' \/ scanned'[i].span \in bodies'
    <3>0. Len(scanned') = n + 1 /\ span' = span /\ bodies' = bodies
      BY <1>1
    <3>1. ASSUME NEW i \in pending
          PROVE  /\ i \in 1 .. Len(scanned') /\ scanned'[i].to = "pending"
                 /\ scanned'[i].span = span' \/ scanned'[i].span \in bodies'
      BY <1>1, <2>1, <3>0 DEF Current
    <3>2. to = "pending" => /\ n + 1 \in 1 .. Len(scanned') /\ scanned'[n + 1].to = "pending"
                            /\ scanned'[n + 1].span = span'
      BY <1>1, <3>0 DEF a
    <3>3. pending' = IF to = "pending" THEN pending \cup {n + 1} ELSE pending
      BY DEF n
    <3>4. QED
      BY <3>1, <3>2, <3>3
  <2>4. \A i \in 1 .. n + 1 : scanned'[i].to = "pending" => i \in pending'
    <3>1. ASSUME NEW i \in 1 .. n, scanned'[i].to = "pending" PROVE i \in pending'
      BY <1>1, <2>2, <3>1
    <3>2. ASSUME scanned'[n + 1].to = "pending" PROVE n + 1 \in pending'
      BY <1>1, <3>2 DEF a, n
    <3>3. QED
      BY <1>1, <3>1, <3>2
  <2>5. ~ ended' /\ \A i \in 1 .. Len(scanned') : scanned'[i].to = "pending" => i \in pending'
    BY <1>1, <2>4
  <2>6. QED
    BY <2>3, <2>5 DEF PendingOK, Current
<1>5. KeywordOK'
  BY DEF ScanInv, KeywordOK, AfterKeyword
<1>6. SettledOK'
  <2> SUFFICES ASSUME NEW i \in 1 .. n + 1, scanned'[i].span \notin bodies
               PROVE  /\ scanned'[i].to = "aggregate" =>
                           /\ scanned'[i].landed = scanned'[i].span
                           /\ scanned'[i].parens \/ scanned'[i].since \in ToBrace
                      /\ scanned'[i].to = "member" =>
                           scanned'[i].on = scanned'[i].inner /\ scanned'[i].landed = scanned'[i].span
                      /\ scanned'[i].to = "failed" => scanned'[i].span \in reported'
    BY <1>1 DEF SettledOK
  <2>1. CASE i \in 1 .. n
    <3>1. scanned'[i] = scanned[i]
      BY <1>1, <2>1
    <3> HIDE DEF n
    <3>2. /\ scanned[i].to = "aggregate" =>
               /\ scanned[i].landed = scanned[i].span
               /\ scanned[i].parens \/ scanned[i].since \in ToBrace
          /\ scanned[i].to = "member" =>
               scanned[i].on = scanned[i].inner /\ scanned[i].landed = scanned[i].span
          /\ scanned[i].to = "failed" => scanned[i].span \in reported
      BY <2>1, <3>1 DEF ScanInv, SettledOK, n
    <3>3. QED
      BY <3>1, <3>2
  <2>2. CASE i = n + 1
    <3>1. <<>> \in ToBrace
      BY DEF ToBrace
    <3>2. QED
      BY <1>1, <2>2, <3>1 DEF a
  <2>3. QED
    BY <1>1, <2>1, <2>2
<1>7. QED
  BY <1>2, <1>3, <1>4, <1>5, <1>6 DEF ScanInv

LEMMA AttributeKeeps ==
  ASSUME ScanInv, NEW layout \in BOOLEAN, Attribute(layout)
  PROVE  ScanInv'
<1> DEFINE n == Len(scanned)
           a == scanned'[n + 1]
<1>1. /\ ~ ended
      /\ UNCHANGED <<parens, prev, prev2, closed, assigns, span, opened, bodies, ended, mayName>>
  BY DEF Attribute
<1>2. /\ {"aggregate", "pending", "waiting", "failed"} \subseteq Destinations
      /\ 0 \in Nat /\ n \in Nat /\ Innermost.id \in Nat /\ stack \in Seq(Braces)
      /\ pending \subseteq 1 .. n
  BY ScanFacts DEF Destinations
<1>3. ASSUME NEW to \in Destinations, NEW on \in Nat, New(to, on)
      PROVE  /\ Len(scanned') = n + 1
             /\ \A i \in 1 .. n : scanned'[i] = scanned[i]
             /\ a.to = to /\ a.span = span /\ a.inner = Innermost.id /\ a.since = <<>>
             /\ ~a.parens => to # "pending" \/ ~parens
  BY <1>3, NewRow
<1>4. ASSUME NEW to \in Destinations, NEW on \in Nat, New(to, on), to # "waiting", stack' = stack
      PROVE  WaitingOK'
  <2>1. /\ Len(scanned') = n + 1 /\ \A i \in 1 .. n : scanned'[i] = scanned[i]
        /\ a.to # "waiting"
    BY <1>3, <1>4
  <2>2. \A i \in 1 .. n : scanned[i].to = "waiting" =>
          scanned[i].span = span /\ \E k \in 1 .. Len(stack) : i \in stack[k].waiting
    BY DEF ScanInv, WaitingOK
  <2>3. \A k \in 1 .. Len(stack) : \A i \in stack[k].waiting :
          /\ i \in 1 .. n /\ scanned[i].to = "waiting" /\ scanned[i].inner = stack[k].id
          /\ \A l \in 1 .. Len(stack) : i \in stack[l].waiting => k = l
    BY DEF ScanInv, WaitingOK
  <2>4. \A i \in 1 .. n + 1 : i \in 1 .. n \/ i = n + 1
    BY <1>2
  <2> HIDE DEF n
  <2>5. \A i \in 1 .. Len(scanned') : scanned'[i].to = "waiting" => i \in 1 .. n
    BY <2>1, <2>4
  <2>6. \A i \in 1 .. n : i \in 1 .. Len(scanned')
    BY <1>2, <2>1
  <2>7. \A i \in 1 .. Len(scanned') : scanned'[i].to = "waiting" =>
          scanned'[i].span = span' /\ \E k \in 1 .. Len(stack') : i \in stack'[k].waiting
    BY <1>1, <1>4, <2>1, <2>2, <2>5
  <2>8. \A k \in 1 .. Len(stack') : \A i \in stack'[k].waiting :
          /\ i \in 1 .. Len(scanned') /\ scanned'[i].to = "waiting"
          /\ scanned'[i].inner = stack'[k].id
          /\ \A l \in 1 .. Len(stack') : i \in stack'[l].waiting => k = l
    BY <1>4, <2>1, <2>3, <2>6
  <2>9. QED
    BY <2>7, <2>8 DEF WaitingOK
\* What waits for a brace is still on its way.
<1>5. ASSUME NEW to \in Destinations, NEW on \in Nat, New(to, on), pending' = pending,
             expect' = expect
      PROVE  TrailOK'
  <2>1. \A i \in pending : scanned'[i] = scanned[i]
    BY <1>2, <1>3, <1>5
  <2>2. QED
    BY <1>1, <1>5, <2>1 DEF ScanInv, TrailOK, OnTrack, AfterKeyword
<1>6. ASSUME New("failed", 0), reported' = reported \cup {span}, UNCHANGED <<pending, expect, stack>>
      PROVE  ScanInv'
  <2>1. WaitingOK' /\ TrailOK'
    BY <1>2, <1>4, <1>5, <1>6
  <2>2. QED
    BY <1>1, <1>2, <1>6, <2>1, RowKeeps
<1>7. ASSUME New("aggregate", closed.id), UNCHANGED <<pending, expect, stack, reported>>
      PROVE  ScanInv'
  <2>1. closed.id \in Nat
    BY DEF ScanInv, ScanTyped
  <2>2. WaitingOK' /\ TrailOK'
    BY <1>2, <1>4, <1>5, <1>7, <2>1
  <2>3. QED
    BY <1>1, <1>2, <1>7, <2>1, <2>2, RowKeeps
<1>8. ASSUME New("pending", 0), pending' = pending \cup {n + 1}, UNCHANGED <<stack, reported>>,
             \/ AfterKeyword("struct")
             \/ AtTopLevel /\ ~AfterKeyword("struct") /\ expect' = "struct"
      PROVE  ScanInv'
  <2>1. WaitingOK'
    BY <1>2, <1>4, <1>8
  <2>2. TrailOK'
    <3>1. \A i \in pending : scanned'[i] = scanned[i]
      BY <1>2, <1>3, <1>8
    <3>2. a.since = <<>> /\ a.span = span /\ (~a.parens => ~parens)
      BY <1>2, <1>3, <1>8
    <3> SUFFICES ASSUME NEW i \in pending', scanned'[i].span \notin bodies, ~scanned'[i].parens
                 PROVE  ~parens /\ OnTrack(scanned[i].since)'
      BY <1>1 DEF TrailOK
    <3>3. CASE i \in pending
      <4>1. ~parens /\ OnTrack(scanned[i].since)
        BY <3>1, <3>3 DEF ScanInv, TrailOK
      <4>2. QED
        BY <1>1, <1>8, <3>1, <3>3, <4>1 DEF OnTrack, AfterKeyword
    <3>4. CASE i = n + 1
      <4>1. scanned'[i].since = <<>> /\ ~parens
        BY <3>2, <3>4
      <4>2. QED
        BY <1>1, <1>8, <4>1 DEF OnTrack, AfterKeyword
    <3>5. QED
      BY <1>8, <3>3, <3>4
  <2>3. QED
    BY <1>1, <1>2, <1>8, <2>1, <2>2, RowKeeps
<1>9. ASSUME New("waiting", Innermost.id), UNCHANGED <<pending, expect, reported>>,
             stack # <<>>,
             stack' = [stack EXCEPT ![Len(stack)].waiting = @ \cup {n + 1}]
      PROVE  ScanInv'
  <2> DEFINE m == Len(stack)
             top == [stack[m] EXCEPT !.waiting = @ \cup {n + 1}]
  <2>1. /\ m \in Nat \ {0} /\ m \in 1 .. m /\ Innermost = stack[m] /\ stack[m] \in Braces
    BY <1>2, <1>9, ScanFacts, ElementOfSeq, EmptySeq
  <2>2. top \in Braces /\ top.waiting = stack[m].waiting \cup {n + 1} /\ top.id = stack[m].id
    BY <1>2, <2>1 DEF Braces
  <2>3. stack' = [stack EXCEPT ![m] = top]
    BY <1>9
  <2> HIDE DEF top, m
  <2>4. /\ stack' \in Seq(Braces) /\ Len(stack') = m
        /\ \A k \in 1 .. m : stack'[k] = IF k = m THEN top ELSE stack[k]
    BY <1>2, <2>1, <2>2, <2>3, ExceptSeq DEF m
  <2>5. /\ Len(scanned') = n + 1 /\ \A i \in 1 .. n : scanned'[i] = scanned[i]
        /\ a.to = "waiting" /\ a.span = span /\ a.inner = stack[m].id
    BY <1>2, <1>3, <1>9, <2>1
  <2>6. \A i \in 1 .. n : scanned[i].to = "waiting" =>
          scanned[i].span = span /\ \E k \in 1 .. m : i \in stack[k].waiting
    BY DEF ScanInv, WaitingOK, m
  <2>7. \A k \in 1 .. m : \A i \in stack[k].waiting :
          /\ i \in 1 .. n /\ scanned[i].to = "waiting" /\ scanned[i].inner = stack[k].id
          /\ \A l \in 1 .. m : i \in stack[l].waiting => k = l
    BY DEF ScanInv, WaitingOK, m
  <2>8. /\ \A i \in 1 .. n + 1 : i \in 1 .. n \/ i = n + 1
        /\ n + 1 \notin 1 .. n /\ n + 1 \in 1 .. n + 1
        /\ \A i \in 1 .. n : i \in 1 .. n + 1
    BY <1>2
  <2> HIDE DEF n, a
  <2>9. \A k \in 1 .. m : stack'[k].id = stack[k].id /\ stack[k].waiting \subseteq stack'[k].waiting
                          /\ \A i \in stack'[k].waiting : i \in stack[k].waiting \/ (i = n + 1 /\ k = m)
    BY <2>2, <2>4
  <2>10. ASSUME NEW i \in 1 .. n + 1, scanned'[i].to = "waiting"
         PROVE  scanned'[i].span = span /\ \E k \in 1 .. m : i \in stack'[k].waiting
    <3>1. CASE i = n + 1
      BY <2>1, <2>2, <2>4, <2>5, <3>1 DEF a
    <3>2. CASE i \in 1 .. n
      BY <2>5, <2>6, <2>9, <2>10, <3>2
    <3>3. QED
      BY <2>8, <3>1, <3>2
  <2>11. ASSUME NEW k \in 1 .. m, NEW i \in stack'[k].waiting
         PROVE  /\ i \in 1 .. n + 1 /\ scanned'[i].to = "waiting"
                /\ scanned'[i].inner = stack'[k].id
                /\ \A l \in 1 .. m : i \in stack'[l].waiting => k = l
    <3>1. CASE i = n + 1
      <4>1. \A l \in 1 .. m : i \notin stack[l].waiting
        BY <2>7, <2>8, <3>1
      <4>2. k = m
        BY <2>9, <4>1
      <4>3. QED
        BY <2>5, <2>8, <2>9, <3>1, <4>1, <4>2 DEF a
    <3>2. CASE i \in stack[k].waiting
      <4>1. i \in 1 .. n /\ i # n + 1
        BY <2>7, <2>8, <3>2
      <4>2. QED
        BY <2>5, <2>7, <2>8, <2>9, <3>2, <4>1
    <3>3. QED
      BY <2>9, <3>1, <3>2
  <2>12. WaitingOK'
    <3>1. Len(scanned') = n + 1 /\ Len(stack') = m /\ span' = span
      BY <1>1, <2>4, <2>5
    <3>2. \A i \in 1 .. Len(scanned') : scanned'[i].to = "waiting" =>
            scanned'[i].span = span' /\ \E k \in 1 .. Len(stack') : i \in stack'[k].waiting
      BY <2>10, <3>1
    <3>3. \A k \in 1 .. Len(stack') : \A i \in stack'[k].waiting :
            /\ i \in 1 .. Len(scanned') /\ scanned'[i].to = "waiting"
            /\ scanned'[i].inner = stack'[k].id
            /\ \A l \in 1 .. Len(stack') : i \in stack'[l].waiting => k = l
      BY <2>11, <3>1
    <3>4. QED
      BY <3>2, <3>3 DEF WaitingOK
  <2>13. TrailOK'
    BY <1>2, <1>5, <1>9
  <2>14. QED
    BY <1>1, <1>2, <1>9, <2>4, <2>12, <2>13, RowKeeps
<1>10. CASE layout
  <2>1. Placed
    BY <1>10 DEF Attribute
  <2>2. Innermost.kind = "aggregate" => stack # <<>>
    BY ScanFacts
  <2>3. QED
    BY <1>6, <1>7, <1>8, <1>9, <2>1, <2>2 DEF Placed
<1>11. CASE ~layout
  BY <1>6, <1>11 DEF Attribute
<1>12. QED
  BY <1>10, <1>11

LEMMA ScanInvNext == ScanInv /\ [ScanNext]_scanVars => ScanInv'
<1> SUFFICES ASSUME ScanInv, [ScanNext]_scanVars PROVE ScanInv'
  OBVIOUS
<1>1. CASE ScanNext
  BY <1>1, AttributeKeeps, FunctionBodyKeeps, OpenBraceKeeps, CloseBraceKeeps, SemicolonKeeps,
     TokenKeeps, EndOfTextKeeps DEF ScanNext
<1>2. CASE UNCHANGED scanVars
  <2>1. ScanTyped' /\ SpansOK' /\ PendingOK'
    BY <1>2 DEF scanVars, ScanInv, ScanTyped, SpansOK, PendingOK, Current
  <2>2. WaitingOK' /\ KeywordOK'
    BY <1>2 DEF scanVars, ScanInv, WaitingOK, KeywordOK, AfterKeyword
  <2>3. TrailOK' /\ SettledOK'
    BY <1>2 DEF scanVars, ScanInv, TrailOK, OnTrack, AfterKeyword, SettledOK
  <2>4. QED
    BY <2>1, <2>2, <2>3 DEF ScanInv
<1>3. QED
  BY <1>1, <1>2

LEMMA ScanInvReaches == ScanInv => AttributesReach
<1> SUFFICES ASSUME ScanInv, NEW i \in 1 .. Len(scanned), scanned[i].span \notin bodies
             PROVE  LET a == scanned[i] IN
                    /\ a.span < span \/ ended => a.to \notin {"pending", "waiting"}
                    /\ a.to = "aggregate" =>
                         /\ a.landed = a.span
                         /\ a.parens \/ a.since \in ToBrace
                    /\ a.to = "waiting" => \E k \in DOMAIN stack : stack[k].id = a.inner
                    /\ a.to = "member" => a.on = a.inner /\ a.landed = a.span
                    /\ a.to = "failed" => a.span \in reported
  <2>1. DOMAIN scanned = 1 .. Len(scanned)
    BY ScanFacts, LenProperties
  <2>2. QED
    BY <2>1 DEF AttributesReach, ToBrace
<1>1. DOMAIN stack = 1 .. Len(stack) /\ scanned[i].span \in Nat /\ span \in Nat
  BY ScanFacts, LenProperties
<1>2. scanned[i].to = "pending" => scanned[i].span = span /\ ~ ended
  BY DEF ScanInv, PendingOK, Current
<1>3. scanned[i].to = "waiting" =>
        scanned[i].span = span /\ \E k \in 1 .. Len(stack) : i \in stack[k].waiting
  BY DEF ScanInv, WaitingOK
<1>4. scanned[i].to = "waiting" =>
        ~ ended /\ \E k \in DOMAIN stack : stack[k].id = scanned[i].inner
  <2>1. \A k \in 1 .. Len(stack) : i \in stack[k].waiting => scanned[i].inner = stack[k].id
    BY DEF ScanInv, WaitingOK
  <2>2. ended => 1 .. Len(stack) = {}
    BY NothingOpen DEF ScanInv, PendingOK
  <2>3. QED
    BY <1>1, <1>3, <2>1, <2>2
<1>5. /\ scanned[i].to = "aggregate" =>
           /\ scanned[i].landed = scanned[i].span
           /\ scanned[i].parens \/ scanned[i].since \in ToBrace
      /\ scanned[i].to = "member" =>
           scanned[i].on = scanned[i].inner /\ scanned[i].landed = scanned[i].span
      /\ scanned[i].to = "failed" => scanned[i].span \in reported
  BY DEF ScanInv, SettledOK
<1>6. scanned[i].span < span \/ ended => scanned[i].to \notin {"pending", "waiting"}
  BY <1>1, <1>2, <1>3, <1>4
<1>7. QED
  BY <1>4, <1>5, <1>6

\* No layout attribute is lost or goes astray, whatever the text (attribute,
\* place, place_pending, fail_pending and run of cheader/rewrite.py).
THEOREM AttributesArrive == ScanSpec => []AttributesReach
<1>1. QED
  BY ScanInvInit, ScanInvNext, ScanInvReaches, PTL DEF ScanSpec

-----------------------------------------------------------------------------
(* Typed views: addresses                                                   *)

\* What an index register contributes is a number, nothing if it holds 0.
LEMMA IndexValueInt ==
  ASSUME NEW how, NEW v \in Int
  PROVE  IndexValue(how, v) \in Int /\ IndexValue("none", v) = v
<1> DEFINE H == HalfModulus
<1>1. H \in Nat \ {0}
  BY StructsAssumption
<1> HIDE DEF H
<1>2. v % H \in Int /\ (v % H) - H \in Int
  BY <1>1
<1>3. SignedIn(v, H) \in Int
  BY <1>2 DEF SignedIn
<1>4. QED
  BY <1>2, <1>3 DEF IndexValue, H

\* An address points at a number, the terms of which are numbers.
LEMMA PointsInt ==
  ASSUME NEW arch \in Arches, NEW a, AddrOK(arch, a), NEW rf \in RegFiles
  PROVE  /\ Held(rf, a.base) \in Int /\ IndexValue(a.how, Held(rf, a.index)) \in Int
         /\ a.scale \in {1, 2, 4, 8} /\ a.disp \in Int
         /\ Points(a, rf) \in Int
         /\ a.index = Absent => Points(a, rf) = Held(rf, a.base) + a.disp
<1>1. /\ a.base \in AddressRegs \cup {Absent} /\ a.index \in AddressRegs \cup {Absent}
      /\ a.scale \in {1, 2, 4, 8} /\ a.disp \in Int /\ (a.index = Absent => a.how = "none" /\ a.scale = 1)
  BY DEF AddrOK, Addresses, Hows, ScalarSizes
<1>2. rf \in [AddressRegs -> Nat]
  BY StructsAssumption
<1>3. Held(rf, a.base) \in Int /\ Held(rf, a.index) \in Int
  BY <1>1, <1>2 DEF Held
<1>4. IndexValue(a.how, Held(rf, a.index)) \in Int
  BY <1>3, IndexValueInt
<1>5. Points(a, rf) \in Int
  BY <1>1, <1>3, <1>4 DEF Points
<1>6. ASSUME a.index = Absent PROVE Points(a, rf) = Held(rf, a.base) + a.disp
  <2>1. Held(rf, a.index) = 0
    BY <1>6 DEF Held
  <2>2. IndexValue(a.how, Held(rf, a.index)) = 0
    BY <1>1, <1>6, <2>1, IndexValueInt
  <2>3. QED
    BY <1>1, <1>3, <2>2 DEF Points
<1>7. QED
  BY <1>1, <1>3, <1>4, <1>5, <1>6

\* The addresses, machine by machine.
LEMMA AddressesOf ==
  ASSUME NEW a, NEW size
  PROVE  /\ AddressOf("x64", a, size) <=>
              /\ a.scale \in ScalarSizes /\ a.index # "rsp"
              /\ a.base = "rip" => a.index = Absent
         /\ AddressOf("aarch64", a, size) <=>
              /\ a.scale \in ScalarSizes /\ (a.index # Absent => a.disp = 0)
              /\ size # Absent => a.scale \in {1, size}
         /\ AddressOf("riscv64", a, size) <=> a.scale \in ScalarSizes /\ a.index = Absent
         /\ AddressOf("loongarch64", a, size) <=>
              a.scale \in ScalarSizes /\ (a.index # Absent => a.disp = 0 /\ a.scale = 1)
BY DEF AddressOf

\* A view has the address and the type it is made of (_view, _scalar).
LEMMA ViewMade ==
  ASSUME NEW arch \in Arches, NEW a, NEW t, NEW extent, AddrOK(arch, a), View(arch, a, t, extent) # Refused
  PROVE  LET v == View(arch, a, t, extent) IN
         /\ v.arch = arch /\ v.addr = a /\ v.ctype = t
         /\ AddressOf(arch, a, v.size)
         /\ v.size # Absent => v.size = Ctypes[t].size /\ (arch = "aarch64" => v.extent = extent)
<1> DEFINE v == View(arch, a, t, extent)
<1>1. AddressOf(arch, a, Absent)
  BY DEF AddrOK, Addresses, Hows
<1>2. CASE Ctypes[t].kind # "scalar"
  <2>1. v = [arch |-> arch, addr |-> a, ctype |-> t, size |-> Absent, extent |-> Absent]
    BY <1>2 DEF View
  <2> HIDE DEF v
  <2>2. QED
    BY <1>1, <2>1 DEF v
<1>3. CASE Ctypes[t].kind = "scalar"
  <2>1. ScalesAccess(arch, a, t)
    BY <1>3 DEF View
  <2>2. v = [arch |-> arch, addr |-> a, ctype |-> t, size |-> Ctypes[t].size,
             extent |-> IF arch = "aarch64" THEN extent ELSE Absent]
    BY <1>3 DEF View
  <2>3. AddressOf(arch, a, Ctypes[t].size)
    <3> DEFINE n == Ctypes[t].size
    <3>1. arch = "aarch64" => a.scale \in {1, n}
      BY <2>1 DEF ScalesAccess, AddrOK, Addresses, Hows
    <3> HIDE DEF n
    <3>2. AddressOf(arch, a, n)
      <4>1. CASE arch = "aarch64"
        BY <1>1, <3>1, <4>1, AddressesOf
      <4>2. CASE arch # "aarch64"
        BY <1>1, <4>2, AddressesOf DEF Arches
      <4>3. QED
        BY <4>1, <4>2
    <3>3. QED
      BY <3>2 DEF n
  <2> HIDE DEF v
  <2>4. QED
    BY <2>2, <2>3 DEF v
<1>4. QED
  BY <1>2, <1>3

\* Bytes further (_offset).
LEMMA AlongMoves ==
  ASSUME NEW arch \in Arches, NEW a, AddrOK(arch, a), NEW n \in Int, Along(arch, a, n) # Refused
  PROVE  /\ AddrOK(arch, Along(arch, a, n))
         /\ \A rf \in RegFiles : Points(Along(arch, a, n), rf) = Points(a, rf) + n
<1> DEFINE m == Along(arch, a, n)
<1>1. /\ a \in Addresses
      /\ a.index = Absent => a.how = "none" /\ a.scale = 1
      /\ arch \in {"riscv64", "loongarch64"} => a.base # Absent
      /\ AddressOf(arch, a, Absent)
  BY DEF AddrOK, Addresses, Hows
<1>2. m = [a EXCEPT !.disp = @ + n] /\ (a.index # Absent /\ arch \in {"aarch64", "loongarch64"} => n = 0)
  BY DEF Along
<1> HIDE DEF m
<1>3. /\ m \in Addresses
      /\ m.base = a.base /\ m.index = a.index /\ m.how = a.how /\ m.scale = a.scale /\ m.disp = a.disp + n
  BY <1>1, <1>2 DEF Addresses
<1>4. a.disp \in Int
  BY <1>1 DEF Addresses
<1>5. AddressOf(arch, m, Absent)
  <2>1. /\ m.base = a.base /\ m.index = a.index /\ m.scale = a.scale
        /\ a.index # Absent /\ arch \in {"aarch64", "loongarch64"} => m.disp = a.disp
    BY <1>2, <1>3, <1>4
  <2>2. AddressOf(arch, a, Absent) /\ arch \in {"x64", "aarch64", "riscv64", "loongarch64"}
    BY <1>1 DEF Arches
  <2>3. QED
    BY <2>1, <2>2, AddressesOf
<1>6. AddrOK(arch, m)
  BY <1>1, <1>3, <1>5 DEF AddrOK, Addresses, Hows
<1>7. ASSUME NEW rf \in RegFiles PROVE Points(m, rf) = Points(a, rf) + n
  <2>1. /\ Held(rf, a.base) \in Int /\ IndexValue(a.how, Held(rf, a.index)) \in Int
        /\ a.scale \in {1, 2, 4, 8} /\ a.disp \in Int
    BY PointsInt
  <2>2. QED
    BY <1>3, <2>1 DEF Points
<1>8. QED
  BY <1>6, <1>7 DEF m

\* The exponent of a power of two.
LEMMA Powers ==
  ASSUME NEW n \in {1, 2, 4, 8, 16}
  PROVE  Log2(n) \in 0 .. 4 /\ TimesOf(Log2(n)) = n
<1>1. TimesOf(0) = 1 /\ TimesOf(1) = 2 /\ TimesOf(2) = 4 /\ TimesOf(3) = 8 /\ TimesOf(4) = 16
  BY DEF TimesOf
<1>2. \E k \in 0 .. 4 : TimesOf(k) = n
  BY <1>1
<1>3. QED
  BY <1>2 DEF Log2

\* An element at a register is that many elements further.
Elementwise(arch, a, index, esize, m) ==
  /\ AddrOK(arch, m) /\ Says(arch, index, esize)
  /\ \A rf \in RegFiles : Points(m, rf) = Points(a, rf) + esize * IndexValue(index.how, rf[index.reg])

\* What an index register holds.
LEMMA RegisterHeld ==
  ASSUME NEW arch \in Arches, NEW index, IndexOK(arch, index), NEW rf \in RegFiles
  PROVE  /\ index.reg \in AddressRegs /\ index.reg # Absent
         /\ Held(rf, index.reg) = rf[index.reg] /\ rf[index.reg] \in Int
         /\ IndexValue(index.how, rf[index.reg]) \in Int
         /\ IndexValue("none", rf[index.reg]) = rf[index.reg]
<1>1. index.reg \in AddressRegs /\ index.reg # Absent
  BY StructsAssumption DEF IndexOK
<1>2. rf \in [AddressRegs -> Nat]
  BY StructsAssumption
<1>3. rf[index.reg] \in Int
  BY <1>1, <1>2
<1>4. QED
  BY <1>1, <1>3, IndexValueInt DEF Held

\* On x64 beside any base, which rsp trades places with.
LEMMA X64Element ==
  ASSUME NEW a, AddrOK("x64", a), NEW index, IndexOK("x64", index), NEW esize,
         IndexX64(a, index, esize) # Refused
  PROVE  Elementwise("x64", a, index, esize, IndexX64(a, index, esize))
<1> DEFINE m == Swapped(a.base, index.reg, esize, a.disp)
           r == index.reg
           s == a.base
           d == a.disp
           swap == r = "rsp" /\ esize = 1 /\ s \notin {"rsp", "rip"}
<1>1. /\ esize \in {1, 2, 4, 8} /\ a.index = Absent /\ index.part # "f"
      /\ IndexX64(a, index, esize) = m /\ AddressOf("x64", m, Absent)
  BY DEF IndexX64, ScalarSizes
<1>2. /\ s \in AddressRegs \cup {Absent} /\ d \in Int
      /\ r \in AddressRegs /\ index.part \in {"x", "f"} /\ index.how = "none" /\ index.amount = Absent
  BY DEF AddrOK, Addresses, Hows, IndexOK, Arches
<1>3. m = [base |-> IF swap THEN r ELSE s, index |-> IF swap THEN s ELSE r, how |-> "none",
           scale |-> esize, disp |-> d]
  BY DEF Swapped
<1> HIDE DEF m, r, s, d
<1>4. AddrOK("x64", m)
  BY <1>1, <1>2, <1>3, StructsAssumption DEF AddrOK, Addresses, Hows, ScalarSizes
<1>5. Says("x64", index, esize)
  BY <1>1, <1>2 DEF Says
<1>6. ASSUME NEW rf \in RegFiles
      PROVE  Points(m, rf) = Points(a, rf) + esize * IndexValue(index.how, rf[index.reg])
  <2>1. Points(a, rf) = Held(rf, s) + d /\ Held(rf, s) \in Int
    BY <1>1, PointsInt DEF s, d, Arches
  <2>2. Held(rf, r) = rf[r] /\ rf[r] \in Int /\ IndexValue("none", rf[r]) = rf[r]
    BY RegisterHeld DEF r, Arches
  <2>3. IndexValue("none", Held(rf, s)) = Held(rf, s)
    BY <2>1, IndexValueInt
  <2>4. CASE swap
    <3>1. Points(m, rf) = Held(rf, r) + 1 * Held(rf, s) + d
      BY <1>3, <2>3, <2>4 DEF Points
    <3>2. QED
      BY <1>2, <2>1, <2>2, <2>4, <3>1 DEF r
  <2>5. CASE ~swap
    <3>1. Points(m, rf) = Held(rf, s) + esize * rf[r] + d
      BY <1>3, <2>2, <2>5 DEF Points
    <3> DEFINE x == esize * rf[r]
    <3>2. x \in Int
      BY <1>1, <2>2
    <3>3. Points(m, rf) = Held(rf, s) + x + d /\ Points(a, rf) = Held(rf, s) + d
      BY <2>1, <3>1
    <3>4. IndexValue(index.how, rf[index.reg]) = rf[r]
      BY <1>2, <2>2 DEF r
    <3> HIDE DEF x
    <3>5. Points(m, rf) = Points(a, rf) + x
      BY <1>2, <2>1, <3>2, <3>3
    <3>6. QED
      BY <3>4, <3>5 DEF x
  <2>6. QED
    BY <2>4, <2>5
<1>7. QED
  BY <1>1, <1>4, <1>5, <1>6 DEF Elementwise

\* An address with an index and nothing else (aarch64 and loongarch64).
LEMMA IndexedElement ==
  ASSUME NEW arch \in {"aarch64", "loongarch64"}, NEW a, AddrOK(arch, a), a.index = Absent, a.disp = 0,
         NEW index, IndexOK(arch, index), index.how \in {"none", "lsl", "uxtw", "sxtw", "sxtx"},
         NEW esize \in {1, 2, 4, 8}, arch = "loongarch64" => esize = 1, Says(arch, index, esize)
  PROVE  Elementwise(arch, a, index, esize, AtIndex(a.base, index.reg, index.how, esize))
<1> DEFINE m == AtIndex(a.base, index.reg, index.how, esize)
<1>1. m = [base |-> a.base, index |-> index.reg, how |-> index.how, scale |-> esize, disp |-> 0]
  BY DEF AtIndex
<1>2. /\ a.base \in AddressRegs \cup {Absent} /\ (arch = "loongarch64" => a.base # Absent)
      /\ index.reg \in AddressRegs /\ index.reg # Absent /\ arch \in Arches
  BY StructsAssumption DEF AddrOK, Addresses, Hows, IndexOK, Arches
<1> HIDE DEF m
<1>3. AddressOf(arch, m, Absent)
  BY <1>1, AddressesOf DEF ScalarSizes
<1>4. AddrOK(arch, m)
  BY <1>1, <1>2, <1>3 DEF AddrOK, Addresses, Hows, ScalarSizes
<1>5. ASSUME NEW rf \in RegFiles
      PROVE  Points(m, rf) = Points(a, rf) + esize * IndexValue(index.how, rf[index.reg])
  <2> DEFINE x == IndexValue(index.how, rf[index.reg])
             y == esize * x
  <2>1. Points(a, rf) = Held(rf, a.base) + 0 /\ Held(rf, a.base) \in Int
    BY <1>2, PointsInt
  <2>2. Held(rf, index.reg) = rf[index.reg] /\ x \in Int
    BY <1>2, RegisterHeld
  <2>3. Points(m, rf) = Held(rf, a.base) + y + 0
    BY <1>1, <2>2 DEF Points
  <2>4. y \in Int
    BY <2>2
  <2> HIDE DEF y
  <2>5. QED
    BY <2>1, <2>3, <2>4 DEF y
<1>6. QED
  BY <1>4, <1>5 DEF Elementwise, m

\* TypedArray.__getitem__ with a register, on each machine.
LEMMA AtRegisterReaches ==
  ASSUME NEW arch \in Arches, NEW a, AddrOK(arch, a), NEW index, IndexOK(arch, index), NEW esize,
         AtRegister(arch, a, index, esize) # Refused
  PROVE  Elementwise(arch, a, index, esize, AtRegister(arch, a, index, esize))
<1>1. CASE arch = "x64"
  BY <1>1, X64Element DEF AtRegister
<1>2. CASE arch = "aarch64"
  <2>1. AtRegister(arch, a, index, esize) = IndexAarch64(a, index, esize)
    BY <1>2 DEF AtRegister
  <2>2. /\ esize \in {1, 2, 4, 8} /\ a.index = Absent /\ a.disp = 0 /\ IndexFits(index, esize)
        /\ IndexAarch64(a, index, esize) = AtIndex(a.base, index.reg, index.how, esize)
    BY <2>1 DEF IndexAarch64, ScalarSizes
  <2>3. TimesOf(Log2(esize)) = esize
    BY <2>2, Powers
  <2>4. Says(arch, index, esize) /\ index.how \in {"none", "lsl", "uxtw", "sxtw", "sxtx"}
    BY <1>2, <2>2, <2>3 DEF IndexFits, Says
  <2>5. QED
    BY <1>2, <2>1, <2>2, <2>4, IndexedElement
<1>3. CASE arch = "riscv64"
  BY <1>3 DEF AtRegister
<1>4. CASE arch = "loongarch64"
  <2>1. AtRegister(arch, a, index, esize) = IndexLoong(a, index, esize)
    BY <1>4 DEF AtRegister
  <2>2. /\ esize = 1 /\ a.index = Absent /\ a.disp = 0 /\ index.part # "f"
        /\ IndexLoong(a, index, esize) = AtIndex(a.base, index.reg, "none", esize)
    BY <2>1 DEF IndexLoong
  <2>3. index.part = "x" /\ index.how = "none" /\ index.amount = Absent
    BY <1>4, <2>2 DEF IndexOK
  <2>4. Says(arch, index, esize)
    BY <2>3 DEF Says
  <2>5. QED
    BY <1>4, <2>1, <2>2, <2>3, <2>4, IndexedElement
<1>5. QED
  BY <1>1, <1>2, <1>3, <1>4 DEF Arches

-----------------------------------------------------------------------------
(* Typed views: paths                                                       *)

\* v is a view of the place p, of its bytes exactly.
Reaches(v, p) ==
  /\ v.arch \in Arches /\ AddrOK(v.arch, v.addr)
  /\ v.ctype \in DOMAIN Ctypes /\ v.ctype = p.ctype
  /\ p.where = [rf \in RegFiles |-> Points(v.addr, rf)]
  /\ AddressOf(v.arch, v.addr, v.size)
  /\ v.size # Absent =>
       /\ v.size = Ctypes[p.ctype].size
       /\ v.arch = "aarch64" =>
            IF p.end = Absent THEN v.extent = Absent
            ELSE \A rf \in RegFiles : v.extent = p.end[rf] - p.where[rf]

\* What is neither absent nor refused is a view of where the path leads.
ViewInv == view \notin {Absent, Refused} => Reaches(view, denoted)

\* What View makes at the address of a place is a view of the place.
LEMMA ViewOfPlace ==
  ASSUME NEW arch \in Arches, NEW m, AddrOK(arch, m), NEW t \in DOMAIN Ctypes, NEW extent, NEW where, NEW end,
         where = [rf \in RegFiles |-> Points(m, rf)],
         IF end = Absent THEN extent = Absent ELSE \A rf \in RegFiles : extent = end[rf] - where[rf],
         View(arch, m, t, extent) # Refused
  PROVE  Reaches(View(arch, m, t, extent), Spot(where, t, end))
<1> DEFINE v == View(arch, m, t, extent)
           p == Spot(where, t, end)
<1>1. /\ v.arch = arch /\ v.addr = m /\ v.ctype = t
      /\ AddressOf(arch, m, v.size)
      /\ v.size # Absent => v.size = Ctypes[t].size /\ (arch = "aarch64" => v.extent = extent)
  BY ViewMade
<1>2. p.where = where /\ p.ctype = t /\ p.end = end
  BY DEF Spot
<1> HIDE DEF v, p
<1>3. QED
  BY <1>1, <1>2 DEF Reaches, v, p

\* Places along the path.
LEMMA PlacesFurther ==
  ASSUME NEW a, denoted.where = [rf \in RegFiles |-> Points(a, rf)], NEW m,
         NEW n, \A rf \in RegFiles : Points(m, rf) = Points(a, rf) + n, NEW t, NEW end
  PROVE  Further(n, t, end) = Spot([rf \in RegFiles |-> Points(m, rf)], t, end)
<1>1. [rf \in RegFiles |-> denoted.where[rf] + n] = [rf \in RegFiles |-> Points(m, rf)]
  OBVIOUS
<1>2. QED
  BY <1>1 DEF Further

\* Ends are none or one for each register file.
LEMMA EndIsNone == ASSUME NEW f, f \in [RegFiles -> Int] PROVE f # Absent
BY StructsAssumption

\* The layouts of ctypes.
LEMMA SizesInt ==
  ASSUME NEW t \in DOMAIN Ctypes
  PROVE  /\ Ctypes[t].size \in Nat
         /\ Ctypes[t].kind = "array" => Ctypes[t].elem \in DOMAIN Ctypes /\ Ctypes[Ctypes[t].elem].size \in Nat
         /\ \A f \in DOMAIN Ctypes[t].fields :
              /\ Ctypes[t].fields[f].ctype \in DOMAIN Ctypes /\ Ctypes[t].fields[f].at \in Nat
BY StructsAssumption DEF CtypeOK

\* typed()
LEMMA BaseReaches ==
  ASSUME NEW arch \in Arches, NEW base \in Given[arch], NEW t \in DOMAIN Ctypes, Typed(arch, base, t)
  PROVE  ViewInv'
<1> DEFINE a == base.addr
           where == [rf \in RegFiles |-> Points(a, rf)]
           n == Ctypes[t].size
           end == [rf \in RegFiles |-> where[rf] + n]
           ok == base.size = Absent /\ base.mode = "offset"
<1>1. /\ view' = IF ok THEN View(arch, a, t, n) ELSE Refused
      /\ denoted' = IF ok THEN Spot(where, t, end) ELSE Absent
  BY DEF Typed, Reach
<1>2. SUFFICES ASSUME ok, View(arch, a, t, n) # Refused PROVE Reaches(View(arch, a, t, n), Spot(where, t, end))
  BY <1>1 DEF ViewInv
<1>3. AddrOK(arch, a)
  BY <1>2, StructsAssumption
<1>4. n \in Nat
  BY SizesInt
<1>5. \A rf \in RegFiles : Points(a, rf) \in Int
  BY <1>3, PointsInt
<1> HIDE DEF n, a
<1>6. end \in [RegFiles -> Int] /\ \A rf \in RegFiles : end[rf] - where[rf] = n
  BY <1>4, <1>5
<1>7. end # Absent
  BY <1>6, EndIsNone
<1> HIDE DEF where, end
<1>8. QED
  BY <1>2, <1>3, <1>6, <1>7, ViewOfPlace DEF where

\* view.f
LEMMA FieldReaches ==
  ASSUME ViewInv, NEW f, GetField(f)
  PROVE  ViewInv'
<1> DEFINE x == Ctypes[view.ctype].fields[f]
           n == Ctypes[x.ctype].size
           m == Along(view.arch, view.addr, x.at)
           where == [rf \in RegFiles |-> Points(m, rf)]
           end == EndOf(x.at + n)
           v == View(view.arch, m, x.ctype, n)
<1>1. Reaches(view, denoted)
  BY DEF ViewInv, GetField, OnView
<1>2. CASE ~HasField(view.ctype, f)
  BY <1>2 DEF GetField, Reach, ViewInv
<1>3. CASE HasField(view.ctype, f)
  <2>1. /\ view' = IF m = Refused THEN Refused ELSE v
        /\ denoted' = Further(x.at, x.ctype, end)
    BY <1>3 DEF GetField, Reach
  <2>2. SUFFICES ASSUME m # Refused, v # Refused PROVE Reaches(v, Further(x.at, x.ctype, end))
    BY <2>1 DEF ViewInv
  <2>3. /\ view.arch \in Arches /\ AddrOK(view.arch, view.addr) /\ view.ctype \in DOMAIN Ctypes
        /\ denoted.where = [rf \in RegFiles |-> Points(view.addr, rf)]
    BY <1>1 DEF Reaches
  <2>4. x.ctype \in DOMAIN Ctypes /\ x.at \in Nat
    BY <1>3, <2>3, SizesInt DEF HasField
  <2>5. n \in Nat
    BY <2>4, SizesInt
  <2> HIDE DEF x, n
  <2>6. AddrOK(view.arch, m) /\ \A rf \in RegFiles : Points(m, rf) = Points(view.addr, rf) + x.at
    BY <2>2, <2>3, <2>4, AlongMoves
  <2>7. \A rf \in RegFiles : Points(view.addr, rf) \in Int
    BY <2>3, PointsInt
  <2> HIDE DEF m
  <2>8. end \in [RegFiles -> Int] /\ \A rf \in RegFiles : end[rf] - where[rf] = n
    BY <2>3, <2>4, <2>5, <2>6, <2>7 DEF EndOf
  <2>9. end # Absent
    BY <2>8, EndIsNone
  <2>10. Further(x.at, x.ctype, end) = Spot(where, x.ctype, end)
    BY <2>3, <2>6, PlacesFurther
  <2> HIDE DEF end, where
  <2>11. QED
    BY <2>2, <2>3, <2>4, <2>6, <2>8, <2>9, <2>10, ViewOfPlace DEF where
<1>4. QED
  BY <1>2, <1>3

\* view[i]
LEMMA ElementReaches ==
  ASSUME ViewInv, NEW i \in Int, Element(i)
  PROVE  ViewInv'
<1> DEFINE t == view.ctype
           elem == Ctypes[t].elem
           size == Ctypes[t].size
           n == ElementOffset(t, i)
           m == Along(view.arch, view.addr, n)
           where == [rf \in RegFiles |-> Points(m, rf)]
           end == IF Ctypes[t].length = 0 THEN Absent ELSE EndOf(size)
           v == View(view.arch, m, elem, Rest(t, n))
<1>1. Reaches(view, denoted) /\ Ctypes[t].kind = "array"
  BY DEF ViewInv, Element, OnView
<1>2. CASE ~InBounds(t, i)
  BY <1>2 DEF Element, Reach, ViewInv
<1>3. CASE InBounds(t, i)
  <2>1. /\ view' = IF m = Refused THEN Refused ELSE v
        /\ denoted' = Further(n, elem, end)
    BY <1>3 DEF Element, Reach
  <2>2. SUFFICES ASSUME m # Refused, v # Refused PROVE Reaches(v, Further(n, elem, end))
    BY <2>1 DEF ViewInv
  <2>3. /\ view.arch \in Arches /\ AddrOK(view.arch, view.addr) /\ t \in DOMAIN Ctypes
        /\ denoted.where = [rf \in RegFiles |-> Points(view.addr, rf)]
    BY <1>1 DEF Reaches
  <2>4. elem \in DOMAIN Ctypes /\ Ctypes[elem].size \in Nat /\ size \in Nat
    BY <1>1, <2>3, SizesInt
  <2>5. n \in Int
    BY <2>4 DEF ElementOffset
  <2> HIDE DEF n
  <2>6. AddrOK(view.arch, m) /\ \A rf \in RegFiles : Points(m, rf) = Points(view.addr, rf) + n
    BY <2>2, <2>3, <2>5, AlongMoves
  <2>7. \A rf \in RegFiles : Points(view.addr, rf) \in Int
    BY <2>3, PointsInt
  <2> HIDE DEF m
  <2>8. IF end = Absent THEN Rest(t, n) = Absent ELSE \A rf \in RegFiles : Rest(t, n) = end[rf] - where[rf]
    <3>1. CASE Ctypes[t].length = 0
      BY <3>1 DEF Rest
    <3>2. CASE Ctypes[t].length # 0
      <4>1. end = [rf \in RegFiles |-> denoted.where[rf] + size] /\ Rest(t, n) = size - n
        BY <3>2 DEF EndOf, Rest
      <4> HIDE DEF end, size
      <4>2. end \in [RegFiles -> Int] /\ \A rf \in RegFiles : end[rf] - where[rf] = size - n
        BY <2>3, <2>4, <2>5, <2>6, <2>7, <4>1
      <4>3. QED
        BY <4>1, <4>2, EndIsNone
    <3>3. QED
      BY <3>1, <3>2
  <2>9. Further(n, elem, end) = Spot(where, elem, end)
    BY <2>3, <2>6, PlacesFurther
  <2> HIDE DEF end, where
  <2>10. QED
    BY <2>2, <2>3, <2>4, <2>6, <2>8, <2>9, ViewOfPlace DEF where
<1>4. QED
  BY <1>2, <1>3

\* view[reg]
LEMMA RegisterReaches ==
  ASSUME ViewInv, NEW index, view \notin {Absent, Refused}, index \in IndexRegs[view.arch], ElementAt(index)
  PROVE  ViewInv'
<1> DEFINE t == view.ctype
           elem == Ctypes[t].elem
           n == Ctypes[elem].size
           m == AtRegister(view.arch, view.addr, index, n)
           where == [rf \in RegFiles |-> denoted.where[rf] + n * IndexValue(index.how, rf[index.reg])]
           end == [rf \in RegFiles |-> where[rf] + n]
           v == View(view.arch, m, elem, n)
<1>1. Reaches(view, denoted) /\ Ctypes[t].kind = "array"
  BY DEF ViewInv, ElementAt, OnView
<1>2. /\ view' = IF m = Refused THEN Refused ELSE v
      /\ denoted' = IF Says(view.arch, index, n) THEN Spot(where, elem, end) ELSE Absent
  BY DEF ElementAt, Reach
<1>3. /\ view.arch \in Arches /\ AddrOK(view.arch, view.addr) /\ t \in DOMAIN Ctypes
      /\ denoted.where = [rf \in RegFiles |-> Points(view.addr, rf)]
  BY <1>1 DEF Reaches
<1>4. elem \in DOMAIN Ctypes /\ n \in Nat
  BY <1>1, <1>3, SizesInt
<1>5. CASE m = Refused
  BY <1>2, <1>5 DEF ViewInv
<1>6. CASE m # Refused
  <2>1. IndexOK(view.arch, index)
    BY <1>3, StructsAssumption
  <2>2. Elementwise(view.arch, view.addr, index, n, m)
    BY <1>3, <1>6, <2>1, AtRegisterReaches
  <2> DEFINE off(rf) == n * IndexValue(index.how, rf[index.reg])
  <2>3. ASSUME NEW rf \in RegFiles
        PROVE  Points(view.addr, rf) \in Int /\ Points(m, rf) = Points(view.addr, rf) + off(rf) /\ Points(m, rf) \in Int
    <3>1. Points(view.addr, rf) \in Int /\ Points(m, rf) \in Int
      BY <1>3, <2>2, PointsInt DEF Elementwise
    <3>2. QED
      BY <2>2, <3>1 DEF Elementwise
  <2> HIDE DEF m, n, off
  <2>4. where = [rf \in RegFiles |-> Points(m, rf)]
    BY <1>3, <2>3 DEF off
  <2> HIDE DEF where
  <2>5. end \in [RegFiles -> Int] /\ \A rf \in RegFiles : n = end[rf] - where[rf]
    BY <1>4, <2>3, <2>4
  <2>6. end # Absent
    BY <2>5, EndIsNone
  <2>7. denoted' = Spot(where, elem, end)
    BY <1>2, <2>2 DEF Elementwise, where
  <2> HIDE DEF end
  <2>8. v # Refused => Reaches(v, Spot(where, elem, end))
    BY <1>3, <1>4, <2>2, <2>4, <2>5, <2>6, ViewOfPlace DEF Elementwise
  <2>9. QED
    BY <1>2, <1>6, <2>7, <2>8 DEF ViewInv
<1>7. QED
  BY <1>5, <1>6

\* Every step keeps it.
LEMMA ViewStep == ViewInv /\ [StructsNext]_structVars => ViewInv'
<1> SUFFICES ASSUME ViewInv, [StructsNext]_structVars PROVE ViewInv'
  OBVIOUS
<1>1. CASE \E arch \in Arches : \E base \in Given[arch], t \in DOMAIN Ctypes : Typed(arch, base, t)
  BY <1>1, BaseReaches
<1>2. ASSUME NEW f, GetField(f) PROVE ViewInv'
  BY <1>2, FieldReaches
<1>3. ASSUME NEW i \in -1 .. 3, Element(i) PROVE ViewInv'
  BY <1>3, ElementReaches
<1>4. ASSUME view \notin {Absent, Refused}, NEW index \in IndexRegs[view.arch], ElementAt(index) PROVE ViewInv'
  BY <1>4, RegisterReaches
<1>5. CASE UNCHANGED structVars
  BY <1>5 DEF structVars, ViewInv
<1>6. QED
  BY <1>1, <1>2, <1>3, <1>4, <1>5 DEF StructsNext

\* However many fields and elements lead to it, a view is of the bytes that the
\* path denotes, whatever the registers hold (typed, Typed and TypedArray).
THEOREM ViewsReach == StructsSpec => []ViewReaches
<1>1. StructsInit => ViewInv
  BY DEF StructsInit, ViewInv
<1>2. ViewInv /\ [StructsNext]_structVars => ViewInv'
  BY ViewStep
<1>3. ViewInv => ViewReaches
  BY DEF ViewInv, ViewReaches, Reaches, Congruent
<1>4. QED
  BY <1>1, <1>2, <1>3, PTL DEF StructsSpec

-----------------------------------------------------------------------------
(* Typed views: the code of hints                                           *)

\* What the registers can hold while the code of a hint runs.
RegisterFile == [AddressRegs -> Int]
After(r, i) == [r EXCEPT ![i.rd] = Result(r, i)]
Executable(i) ==
  /\ i.rd \in AddressRegs /\ i.rs \in AddressRegs /\ i.rt \in AddressRegs /\ i.imm \in Nat
  /\ i.op \in {"li", "add", "mul", "slli", "shadd"}
  /\ i.op \in {"slli", "shadd"} => TimesOf(i.imm) \in Nat

\* An instruction sets its destination and leaves the others.
LEMMA AfterInstr ==
  ASSUME NEW r \in RegisterFile, NEW i, Executable(i)
  PROVE  /\ Result(r, i) \in Int /\ After(r, i) \in RegisterFile
         /\ After(r, i)[i.rd] = Result(r, i)
         /\ \A x \in AddressRegs : x # i.rd => After(r, i)[x] = r[x]
<1>1. r \in [AddressRegs -> Int]
  BY DEF RegisterFile
<1>2. r[i.rs] \in Int /\ r[i.rt] \in Int
  BY <1>1 DEF Executable
<1>3. Result(r, i) \in Int
  <2> DEFINE x == r[i.rs]
             y == r[i.rt]
             n == i.imm
  <2>1. x \in Int /\ y \in Int /\ n \in Nat
    BY <1>2 DEF Executable
  <2>2. x + y \in Int /\ x * y \in Int
    BY <2>1
  <2> DEFINE m == TimesOf(n)
  <2> HIDE DEF x, y, m
  <2>3. ASSUME i.op \in {"slli", "shadd"} PROVE x * m \in Int /\ x * m + y \in Int
    <3>1. m \in Nat
      BY <2>3 DEF Executable, m
    <3>2. QED
      BY <2>1, <3>1
  <2>4. i.op \in {"li", "add", "mul", "slli", "shadd"}
    BY DEF Executable
  <2>5. QED
    BY <2>1, <2>2, <2>3, <2>4 DEF Result, x, y, m
<1>4. QED
  BY <1>1, <1>3 DEF After, Executable, RegisterFile

\* Run, by one instruction at a time.
LEMMA RunByOne ==
  ASSUME NEW way, Len(way) \in Nat, \A k \in 1 .. Len(way) : Executable(way[k]), NEW rf \in RegisterFile
  PROVE  \E f : /\ f[0] = rf /\ Run(way, rf) = f[Len(way)]
                /\ \A k \in 1 .. Len(way) : f[k] = After(f[k - 1], way[k])
<1> DEFINE N == Len(way)
           Runs(f) == [k \in 0 .. N |-> IF k = 0 THEN rf
                                        ELSE [f[k - 1] EXCEPT ![way[k].rd] = Result(f[k - 1], way[k])]]
           after == CHOOSE f : f = Runs(f)
           step == [k \in 1 .. N |-> [r \in RegisterFile |-> After(r, way[k])]]
<1>1. N \in Nat
  OBVIOUS
<1>2. step \in [1 .. N -> [RegisterFile -> RegisterFile]]
  BY AfterInstr
<1>3. Run(way, rf) = after[N]
  BY DEF Run
<1>4. PICK f \in [0 .. N -> RegisterFile] : Recurs(f, N, rf, step)
  <2> HIDE DEF step, N
  <2>1. QED
    BY <1>1, <1>2, RecursionTo, Zenon
<1>5. f = Runs(f)
  <2>1. ASSUME NEW k \in 1 .. N
        PROVE  f[k] = [f[k - 1] EXCEPT ![way[k].rd] = Result(f[k - 1], way[k])]
    <3> HIDE DEF step
    <3>1. f[k] = step[k][f[k - 1]] /\ f[k - 1] \in RegisterFile
      BY <1>1, <1>4 DEF Recurs
    <3>2. f[k] = After(f[k - 1], way[k])
      BY <3>1 DEF step
    <3>3. QED
      BY <3>2 DEF After
  <2> DEFINE One(k) == [f[k - 1] EXCEPT ![way[k].rd] = Result(f[k - 1], way[k])]
             Next1(k) == IF k = 0 THEN rf ELSE One(k)
  <2> HIDE DEF One, step
  <2>2. f[0] = rf /\ \A k \in 1 .. N : f[k] = One(k)
    BY <1>4, <2>1 DEF Recurs, One
  <2>3. \A k \in 0 .. N : f[k] = Next1(k)
    BY <1>1, <2>2
  <2> HIDE DEF Next1
  <2>4. f = [k \in 0 .. N |-> Next1(k)]
    BY <1>4, <2>3
  <2>5. QED
    BY <2>4 DEF Next1, One
<1>6. after = Runs(after)
  <2> HIDE DEF Runs
  <2>1. QED
    BY <1>5
<1> HIDE DEF after
<1>7. after[0] = rf /\ \A k \in 1 .. N : after[k] = After(after[k - 1], way[k])
  <2> DEFINE One(k) == [after[k - 1] EXCEPT ![way[k].rd] = Result(after[k - 1], way[k])]
  <2>1. after = [k \in 0 .. N |-> IF k = 0 THEN rf ELSE One(k)]
    BY <1>6
  <2> HIDE DEF One
  <2>2. after[0] = rf /\ \A k \in 1 .. N : after[k] = One(k)
    BY <1>1, <2>1
  <2>3. QED
    BY <2>2 DEF One, After
<1>8. QED
  BY <1>3, <1>7

\* A temporary that the code does not still need.
LEMMA TemporaryFree ==
  ASSUME NEW base, NEW index
  PROVE  Temporary(base, index) \in AddressRegs /\ Temporary(base, index) \notin {base, index}
<1> DEFINE free == {k \in DOMAIN Temporaries : Temporaries[k] \notin {base, index}}
<1>1. DOMAIN Temporaries = {1, 2, 3}
  BY DEF Temporaries
<1>2. Temporaries[1] = "t0" /\ Temporaries[2] = "t1" /\ Temporaries[3] = "t2"
  BY DEF Temporaries
<1>3. \E k \in free : \A j \in free : k <= j
  <2>1. free \subseteq {1, 2, 3} /\ (1 \in free \/ 2 \in free \/ 3 \in free)
    BY <1>1, <1>2
  <2> HIDE DEF free
  <2>2. \A j \in free : j = 1 \/ j = 2 \/ j = 3
    BY <2>1
  <2>3. CASE 1 \in free
    BY <2>2, <2>3
  <2>4. CASE 1 \notin free /\ 2 \in free
    BY <2>2, <2>4
  <2>5. CASE 1 \notin free /\ 2 \notin free
    BY <2>1, <2>2, <2>5
  <2>6. QED
    BY <2>3, <2>4, <2>5
<1>4. (CHOOSE k \in free : \A j \in free : k <= j) \in free
  BY <1>3
<1>5. QED
  BY <1>1, <1>2, <1>4 DEF Temporary, AddressRegs

\* A program of one instruction.
LEMMA OneInstruction ==
  ASSUME NEW rf \in RegisterFile, NEW i, Executable(i)
  PROVE  Run(<<i>>, rf)[i.rd] = Result(rf, i)
<1> DEFINE way == <<i>>
<1>1. Len(way) = 1 /\ way[1] = i
  OBVIOUS
<1> HIDE DEF way
<1>2. PICK f : f[0] = rf /\ Run(way, rf) = f[1] /\ \A k \in 1 .. 1 : f[k] = After(f[k - 1], way[k])
  BY <1>1, RunByOne
<1>3. f[1] = After(rf, i)
  BY <1>1, <1>2
<1>4. QED
  BY <1>2, <1>3, AfterInstr DEF way

\* Programs of two and of three.
LEMMA TwoInstructions ==
  ASSUME NEW rf \in RegisterFile, NEW i, NEW j, Executable(i), Executable(j)
  PROVE  Run(<<i, j>>, rf) = After(After(rf, i), j)
<1> DEFINE way == <<i, j>>
<1>1. Len(way) = 2 /\ way[1] = i /\ way[2] = j
  OBVIOUS
<1> HIDE DEF way
<1>2. PICK f : f[0] = rf /\ Run(way, rf) = f[2] /\ \A k \in 1 .. 2 : f[k] = After(f[k - 1], way[k])
  BY <1>1, RunByOne
<1>3. f[1] = After(rf, i) /\ f[2] = After(f[1], j)
  BY <1>1, <1>2
<1>4. QED
  BY <1>2, <1>3 DEF way

LEMMA ThreeInstructions ==
  ASSUME NEW rf \in RegisterFile, NEW i, NEW j, NEW k, Executable(i), Executable(j), Executable(k)
  PROVE  Run(<<i, j, k>>, rf) = After(After(After(rf, i), j), k)
<1> DEFINE way == <<i, j, k>>
<1>1. Len(way) = 3 /\ way[1] = i /\ way[2] = j /\ way[3] = k
  OBVIOUS
<1> HIDE DEF way
<1>2. PICK f : f[0] = rf /\ Run(way, rf) = f[3] /\ \A n \in 1 .. 3 : f[n] = After(f[n - 1], way[n])
  BY <1>1, RunByOne
<1>3. f[1] = After(rf, i) /\ f[2] = After(f[1], j) /\ f[3] = After(f[2], k)
  BY <1>1, <1>2
<1>4. QED
  BY <1>2, <1>3 DEF way

\* Every way to the address of an element adds to the base as many times the
\* index as an element has bytes (_element_address, _element_hint).
LEMMA WaysReach ==
  ASSUME NEW arch \in {"riscv64", "loongarch64"}, NEW base \in AddressRegs, NEW index \in AddressRegs,
         NEW esize \in Nat \ {0}, NEW way \in Ways(arch, base, index, esize), NEW rf \in RegisterFile
  PROVE  Run(way, rf)[Temporary(base, index)] = rf[base] + esize * rf[index]
<1> DEFINE t == Temporary(base, index)
           n == Log2(esize)
           sum == Instr("add", t, base, index, 0)
           shiftAdd == Instr("shadd", t, index, base, n)
           shift == Instr("slli", t, index, index, n)
           load == Instr("li", t, t, t, esize)
           mul == Instr("mul", t, index, t, 0)
           add == Instr("add", t, base, t, 0)
<1>1. t \in AddressRegs /\ t # base /\ t # index
  BY TemporaryFree
<1>2. rf[base] \in Int /\ rf[index] \in Int
  BY DEF RegisterFile
<1>3. \/ esize = 1 /\ way = <<sum>>
      \/ esize \in {1, 2, 4, 8, 16} /\ way = <<shiftAdd>>
      \/ esize \in {1, 2, 4, 8, 16} /\ way = <<shift, add>>
      \/ way = <<load, mul, add>>
  BY DEF Ways
<1> HIDE DEF t, n
<1>4. CASE esize = 1 /\ way = <<sum>>
  <2>1. Executable(sum) /\ sum.rd = t /\ Result(rf, sum) = rf[base] + rf[index]
    BY <1>1 DEF Executable, Instr, Result
  <2> HIDE DEF sum
  <2>2. Run(way, rf)[t] = rf[base] + rf[index]
    BY <1>4, <2>1, OneInstruction
  <2>3. QED
    BY <1>2, <1>4, <2>2 DEF t
<1>5. ASSUME esize \in {1, 2, 4, 8, 16} PROVE n \in 0 .. 4 /\ TimesOf(n) = esize
  BY <1>5, Powers DEF n
<1>6. CASE esize \in {1, 2, 4, 8, 16} /\ way = <<shiftAdd>>
  <2>1. Executable(shiftAdd) /\ shiftAdd.rd = t
    BY <1>1, <1>5, <1>6 DEF Executable, Instr
  <2>2. Result(rf, shiftAdd) = rf[index] * TimesOf(n) + rf[base]
    BY DEF Instr, Result
  <2> HIDE DEF shiftAdd
  <2>3. Run(way, rf)[t] = rf[index] * esize + rf[base]
    BY <1>5, <1>6, <2>1, <2>2, OneInstruction
  <2>4. QED
    BY <1>2, <1>6, <2>3 DEF t
<1>7. Executable(add) /\ add.rd = t /\ \A r : Result(r, add) = r[base] + r[t]
  BY <1>1 DEF Executable, Instr, Result
<1>8. CASE esize \in {1, 2, 4, 8, 16} /\ way = <<shift, add>>
  <2> DEFINE r1 == After(rf, shift)
  <2>1. Executable(shift) /\ shift.rd = t /\ Result(rf, shift) = rf[index] * TimesOf(n)
    BY <1>1, <1>5, <1>8 DEF Executable, Instr, Result
  <2> HIDE DEF shift, add
  <2>2. r1 \in RegisterFile /\ r1[t] = rf[index] * esize /\ r1[base] = rf[base]
    BY <1>1, <1>5, <1>8, <2>1, AfterInstr
  <2> HIDE DEF r1
  <2>3. After(r1, add)[t] = rf[base] + rf[index] * esize
    BY <1>7, <2>2, AfterInstr
  <2>4. Run(way, rf) = After(r1, add)
    BY <1>7, <1>8, <2>1, TwoInstructions DEF r1
  <2>5. QED
    BY <1>2, <1>8, <2>3, <2>4 DEF t
<1>9. CASE way = <<load, mul, add>>
  <2> DEFINE r1 == After(rf, load)
             r2 == After(r1, mul)
  <2>1. Executable(load) /\ load.rd = t /\ Result(rf, load) = esize
    BY <1>1 DEF Executable, Instr, Result
  <2>2. Executable(mul) /\ mul.rd = t /\ \A r : Result(r, mul) = r[index] * r[t]
    BY <1>1 DEF Executable, Instr, Result
  <2> HIDE DEF load, mul, add
  <2>3. r1 \in RegisterFile /\ r1[t] = esize /\ r1[base] = rf[base] /\ r1[index] = rf[index]
    BY <1>1, <2>1, AfterInstr
  <2> HIDE DEF r1
  <2>4. r2 \in RegisterFile /\ r2[t] = rf[index] * esize /\ r2[base] = rf[base]
    BY <1>1, <2>2, <2>3, AfterInstr
  <2> HIDE DEF r2
  <2>5. After(r2, add)[t] = rf[base] + rf[index] * esize
    BY <1>7, <2>4, AfterInstr
  <2>6. Run(way, rf) = After(r2, add)
    BY <1>7, <1>9, <2>1, <2>2, ThreeInstructions DEF r1, r2
  <2>7. rf[index] * esize = esize * rf[index]
    BY <1>2
  <2>8. QED
    BY <2>5, <2>6, <2>7 DEF t
<1>10. QED
  BY <1>3, <1>4, <1>6, <1>8, <1>9

\* Every way of a hint arrives where the refused path leads.
HintInv ==
  hint # Absent /\ denoted # Absent =>
    \A way \in hint.ways, rf \in RegFiles : Run(way, rf)[hint.at] + hint.disp = denoted.where[rf]

\* A hint is followed to the element that was asked for.
LEMMA HintFollowed ==
  ASSUME NEW arch \in Arches, NEW a, AddrOK(arch, a), NEW index, IndexOK(arch, index), NEW esize \in Nat,
         HintFor(arch, a, index, esize) # Absent, NEW rf \in RegFiles,
         NEW way \in HintFor(arch, a, index, esize).ways
  PROVE  LET h == HintFor(arch, a, index, esize) IN
         Run(way, rf)[h.at] + h.disp
           = Points(a, rf) + esize * IndexValue(index.how, rf[index.reg])
<1> DEFINE h == HintFor(arch, a, index, esize)
           b == a.base
           r == index.reg
           d == a.disp
           x == rf[b]
           y == rf[r]
<1>1. /\ arch \in {"riscv64", "loongarch64"} /\ a.index = Absent
      /\ h = Hint(arch, a, r, esize)
  <2>1. /\ arch \in {"riscv64", "loongarch64"} /\ (arch = "loongarch64" => a.index = Absent)
        /\ h = Hint(arch, a, r, esize)
    BY DEF HintFor
  <2>2. AddressOf(arch, a, Absent)
    BY DEF AddrOK, Addresses, Hows
  <2>3. QED
    BY <2>1, <2>2, AddressesOf
<1>2. b \in AddressRegs /\ b # Absent /\ d \in Int /\ r \in AddressRegs /\ index.how = "none"
  BY <1>1 DEF AddrOK, Addresses, Hows, IndexOK
<1>3. rf \in RegisterFile
  <2>1. rf \in [AddressRegs -> Nat]
    BY StructsAssumption
  <2>2. QED
    BY <2>1 DEF RegisterFile
<1>4. x \in Int /\ y \in Int
  BY <1>2, <1>3 DEF RegisterFile
<1>5. Points(a, rf) = x + d
  <2>1. Points(a, rf) = Held(rf, b) + d
    BY <1>1, PointsInt
  <2>2. QED
    BY <1>2, <2>1 DEF Held
<1>6. IndexValue(index.how, rf[index.reg]) = y
  BY <1>2, <1>4, IndexValueInt
<1> DEFINE z == esize * y
<1>7. z \in Int
  BY <1>4
<1>8. Run(way, rf)[h.at] = x + z /\ h.disp = d
  <2>1. CASE esize = 0
    <3>1. h = [ways |-> {<<>>}, at |-> b, disp |-> d]
      BY <1>1, <2>1 DEF Hint
    <3>2. way = <<>> /\ h.at = b /\ h.disp = d
      BY <3>1
    <3>3. Len(way) = 0
      BY <3>2
    <3>4. PICK f : f[0] = rf /\ Run(way, rf) = f[0]
      BY <1>3, <3>3, RunByOne
    <3>5. z = 0
      BY <1>4, <2>1
    <3>6. QED
      BY <1>4, <3>2, <3>4, <3>5
  <2>2. CASE esize # 0
    <3>1. h = [ways |-> Ways(arch, b, r, esize), at |-> Temporary(b, r), disp |-> d]
      BY <1>1, <2>2 DEF Hint
    <3>2. way \in Ways(arch, b, r, esize) /\ h.at = Temporary(b, r) /\ h.disp = d
      BY <3>1
    <3>3. QED
      BY <1>1, <1>2, <1>3, <2>2, <3>2, WaysReach
  <2>3. QED
    BY <2>1, <2>2
<1> HIDE DEF h, x, y, d
<1>9. (x + z) + d = (x + d) + z
  <2> HIDE DEF z
  <2>1. QED
    BY <1>2, <1>4, <1>7 DEF d
<1>10. QED
  BY <1>5, <1>6, <1>8, <1>9 DEF h

\* Every step keeps it.
LEMMA HintStep ==
  ASSUME ViewInv, HintInv, [StructsNext]_structVars
  PROVE  HintInv'
<1>1. ASSUME hint' = Absent PROVE HintInv'
  BY <1>1 DEF HintInv
<1>2. ASSUME NEW arch, NEW base, NEW t, Typed(arch, base, t) PROVE HintInv'
  BY <1>1, <1>2 DEF Typed, Reach
<1>3. ASSUME NEW f, GetField(f) PROVE HintInv'
  BY <1>1, <1>3 DEF GetField, Reach
<1>4. ASSUME NEW i, Element(i) PROVE HintInv'
  BY <1>1, <1>4 DEF Element, Reach
<1>5. ASSUME view \notin {Absent, Refused}, NEW index \in IndexRegs[view.arch], ElementAt(index) PROVE HintInv'
  <2> DEFINE t == view.ctype
             elem == Ctypes[t].elem
             n == Ctypes[elem].size
             where == [rf \in RegFiles |-> denoted.where[rf] + n * IndexValue(index.how, rf[index.reg])]
             end == [rf \in RegFiles |-> where[rf] + n]
             h == HintFor(view.arch, view.addr, index, n)
  <2>1. Reaches(view, denoted) /\ Ctypes[t].kind = "array"
    BY <1>5 DEF ViewInv, ElementAt, OnView
  <2>2. /\ hint' \in {h, Absent}
        /\ denoted' \in {Spot(where, elem, end), Absent}
    BY <1>5 DEF ElementAt, Reach
  <2>3. /\ view.arch \in Arches /\ AddrOK(view.arch, view.addr) /\ t \in DOMAIN Ctypes
        /\ denoted.where = [rf \in RegFiles |-> Points(view.addr, rf)]
    BY <2>1 DEF Reaches
  <2>4. n \in Nat /\ IndexOK(view.arch, index)
    BY <1>5, <2>1, <2>3, SizesInt, StructsAssumption
  <2> SUFFICES ASSUME hint' # Absent, denoted' # Absent, NEW way \in hint'.ways, NEW rf \in RegFiles
               PROVE  Run(way, rf)[hint'.at] + hint'.disp = denoted'.where[rf]
    BY DEF HintInv
  <2>5. hint' = h /\ h # Absent /\ denoted' = Spot(where, elem, end)
    BY <2>2
  <2>6. Run(way, rf)[h.at] + h.disp = Points(view.addr, rf) + n * IndexValue(index.how, rf[index.reg])
    BY <2>3, <2>4, <2>5, HintFollowed
  <2>7. where[rf] = Points(view.addr, rf) + n * IndexValue(index.how, rf[index.reg])
    BY <2>3
  <2>8. denoted'.where = where
    BY <2>5 DEF Spot
  <2> HIDE DEF h, where, n
  <2>9. QED
    BY <2>5, <2>6, <2>7, <2>8
<1>6. CASE UNCHANGED structVars
  BY <1>6 DEF structVars, HintInv
<1>7. QED
  BY <1>2, <1>3, <1>4, <1>5, <1>6 DEF StructsNext

\* The code that a refusal tells the user to write computes the address of the
\* element, and does not overwrite what it still reads.
THEOREM HintsCompute == StructsSpec => []HintsReach
<1>1. StructsInit => ViewInv /\ HintInv
  BY DEF StructsInit, ViewInv, HintInv
<1>2. HintInv => HintsReach
  BY DEF HintInv, HintsReach, Congruent
<1>3. ViewInv /\ HintInv /\ [StructsNext]_structVars => HintInv'
  BY HintStep
<1>4. ViewInv /\ [StructsNext]_structVars => ViewInv'
  BY ViewStep
<1>5. QED
  BY <1>1, <1>2, <1>3, <1>4, PTL DEF StructsSpec

-----------------------------------------------------------------------------
(* Typed views: what is refused                                             *)

\* What an index of 0 or 1 contributes, extended or not.
LEMMA SmallIndexes ==
  ASSUME NEW how
  PROVE  IndexValue(how, 0) = 0 /\ IndexValue(how, 1) = 1
<1> DEFINE H == HalfModulus
<1>1. H \in Nat /\ H >= 4
  BY StructsAssumption
<1> HIDE DEF H
<1>2. 0 % H = 0 /\ 1 % H = 1
  BY <1>1
<1>3. H \div 2 >= 2
  BY <1>1
<1>4. SignedIn(0, H) = 0 /\ SignedIn(1, H) = 1
  BY <1>1, <1>2, <1>3 DEF SignedIn
<1>5. QED
  BY <1>2, <1>4 DEF IndexValue, H

\* What two congruent numbers grow by to be congruent again, if it is little.
LEMMA SameGrowth ==
  ASSUME NEW m \in Int, NEW n \in Int, Congruent(m, n), NEW x \in Int, NEW y \in Int,
         Congruent(m + x, n + y), x - y < Modulus, y - x < Modulus
  PROVE  x = y
<1> DEFINE M == Modulus
           s == m % M
           t == (m + x) % M
           k1 == m \div M
           k2 == n \div M
           k3 == (m + x) \div M
           k4 == (n + y) \div M
<1>1. M \in Nat \ {0} /\ n % M = s /\ (n + y) % M = t
  BY StructsAssumption DEF Congruent
<1>2. x - y < M /\ y - x < M
  OBVIOUS
<1> HIDE DEF M
<1>3. /\ k1 \in Int /\ k2 \in Int /\ k3 \in Int /\ k4 \in Int /\ s \in Int /\ t \in Int
      /\ m = k1 * M + s /\ n = k2 * M + s /\ m + x = k3 * M + t /\ n + y = k4 * M + t
  <2>1. m + x \in Int /\ n + y \in Int
    OBVIOUS
  <2>2. QED
    BY <1>1, <2>1, DivMod
<1> HIDE DEF s, t, k1, k2, k3, k4
<1> DEFINE k == (k3 - k1) - (k4 - k2)
<1>4. k * M = x - y
  BY <1>1, <1>3
<1>5. k \in Int
  BY <1>3
<1> HIDE DEF k
<1>6. k * M < 1 * M /\ (-1) * M < k * M
  BY <1>1, <1>2, <1>4
<1>7. k < 1 /\ -1 < k
  BY <1>1, <1>5, <1>6, FewerPages
<1>8. k = 0
  BY <1>5, <1>7
<1>9. QED
  BY <1>1, <1>4, <1>8

\* What register q is multiplied by in an address.
Coefficient(a, q) == IF a.index = q THEN a.scale ELSE 0

\* Where an address points when no register holds anything, and when one does.
LEMMA PointsByOne ==
  ASSUME NEW a \in Addresses, NEW q \in AddressRegs
  PROVE  /\ Points(a, OneAt(Absent)) = a.disp
         /\ Points(a, OneAt(q)) = a.disp + (IF a.base = q THEN 1 ELSE 0) + Coefficient(a, q)
<1>1. /\ a.base \in AddressRegs \cup {Absent} /\ a.index \in AddressRegs \cup {Absent}
      /\ a.scale \in {1, 2, 4, 8} /\ a.disp \in Int /\ q # Absent
  BY StructsAssumption DEF Addresses, ScalarSizes
<1>2. \A r \in AddressRegs \cup {Absent} :
        Held(OneAt(Absent), r) = 0 /\ Held(OneAt(q), r) = IF r = q THEN 1 ELSE 0
  BY <1>1, StructsAssumption DEF Held, OneAt
<1>3. Points(a, OneAt(Absent)) = a.disp
  <2>1. Points(a, OneAt(Absent)) = 0 + a.scale * 0 + a.disp
    BY <1>1, <1>2, SmallIndexes DEF Points
  <2>2. QED
    BY <1>1, <2>1
<1>4. Points(a, OneAt(q)) = a.disp + (IF a.base = q THEN 1 ELSE 0) + Coefficient(a, q)
  <2>1. CASE a.index = q
    <3>1. Points(a, OneAt(q)) = (IF a.base = q THEN 1 ELSE 0) + a.scale * 1 + a.disp
      BY <1>1, <1>2, <2>1, SmallIndexes DEF Points
    <3>2. QED
      BY <1>1, <2>1, <3>1 DEF Coefficient
  <2>2. CASE a.index # q
    <3>1. Points(a, OneAt(q)) = (IF a.base = q THEN 1 ELSE 0) + a.scale * 0 + a.disp
      BY <1>1, <1>2, <2>2, SmallIndexes DEF Points
    <3>2. QED
      BY <1>1, <2>2, <3>1 DEF Coefficient
  <2>3. QED
    BY <2>1, <2>2
<1>5. QED
  BY <1>3, <1>4

\* Places n bytes and e times register r beyond b; an address of such places.
Beyond(where, b, e, r, how, n) ==
  \A rf \in RegFiles : where[rf] = Points(b, rf) + e * IndexValue(how, rf[r]) + n
IsAt(a, where) == \A rf \in RegFiles : Congruent(Points(a, rf), where[rf])

\* An address that is e times register r and n bytes further than another, of
\* the same base, has the coefficients of that one and e, and its displacement
\* and n.
LEMMA SameAddress ==
  ASSUME NEW a \in Addresses, NEW b \in Addresses, a.base = b.base,
         NEW e \in Nat, 3 * e < Modulus, NEW r \in AddressRegs, NEW how, NEW n \in Int, NEW where,
         Beyond(where, b, e, r, how, n), IsAt(a, where)
  PROVE  /\ \A q \in AddressRegs : Coefficient(a, q) = Coefficient(b, q) + (IF q = r THEN e ELSE 0)
         /\ Congruent(a.disp, b.disp + n)
<1>1. \A q \in AddressRegs \cup {Absent} : OneAt(q) \in RegFiles
  BY StructsAssumption
<1>2. a.disp \in Int /\ b.disp \in Int /\ a.scale \in {1, 2, 4, 8} /\ b.scale \in {1, 2, 4, 8}
  BY DEF Addresses, ScalarSizes
<1>3. Absent \notin AddressRegs /\ Modulus \in Nat /\ Modulus >= 16
  BY StructsAssumption
<1>4. Congruent(a.disp, b.disp + n)
  <2>1. where[OneAt(Absent)] = b.disp + e * 0 + n
    <3>1. OneAt(Absent)[r] = 0
      BY <1>3 DEF OneAt
    <3>2. where[OneAt(Absent)] = Points(b, OneAt(Absent)) + e * IndexValue(how, OneAt(Absent)[r]) + n
      BY <1>1 DEF Beyond
    <3>3. QED
      BY <3>1, <3>2, PointsByOne, SmallIndexes
  <2>2. where[OneAt(Absent)] = b.disp + n
    BY <1>2, <2>1
  <2>3. Congruent(Points(a, OneAt(Absent)), where[OneAt(Absent)])
    BY <1>1 DEF IsAt
  <2>4. QED
    BY <2>2, <2>3, PointsByOne
<1>5. ASSUME NEW q \in AddressRegs
      PROVE  Coefficient(a, q) = Coefficient(b, q) + (IF q = r THEN e ELSE 0)
  <2> DEFINE u == IF b.base = q THEN 1 ELSE 0
             x == Coefficient(a, q)
             y == Coefficient(b, q)
             z == IF q = r THEN e ELSE 0
  <2>1. u \in 0 .. 1 /\ x \in 0 .. 8 /\ y \in 0 .. 8 /\ z \in 0 .. e
    BY <1>2 DEF Coefficient
  <2>2. Points(a, OneAt(q)) = a.disp + u + x /\ Points(b, OneAt(q)) = b.disp + u + y
    BY PointsByOne
  <2>3. where[OneAt(q)] = b.disp + u + y + z + n
    <3>1. e * IndexValue(how, OneAt(q)[r]) = z
      <4>1. OneAt(q)[r] = IF r = q THEN 1 ELSE 0
        BY DEF OneAt
      <4>2. e * 1 = e /\ e * 0 = 0
        OBVIOUS
      <4>3. QED
        BY <4>1, <4>2, SmallIndexes
    <3>2. where[OneAt(q)] = Points(b, OneAt(q)) + e * IndexValue(how, OneAt(q)[r]) + n
      BY <1>1 DEF Beyond
    <3>3. QED
      BY <2>2, <3>1, <3>2
  <2>4. Congruent(Points(a, OneAt(q)), where[OneAt(q)])
    BY <1>1 DEF IsAt
  <2> HIDE DEF u, x, y, z
  <2>5. /\ a.disp + u + x = a.disp + (u + x)
        /\ b.disp + u + y + z + n = (b.disp + n) + (u + y + z)
    BY <1>2, <2>1
  <2>6. Congruent(a.disp + (u + x), (b.disp + n) + (u + y + z))
    BY <2>2, <2>3, <2>4, <2>5
  <2> DEFINE M == Modulus
  <2>7. M \in Nat /\ M >= 16 /\ 3 * e < M
    BY <1>3
  <2> HIDE DEF M
  <2>8. (u + x) - (u + y + z) < M /\ (u + y + z) - (u + x) < M
    BY <2>1, <2>7
  <2>9. b.disp + n \in Int /\ u + x \in Int /\ u + y + z \in Int
    BY <1>2, <2>1
  <2>10. u + x = u + y + z
    BY <1>2, <1>4, <2>6, <2>8, <2>9, SameGrowth DEF M
  <2>11. x = y + z
    BY <2>1, <2>10
  <2>12. QED
    BY <2>11 DEF x, y, z
<1>6. QED
  BY <1>4, <1>5

\* Another address over the base of view c, for the type t (Others).
Other(c, t, a) ==
  /\ a \in Addresses /\ a.base = c.addr.base
  /\ a.index = c.addr.index => a.scale = c.addr.scale
  /\ AddressOf(c.arch, a, IF Ctypes[t].kind = "scalar" THEN Ctypes[t].size ELSE Absent)

\* None of them is the place p, which may have a size.
Unreached(c, p) ==
  \A a : Other(c, p.ctype, a) => \E rf \in RegFiles : ~Congruent(Points(a, rf), p.where[rf])
ForGood(c, p) ==
  c.addr.disp \in 1 - Modulus .. Modulus - 1 =>
    \/ Ctypes[p.ctype].kind = "scalar" /\ ~HasSize(p.ctype)
    \/ Ctypes[p.ctype].size = 0
    \/ Unreached(c, p)

\* A view is refused only at a scalar without a size, or where the scale of an
\* index is neither 1 nor that size (_scalar).
LEMMA ViewRefused ==
  ASSUME NEW arch \in Arches, NEW m \in Addresses, NEW t \in DOMAIN Ctypes, NEW extent \in Int \cup {Absent},
         View(arch, m, t, extent) = Refused
  PROVE  Ctypes[t].kind = "scalar" /\ (HasSize(t) => ~ScalesAccess(arch, m, t))
<1> DEFINE n == Ctypes[t].size
           x == IF arch = "aarch64" THEN extent ELSE Absent
<1>1. n \in Int
  BY SizesInt
<1>2. x \in Int \cup {Absent}
  OBVIOUS
<1>3. CASE Ctypes[t].kind # "scalar"
  <2>1. [arch |-> arch, addr |-> m, ctype |-> t, size |-> Absent, extent |-> Absent] = Refused
    BY <1>3 DEF View
  <2>2. QED
    BY <2>1, StructsAssumption
<1>4. ASSUME Ctypes[t].kind = "scalar", HasSize(t), ScalesAccess(arch, m, t) PROVE FALSE
  <2>1. [arch |-> arch, addr |-> m, ctype |-> t, size |-> n, extent |-> x] = Refused
    BY <1>4 DEF View
  <2> HIDE DEF n, x
  <2>2. QED
    BY <1>1, <1>2, <2>1, StructsAssumption
<1>5. QED
  BY <1>3, <1>4

\* Small congruent numbers are the same.
LEMMA SmallCongruent ==
  ASSUME NEW n \in 1 - Modulus .. Modulus - 1, Congruent(0, n)
  PROVE  n = 0
<1> DEFINE M == Modulus
<1>1. M \in Nat /\ n \in 1 - M .. M - 1
  BY StructsAssumption
<1> HIDE DEF M
<1>2. n \in Int /\ 0 - n < M /\ n - 0 < M
  BY <1>1
<1>3. Congruent(0 + 0, 0 + n) /\ Congruent(0, 0)
  BY <1>2 DEF Congruent
<1>4. 0 = n
  BY <1>2, <1>3, SameGrowth DEF M
<1>5. QED
  BY <1>4

\* The register that an address multiplies by something is its index.
LEMMA IndexOf ==
  ASSUME NEW a \in Addresses, NEW q \in AddressRegs, Coefficient(a, q) # 0
  PROVE  a.index = q /\ a.scale = Coefficient(a, q)
BY DEF Coefficient

\* A field or an element at a constant index is refused for good (_offset,
\* _scalar).
LEMMA ConstantRefused ==
  ASSUME NEW c, c.arch \in Arches, AddrOK(c.arch, c.addr), NEW p, p.ctype \in DOMAIN Ctypes,
         NEW n \in 1 - Modulus .. Modulus - 1, NEW extent \in Int \cup {Absent},
         \A rf \in RegFiles : p.where[rf] = Points(c.addr, rf) + n,
         \/ Along(c.arch, c.addr, n) = Refused
         \/ View(c.arch, Along(c.arch, c.addr, n), p.ctype, extent) = Refused
  PROVE  ForGood(c, p)
<1> DEFINE t == p.ctype
           b == c.addr
           m == Along(c.arch, b, n)
<1> SUFFICES ASSUME Ctypes[t].kind = "scalar" => HasSize(t),
                    NEW a, Other(c, t, a),
                    IsAt(a, p.where)
             PROVE  FALSE
  BY DEF ForGood, Unreached, IsAt
<1>1. /\ b \in Addresses /\ a \in Addresses /\ a.base = b.base
      /\ AddressOf(c.arch, b, Absent)
      /\ n \in Int
  BY DEF AddrOK, Other
<1>2. /\ \A q \in AddressRegs : Coefficient(a, q) = Coefficient(b, q)
      /\ Congruent(a.disp, b.disp + n)
  <2>1. "t0" \in AddressRegs /\ 3 * 0 < Modulus /\ 0 \in Nat
    BY StructsAssumption DEF AddressRegs
  <2>2. ASSUME NEW rf \in RegFiles
        PROVE  p.where[rf] = Points(b, rf) + 0 * IndexValue("none", rf["t0"]) + n
    <3>1. rf["t0"] \in Int /\ Points(b, rf) \in Int
      BY <2>1, StructsAssumption, PointsInt
    <3>2. IndexValue("none", rf["t0"]) \in Int
      BY <3>1, IndexValueInt
    <3> DEFINE x == IndexValue("none", rf["t0"])
               y == Points(b, rf)
    <3> HIDE DEF x, y
    <3>3. y + 0 * x + n = y + n
      BY <1>1, <3>1, <3>2 DEF x, y
    <3>4. QED
      BY <3>3 DEF x, y
  <2>3. /\ \A q \in AddressRegs : Coefficient(a, q) = Coefficient(b, q) + (IF q = "t0" THEN 0 ELSE 0)
        /\ Congruent(a.disp, b.disp + n)
    <3>1. Beyond(p.where, b, 0, "t0", "none", n) /\ IsAt(a, p.where)
      BY <2>2 DEF Beyond
    <3> HIDE DEF b
    <3>2. QED
      BY <1>1, <2>1, <3>1, SameAddress
  <2>4. \A q \in AddressRegs : Coefficient(b, q) \in Int
    BY <1>1 DEF Coefficient, Addresses, ScalarSizes
  <2>5. QED
    BY <2>3, <2>4
<1>3. b.index # Absent => a.index = b.index /\ a.scale = b.scale
  <2> SUFFICES ASSUME b.index # Absent PROVE a.index = b.index /\ a.scale = b.scale
    OBVIOUS
  <2>1. b.index \in AddressRegs /\ b.scale # 0
    BY <1>1 DEF Addresses, ScalarSizes
  <2>2. Coefficient(b, b.index) = b.scale
    BY DEF Coefficient
  <2>3. Coefficient(a, b.index) = b.scale
    BY <1>2, <2>1, <2>2
  <2>4. QED
    BY <1>1, <2>1, <2>3, IndexOf
<1>4. CASE m = Refused
  <2>1. n # 0 /\ b.index # Absent /\ c.arch \in {"aarch64", "loongarch64"}
    <3>1. [b EXCEPT !.disp = @ + n] \in Addresses
      BY <1>1 DEF Addresses
    <3>2. [b EXCEPT !.disp = @ + n] # Refused
      BY <3>1, StructsAssumption
    <3>3. QED
      BY <1>4, <3>2 DEF Along
  <2>2. a.index # Absent /\ AddressOf(c.arch, a, IF Ctypes[t].kind = "scalar" THEN Ctypes[t].size ELSE Absent)
    BY <1>3, <2>1 DEF Other
  <2>3. a.disp = 0 /\ b.disp = 0
    BY <1>1, <2>1, <2>2, AddressesOf
  <2>4. Congruent(0, n)
    BY <1>1, <1>2, <2>3
  <2>5. QED
    BY <2>1, <2>4, SmallCongruent
<1>5. CASE m # Refused
  <2>1. m \in Addresses
    BY <1>1, <1>5, AlongMoves DEF AddrOK
  <2>2. m.index = b.index /\ m.scale = b.scale
    BY <1>1, <1>5 DEF Along, Addresses
  <2>3. View(c.arch, m, t, extent) = Refused
    BY <1>5
  <2> HIDE DEF m
  <2>4. Ctypes[t].kind = "scalar" /\ ~ScalesAccess(c.arch, m, t)
    BY <2>1, <2>3, ViewRefused
  <2>5. c.arch = "aarch64" /\ b.index # Absent /\ b.scale \notin {1, Ctypes[t].size}
    BY <2>2, <2>4 DEF ScalesAccess
  <2>6. Ctypes[t].size # Absent
    BY StructsAssumption, SizesInt
  <2>7. AddressOf(c.arch, a, Ctypes[t].size)
    BY <2>4 DEF Other
  <2>8. a.scale \in {1, Ctypes[t].size}
    BY <2>5, <2>6, <2>7, AddressesOf
  <2>9. QED
    BY <1>3, <2>5, <2>8
<1>6. QED
  BY <1>4, <1>5

\* The exponent is the only one.
LEMMA PowersApart ==
  ASSUME NEW k \in 0 .. 4, NEW n \in {1, 2, 4, 8}, TimesOf(k) = n
  PROVE  k = Log2(n)
<1>1. TimesOf(0) = 1 /\ TimesOf(1) = 2 /\ TimesOf(2) = 4 /\ TimesOf(3) = 8 /\ TimesOf(4) = 16
  BY DEF TimesOf
<1>2. Log2(n) \in 0 .. 4 /\ TimesOf(Log2(n)) = n
  BY Powers
<1>3. QED
  BY <1>1, <1>2

\* An element at a register is refused by no machine that has its address: not
\* by x64, aarch64 and loongarch64, and riscv64 has none.
LEMMA RegisterTaken ==
  ASSUME NEW arch \in Arches, NEW b, AddrOK(arch, b), b.index = Absent,
         NEW index, IndexOK(arch, index), NEW e, Says(arch, index, e), e \in ScalarSizes,
         NEW a, a.base = b.base, a.index = index.reg, a.scale = e, AddressOf(arch, a, Absent),
         arch = "aarch64" \/ arch = "loongarch64" => b.disp = 0
  PROVE  /\ AtRegister(arch, b, index, e) \in Addresses
         /\ AtRegister(arch, b, index, e).scale = e
<1> DEFINE r == index.reg
<1>1. /\ b \in Addresses /\ r \in AddressRegs /\ r # Absent
      /\ index.part \in {"x", "w"} /\ index.how \in Hows
      /\ b.base \in AddressRegs \cup {Absent} /\ b.disp \in Int
  BY StructsAssumption DEF AddrOK, IndexOK, Says, Addresses
<1>2. CASE arch = "x64"
  <2> DEFINE m == [base |-> b.base, index |-> r, how |-> "none", scale |-> e, disp |-> b.disp]
  <2>1. r # "rsp" /\ b.base # "rip"
    BY <1>1, <1>2, AddressesOf
  <2>2. Swapped(b.base, r, e, b.disp) = m
    BY <2>1 DEF Swapped
  <2>3. m.scale \in ScalarSizes /\ m.index # "rsp" /\ m.base # "rip" /\ m \in Addresses /\ m.scale = e
    BY <1>1, <2>1 DEF Addresses, Hows
  <2> HIDE DEF m
  <2>4. AddressOf("x64", m, Absent)
    BY <2>3, AddressesOf
  <2>5. IndexX64(b, index, e) = m
    BY <1>1, <2>2, <2>4 DEF IndexX64
  <2>6. QED
    BY <1>2, <2>3, <2>5 DEF AtRegister
<1>3. ASSUME NEW how \in Hows
      PROVE  AtIndex(b.base, r, how, e) \in Addresses /\ AtIndex(b.base, r, how, e).scale = e
  BY <1>1 DEF AtIndex, Addresses
<1>4. CASE arch = "aarch64"
  <2>1. IndexFits(index, e)
    <3>1. index.amount \in {Absent, Log2(e)}
      <4>1. index.amount # Absent => TimesOf(index.amount) = e /\ index.amount \in 0 .. 4
        BY DEF Says, IndexOK
      <4>2. QED
        BY <4>1, PowersApart DEF ScalarSizes
    <3>2. QED
      BY <1>1, <3>1 DEF IndexFits, Says
  <2>2. IndexAarch64(b, index, e) = AtIndex(b.base, r, index.how, e)
    BY <1>4, <2>1 DEF IndexAarch64
  <2>3. QED
    BY <1>1, <1>3, <1>4, <2>2 DEF AtRegister
<1>5. CASE arch = "riscv64"
  BY <1>1, <1>5, AddressesOf
<1>6. CASE arch = "loongarch64"
  <2>1. e = 1
    BY <1>1, <1>6, AddressesOf
  <2>2. IndexLoong(b, index, e) = AtIndex(b.base, r, "none", e)
    BY <1>1, <1>6, <2>1 DEF IndexLoong
  <2>3. "none" \in Hows
    BY DEF Hows
  <2>4. QED
    BY <1>3, <1>6, <2>2, <2>3 DEF AtRegister
<1>7. QED
  BY <1>2, <1>4, <1>5, <1>6 DEF Arches

\* An element at a register is refused for good (TypedArray.__getitem__).
LEMMA RegisterRefused ==
  ASSUME NEW c, c.arch \in Arches, AddrOK(c.arch, c.addr), NEW p, p.ctype \in DOMAIN Ctypes,
         NEW index, IndexOK(c.arch, index), NEW e, e = Ctypes[p.ctype].size, Says(c.arch, index, e),
         \A rf \in RegFiles : p.where[rf] = Points(c.addr, rf) + e * IndexValue(index.how, rf[index.reg]),
         \/ AtRegister(c.arch, c.addr, index, e) = Refused
         \/ View(c.arch, AtRegister(c.arch, c.addr, index, e), p.ctype, e) = Refused
  PROVE  ForGood(c, p)
<1> DEFINE t == p.ctype
           b == c.addr
           r == index.reg
           m == AtRegister(c.arch, b, index, e)
<1> SUFFICES ASSUME b.disp \in 1 - Modulus .. Modulus - 1,
                    Ctypes[t].kind = "scalar" => HasSize(t), e # 0,
                    NEW a, Other(c, t, a), IsAt(a, p.where)
             PROVE  FALSE
  BY DEF ForGood, Unreached, IsAt
<1>1. /\ b \in Addresses /\ a \in Addresses /\ a.base = b.base /\ r \in AddressRegs
      /\ e \in Nat /\ 3 * e < Modulus /\ e > 0
  <2>1. e \in Nat /\ 3 * e < Modulus
    BY StructsAssumption, SizesInt
  <2>2. QED
    BY <2>1 DEF AddrOK, Other, IndexOK
<1>2. /\ \A q \in AddressRegs : Coefficient(a, q) = Coefficient(b, q) + (IF q = r THEN e ELSE 0)
      /\ Congruent(a.disp, b.disp + 0)
  <2>1. ASSUME NEW rf \in RegFiles
        PROVE  p.where[rf] = Points(b, rf) + e * IndexValue(index.how, rf[r]) + 0
    <3> DEFINE x == IndexValue(index.how, rf[r])
               y == Points(b, rf)
    <3>1. x \in Int /\ y \in Int /\ p.where[rf] = y + e * x
      BY PointsInt, RegisterHeld
    <3> HIDE DEF x, y
    <3>2. p.where[rf] = y + e * x + 0
      BY <1>1, <3>1
    <3>3. QED
      BY <3>2 DEF x, y
  <2>2. Beyond(p.where, b, e, r, index.how, 0) /\ IsAt(a, p.where)
    BY <2>1 DEF Beyond
  <2> HIDE DEF b, r
  <2>3. QED
    BY <1>1, <2>2, SameAddress
<1>3. \A q \in AddressRegs : Coefficient(b, q) \in Nat
  BY <1>1 DEF Coefficient, Addresses, ScalarSizes
<1>4. a.index = r /\ a.scale = Coefficient(b, r) + e
  <2>1. Coefficient(a, r) = Coefficient(b, r) + e /\ Coefficient(b, r) \in Nat
    BY <1>1, <1>2, <1>3
  <2> DEFINE x == Coefficient(a, r)
             y == Coefficient(b, r)
  <2> HIDE DEF x, y
  <2>2. x # 0
    BY <1>1, <2>1 DEF x, y
  <2>3. QED
    BY <1>1, <2>1, <2>2, IndexOf DEF x
<1>5. b.index = Absent
  <2> SUFFICES ASSUME b.index # Absent PROVE FALSE
    OBVIOUS
  <2>1. b.index \in AddressRegs /\ Coefficient(b, b.index) = b.scale /\ b.scale \in {1, 2, 4, 8}
    BY <1>1 DEF Addresses, ScalarSizes, Coefficient
  <2>2. CASE b.index = r
    <3>1. a.scale = b.scale
      BY <1>4, <2>2 DEF Other
    <3>2. a.scale = b.scale + e
      BY <1>4, <2>1, <2>2
    <3>3. QED
      BY <1>1, <2>1, <3>1, <3>2
  <2>3. CASE b.index # r
    <3>1. Coefficient(a, b.index) = b.scale
      BY <1>2, <2>1, <2>3
    <3>2. QED
      BY <1>4, <2>1, <2>3, <3>1 DEF Coefficient
  <2>4. QED
    BY <2>2, <2>3
<1>6. a.scale = e /\ e \in ScalarSizes
  <2>1. Coefficient(b, r) = 0
    BY <1>1, <1>5, StructsAssumption DEF Coefficient
  <2>2. a.scale = e
    BY <1>1, <1>4, <2>1
  <2>3. QED
    BY <1>1, <2>2 DEF Addresses
<1>7. AddressOf(c.arch, a, Absent) /\ (c.arch = "aarch64" \/ c.arch = "loongarch64" => a.disp = 0)
  <2> DEFINE n == IF Ctypes[t].kind = "scalar" THEN Ctypes[t].size ELSE Absent
  <2>1. AddressOf(c.arch, a, n) /\ a.index # Absent
    BY <1>1, <1>4, StructsAssumption DEF Other
  <2> HIDE DEF n
  <2>2. QED
    BY <2>1, AddressesOf DEF Arches
<1>8. c.arch = "aarch64" \/ c.arch = "loongarch64" => b.disp = 0
  <2>1. b.disp \in Int /\ b.disp + 0 = b.disp
    BY <1>1 DEF Addresses
  <2>2. QED
    BY <1>2, <1>7, <2>1, SmallCongruent
<1>9. m \in Addresses /\ m.scale = e
  <2> HIDE DEF b
  <2>1. AddrOK(c.arch, b)
    BY DEF b
  <2>2. QED
    BY <1>1, <1>4, <1>5, <1>6, <1>7, <1>8, <2>1, RegisterTaken
<1>10. m # Refused
  BY <1>9, StructsAssumption
<1>11. View(c.arch, m, t, e) = Refused
  BY <1>10
<1> HIDE DEF m
<1>12. Ctypes[t].kind = "scalar" /\ ~ScalesAccess(c.arch, m, t)
  BY <1>1, <1>9, <1>11, ViewRefused
<1>13. QED
  BY <1>9, <1>12 DEF ScalesAccess

\* What is refused along a path is refused for good.
RefusalInv ==
  view = Refused /\ denoted # Absent /\ candidate # Absent =>
    /\ candidate.arch \in Arches /\ AddrOK(candidate.arch, candidate.addr)
    /\ candidate.ctype \in DOMAIN Ctypes
    /\ ForGood(candidate, denoted)

\* What a refusal remembers of the step.
LEMMA RefusedAt ==
  ASSUME NEW v, NEW p, NEW code, Reach(v, p, code), view \notin {Absent, Refused}, Reaches(view, denoted),
         v = Refused => ForGood(view, p)
  PROVE  RefusalInv'
<1>1. view' = v /\ denoted' = p /\ candidate' = IF v = Refused THEN view ELSE Absent
  BY DEF Reach
<1>2. view.arch \in Arches /\ AddrOK(view.arch, view.addr) /\ view.ctype \in DOMAIN Ctypes
  BY DEF Reaches
<1> SUFFICES ASSUME v = Refused PROVE RefusalInv'
  BY <1>1 DEF RefusalInv
<1>3. candidate' = view /\ denoted' = p
  BY <1>1
<1>4. ForGood(view, p)
  OBVIOUS
<1>5. QED
  BY <1>2, <1>3, <1>4 DEF RefusalInv

\* A step to what has no place.
LEMMA RefusedNowhere ==
  ASSUME NEW v, NEW code, Reach(v, Absent, code)
  PROVE  RefusalInv'
BY DEF Reach, RefusalInv

\* Places of a step.
LEMMA PlaceOf ==
  ASSUME NEW n, NEW t, NEW end
  PROVE  /\ Further(n, t, end).ctype = t
         /\ \A rf \in RegFiles : Further(n, t, end).where[rf] = denoted.where[rf] + n
BY DEF Further, Spot

\* view.f
LEMMA FieldRefused ==
  ASSUME ViewInv, NEW f, GetField(f)
  PROVE  RefusalInv'
<1> DEFINE x == Ctypes[view.ctype].fields[f]
           n == Ctypes[x.ctype].size
           m == Along(view.arch, view.addr, x.at)
           end == EndOf(x.at + n)
           v == IF m = Refused THEN Refused ELSE View(view.arch, m, x.ctype, n)
           p == Further(x.at, x.ctype, end)
<1>1. Reaches(view, denoted) /\ view \notin {Absent, Refused}
  BY DEF ViewInv, GetField, OnView
<1>2. CASE ~HasField(view.ctype, f)
  BY <1>2, RefusedNowhere DEF GetField
<1>3. CASE HasField(view.ctype, f)
  <2>1. Reach(v, p, Absent)
    BY <1>3 DEF GetField
  <2>2. /\ view.arch \in Arches /\ AddrOK(view.arch, view.addr) /\ view.ctype \in DOMAIN Ctypes
        /\ denoted.where = [rf \in RegFiles |-> Points(view.addr, rf)]
    BY <1>1 DEF Reaches
  <2>3. /\ x.ctype \in DOMAIN Ctypes /\ x.at \in Nat
        /\ x.at + n <= Ctypes[view.ctype].size
        /\ Ctypes[view.ctype].size \in Nat /\ 3 * Ctypes[view.ctype].size < Modulus /\ Modulus \in Nat
    BY <1>3, <2>2, StructsAssumption DEF HasField, CtypeOK
  <2>4. n \in Nat
    BY <2>3, SizesInt
  <2> DEFINE s == Ctypes[view.ctype].size
             M == Modulus
             at == x.at
  <2>5. at \in 1 - M .. M - 1 /\ n \in Int \cup {Absent}
    <3>1. at \in Nat /\ n \in Nat /\ s \in Nat /\ M \in Nat /\ at + n <= s /\ 3 * s < M
      BY <2>3, <2>4
    <3> HIDE DEF at, n, s, M
    <3>2. QED
      BY <3>1
  <2>6. p.ctype = x.ctype /\ \A rf \in RegFiles : p.where[rf] = Points(view.addr, rf) + at
    BY <2>2, PlaceOf
  <2>7. v = Refused => m = Refused \/ View(view.arch, m, x.ctype, n) = Refused
    OBVIOUS
  <2> HIDE DEF p, v, n, x, s
  <2>8. v = Refused => ForGood(view, p)
    BY <2>2, <2>3, <2>5, <2>6, <2>7, ConstantRefused
  <2>9. QED
    BY <1>1, <2>1, <2>8, RefusedAt
<1>4. QED
  BY <1>2, <1>3

\* view[i]
LEMMA ElementRefused ==
  ASSUME ViewInv, NEW i \in -1 .. 3, Element(i)
  PROVE  RefusalInv'
<1> DEFINE t == view.ctype
           elem == Ctypes[t].elem
           n == ElementOffset(t, i)
           m == Along(view.arch, view.addr, n)
           end == IF Ctypes[t].length = 0 THEN Absent ELSE EndOf(Ctypes[t].size)
           v == IF m = Refused THEN Refused ELSE View(view.arch, m, elem, Rest(t, n))
           p == Further(n, elem, end)
<1>1. Reaches(view, denoted) /\ view \notin {Absent, Refused} /\ Ctypes[t].kind = "array"
  BY DEF ViewInv, Element, OnView
<1>2. CASE ~InBounds(t, i)
  BY <1>2, RefusedNowhere DEF Element
<1>3. CASE InBounds(t, i)
  <2>1. Reach(v, p, Absent)
    BY <1>3 DEF Element
  <2>2. /\ view.arch \in Arches /\ AddrOK(view.arch, view.addr) /\ t \in DOMAIN Ctypes
        /\ denoted.where = [rf \in RegFiles |-> Points(view.addr, rf)]
    BY <1>1 DEF Reaches
  <2>3. elem \in DOMAIN Ctypes /\ Ctypes[elem].size \in Nat /\ Ctypes[t].size \in Nat
    BY <1>1, <2>2, SizesInt
  <2>4. n \in 1 - Modulus .. Modulus - 1
    <3> DEFINE e == Ctypes[elem].size
               M == Modulus
    <3>1. e \in Nat /\ 3 * e < M /\ M \in Nat
      BY <2>3, StructsAssumption
    <3>2. n = i * e
      BY DEF ElementOffset
    <3> HIDE DEF e, M, n
    <3>3. i = -1 => n \in 1 - M .. M - 1
      BY <3>1, <3>2
    <3>4. i = 0 => n \in 1 - M .. M - 1
      BY <3>1, <3>2
    <3>5. i = 1 => n \in 1 - M .. M - 1
      BY <3>1, <3>2
    <3>6. i = 2 => n \in 1 - M .. M - 1
      BY <3>1, <3>2
    <3>7. i = 3 => n \in 1 - M .. M - 1
      BY <3>1, <3>2
    <3>8. n \in 1 - M .. M - 1
      BY <3>3, <3>4, <3>5, <3>6, <3>7
    <3>9. QED
      BY <3>8 DEF M
  <2>5. n \in Int
    BY <2>3 DEF ElementOffset
  <2> HIDE DEF n
  <2>6. Rest(t, n) \in Int \cup {Absent}
    BY <2>3, <2>5 DEF Rest
  <2>7. p.ctype = elem /\ \A rf \in RegFiles : p.where[rf] = Points(view.addr, rf) + n
    BY <2>2, PlaceOf
  <2>8. v = Refused => m = Refused \/ View(view.arch, m, elem, Rest(t, n)) = Refused
    OBVIOUS
  <2> DEFINE rest == Rest(t, n)
  <2>9. rest \in Int \cup {Absent}
    BY <2>6
  <2>10. v = Refused => m = Refused \/ View(view.arch, m, p.ctype, rest) = Refused
    BY <2>7, <2>8
  <2>11. p.ctype \in DOMAIN Ctypes
    BY <2>3, <2>7
  <2> HIDE DEF p, v, rest, elem, t
  <2>12. v = Refused => ForGood(view, p)
    BY <2>2, <2>4, <2>7, <2>9, <2>10, <2>11, ConstantRefused
  <2>13. QED
    BY <1>1, <2>1, <2>12, RefusedAt
<1>4. QED
  BY <1>2, <1>3

\* view[reg]
LEMMA RegisterStep ==
  ASSUME ViewInv, NEW index, view \notin {Absent, Refused}, index \in IndexRegs[view.arch], ElementAt(index)
  PROVE  RefusalInv'
<1> DEFINE t == view.ctype
           elem == Ctypes[t].elem
           e == Ctypes[elem].size
           m == AtRegister(view.arch, view.addr, index, e)
           where == [rf \in RegFiles |-> denoted.where[rf] + e * IndexValue(index.how, rf[index.reg])]
           end == [rf \in RegFiles |-> where[rf] + e]
           v == IF m = Refused THEN Refused ELSE View(view.arch, m, elem, e)
           p == Spot(where, elem, end)
           code == HintFor(view.arch, view.addr, index, e)
<1>1. Reaches(view, denoted) /\ Ctypes[t].kind = "array"
  BY DEF ViewInv, ElementAt, OnView
<1>2. Reach(v, IF Says(view.arch, index, e) THEN p ELSE Absent, code)
  BY DEF ElementAt
<1>3. CASE ~Says(view.arch, index, e)
  BY <1>2, <1>3, RefusedNowhere
<1>4. CASE Says(view.arch, index, e)
  <2>1. Reach(v, p, code)
    BY <1>2, <1>4
  <2>2. /\ view.arch \in Arches /\ AddrOK(view.arch, view.addr) /\ t \in DOMAIN Ctypes
        /\ denoted.where = [rf \in RegFiles |-> Points(view.addr, rf)]
    BY <1>1 DEF Reaches
  <2>3. elem \in DOMAIN Ctypes /\ IndexOK(view.arch, index)
    BY <1>1, <2>2, SizesInt, StructsAssumption
  <2>4. /\ p.ctype = elem
        /\ \A rf \in RegFiles :
             p.where[rf] = Points(view.addr, rf) + e * IndexValue(index.how, rf[index.reg])
    BY <2>2 DEF Spot
  <2>5. v = Refused => m = Refused \/ View(view.arch, m, elem, e) = Refused
    OBVIOUS
  <2>6. e = Ctypes[p.ctype].size
    BY <2>4
  <2> HIDE DEF p, v, e, code
  <2>7. v = Refused => ForGood(view, p)
    BY <1>4, <2>2, <2>3, <2>4, <2>5, <2>6, RegisterRefused
  <2>8. QED
    BY <1>1, <2>1, <2>7, RefusedAt
<1>5. QED
  BY <1>3, <1>4

\* Every step keeps it.
LEMMA RefusalStep == ViewInv /\ RefusalInv /\ [StructsNext]_structVars => RefusalInv'
<1> SUFFICES ASSUME ViewInv, RefusalInv, [StructsNext]_structVars PROVE RefusalInv'
  OBVIOUS
<1>1. ASSUME NEW arch \in Arches, NEW base \in Given[arch], NEW t \in DOMAIN Ctypes, Typed(arch, base, t)
      PROVE  RefusalInv'
  <2>1. candidate' = Absent
    BY <1>1 DEF Typed, Reach
  <2>2. QED
    BY <2>1 DEF RefusalInv
<1>2. ASSUME NEW f, GetField(f) PROVE RefusalInv'
  BY <1>2, FieldRefused
<1>3. ASSUME NEW i \in -1 .. 3, Element(i) PROVE RefusalInv'
  BY <1>3, ElementRefused
<1>4. ASSUME view \notin {Absent, Refused}, NEW index \in IndexRegs[view.arch], ElementAt(index) PROVE RefusalInv'
  BY <1>4, RegisterStep
<1>5. CASE UNCHANGED structVars
  BY <1>5 DEF structVars, RefusalInv
<1>6. QED
  BY <1>1, <1>2, <1>3, <1>4, <1>5 DEF StructsNext

\* The addresses that the run compares with are among the others.
LEMMA OthersAre ==
  ASSUME candidate.arch \in Arches, AddrOK(candidate.arch, candidate.addr),
         candidate.ctype \in DOMAIN Ctypes, NEW a \in Others(candidate)
  PROVE  Other(candidate, denoted.ctype, a)
<1> DEFINE c == candidate.addr
           n == Ctypes[candidate.ctype].size
           regs == {Absent, c.index} \cup {i.reg : i \in IndexRegs[candidate.arch]}
           disps == {c.disp + k : k \in 0 .. n}
<1>1. PICK r \in regs, h \in {"none", "uxtw", "sxtw"}, s \in ScalarSizes, d \in disps :
        a = [base |-> c.base, index |-> r, how |-> h, scale |-> s, disp |-> d]
  BY DEF Others
<1>2. c \in Addresses
  BY DEF AddrOK
<1>3. r \in AddressRegs \cup {Absent}
  <2>1. \A i \in IndexRegs[candidate.arch] : i.reg \in AddressRegs
    BY StructsAssumption DEF IndexOK
  <2>2. c.index \in AddressRegs \cup {Absent}
    BY <1>2 DEF Addresses
  <2>3. QED
    BY <2>1, <2>2
<1>4. d \in Int
  <2>1. n \in Nat /\ c.disp \in Int
    BY <1>2, SizesInt DEF Addresses
  <2> HIDE DEF n
  <2>2. QED
    BY <2>1
<1>5. /\ a.index = c.index => a.scale = c.scale
      /\ AddressOf(candidate.arch, a, IF Ctypes[denoted.ctype].kind = "scalar"
                                      THEN Ctypes[denoted.ctype].size ELSE Absent)
  BY DEF Others
<1>6. c.base \in AddressRegs \cup {Absent} /\ h \in Hows
  BY <1>2 DEF Addresses, Hows
<1> HIDE DEF regs, disps, n, c
<1>7. a \in Addresses /\ a.base = c.base
  BY <1>1, <1>3, <1>4, <1>6 DEF Addresses
<1>8. QED
  BY <1>5, <1>7 DEF Other, c

\* Whatever the layout of the types: a field or an element that exists and has
\* a size is refused only if no other address of the machine over the same base
\* is that of its bytes under every content of the registers, the index left as
\* it is where there is one (_offset, _scalar, TypedArray.__getitem__).
THEOREM RefusalsStand == StructsSpec => []RefusedForGood
<1>1. StructsInit => ViewInv /\ RefusalInv
  BY DEF StructsInit, ViewInv, RefusalInv
<1>2. ViewInv /\ RefusalInv /\ [StructsNext]_structVars => ViewInv' /\ RefusalInv'
  BY ViewStep, RefusalStep
<1>3. RefusalInv => RefusedForGood
  BY OthersAre DEF RefusalInv, RefusedForGood, ForGood, Unreached
<1>4. QED
  BY <1>1, <1>2, <1>3, PTL DEF StructsSpec

\* Views, refusals and hints of typed() are right together.
THEOREM TypedSound == StructsSpec => []TypedReaches
BY ViewsReach, RefusalsStand, HintsCompute, PTL DEF TypedReaches
=============================================================================
