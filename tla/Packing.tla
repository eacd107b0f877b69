------------------------------ MODULE Packing -------------------------------
(***************************************************************************)
(* The layout a struct or union of a header is given (pragma, fields,       *)
(* check_alignment and complete of cheader/convert.py): `#pragma pack` as it *)
(* is read between declarations, `packed` and `aligned(N)` of the body as the*)
(* marker fields the scan puts at its head or its end, and the attributes of *)
(* a member, which ctypes has no counterpart for and which are refused       *)
(* unless they change nothing.                                               *)
(*                                                                           *)
(* ctypes and the compiler are external.  Of an alignment 0 means none.      *)
(***************************************************************************)
EXTENDS Integers, Sequences, SequencesExt, FiniteSetsExt

CONSTANTS
  Types,        \* of members: [size, align]
  Packs,        \* alignments #pragma pack is given
  Alignments,   \* N of aligned(N) and _Alignas(N)
  Ids,          \* names a push or a pop is given
  Unnamed,      \* a push or a pop without one
  Unread,       \* no body was closed yet
  Unsupported,  \* what a body may be converted to
  MaxPragmas, MaxMembers, MaxBodies   \* bounds on the text

ASSUME PackingAssumption ==
  /\ \A t \in Types : t.size \in Nat \ {0} /\ t.align \in Nat \ {0}
  /\ Packs \cup Alignments \subseteq Nat \ {0}
  /\ Unnamed \notin Ids /\ {MaxPragmas, MaxMembers, MaxBodies} \subseteq Nat

VARIABLES
  packs,     \* self.pack: the alignment in force last, those pushed before it
  compiler,  \* what the compiler keeps: [value, id], the one in force last
  pragmas,   \* pragmas read
  started,   \* bodies opened
  body,      \* the body being read, or Unread
  result,    \* the body read last and what became of it, or Unread
  orderly    \* history: pops name the last push if any, no pragma was in a body

packVars == <<packs, compiler, pragmas, started, body, result, orderly>>

PackInit ==
  /\ packs = <<0>> /\ compiler = <<[value |-> 0, id |-> Unnamed]>>
  /\ pragmas = 0 /\ started = 0 /\ body = Unread /\ result = Unread /\ orderly = TRUE

InForce == Last(packs)
Between == body = Unread /\ pragmas < MaxPragmas /\ started < MaxBodies
Counted == pragmas' = pragmas + 1

-----------------------------------------------------------------------------
(* #pragma pack                                                             *)

\* The compiler's stack: a push saves the alignment in force under its name, a
\* pop by name takes everything above that name along.
CompilerSets(n) == [compiler EXCEPT ![Len(compiler)].value = n]
CompilerPushes(id, n) == Append(compiler, [value |-> n, id |-> id])
CompilerPops(id) ==
  LET named == {i \in 2 .. Len(compiler) : compiler[i].id = id} IN
  IF Len(compiler) = 1 THEN compiler
  ELSE IF id # Unnamed /\ named # {} THEN SubSeq(compiler, 1, Max(named) - 1)
  ELSE Front(compiler)

\* pack(n) and pack().
SetPack(n) ==
  /\ Between /\ Counted
  /\ packs' = [packs EXCEPT ![Len(packs)] = n]
  /\ compiler' = CompilerSets(n)
  /\ UNCHANGED <<started, body, result, orderly>>

\* Faulty: without a number the default is in force again.
PushedDefault(n) == Append(packs, n)

\* pack(push), pack(push, id), pack(push, n) and pack(push, id, n); n is 0 if
\* it is not given.
Pushed(n) == Append(packs, IF n = 0 THEN InForce ELSE n)

Push(id, n) ==
  /\ Between /\ Counted
  /\ packs' = Pushed(n)
  /\ compiler' = CompilerPushes(id, IF n = 0 THEN Last(compiler).value ELSE n)
  /\ UNCHANGED <<started, body, result, orderly>>

\* Faulty: the last entry is popped too, and the default is in force again.
PoppedToDefault == IF Len(packs) > 1 THEN Front(packs) ELSE <<0>>

\* pack(pop) and pack(pop, id): the name is not looked at.
Popped == IF Len(packs) > 1 THEN Front(packs) ELSE packs

Pop(id) ==
  /\ Between /\ Counted
  /\ packs' = Popped
  /\ compiler' = CompilerPops(id)
  /\ orderly' = (orderly /\ CompilerPops(id) = CompilerPops(Unnamed))
  /\ UNCHANGED <<started, body, result>>

-----------------------------------------------------------------------------
(* The body of a struct or union                                            *)

\* The alignment in force is read once.
OpenBody(kind) ==
  /\ body = Unread /\ started < MaxBodies
  /\ started' = started + 1
  /\ body' = [kind |-> kind, pack |-> InForce, align |-> 0, members |-> <<>>,
              packed |-> FALSE, late |-> FALSE, closing |-> FALSE, fine |-> TRUE]
  /\ UNCHANGED <<packs, compiler, pragmas, result, orderly>>

\* The markers of a body lie before its first member or after its last one.
AtEnd == body.members # <<>>

\* It is late for a member that was read with an alignment of its own.
PackedMarker ==
  /\ body # Unread
  /\ body' = [body EXCEPT !.pack = 1, !.packed = TRUE, !.closing = AtEnd,
       !.late = @ \/ (~body.packed /\ \E m \in ToSet(body.members) : m.aligned > 1)]
  /\ UNCHANGED <<packs, compiler, pragmas, started, result, orderly>>

AlignedMarker(n) ==
  /\ body # Unread
  /\ body' = [body EXCEPT !.align = Max({@, n}), !.closing = AtEnd]
  /\ UNCHANGED <<packs, compiler, pragmas, started, result, orderly>>

Lower(natural, pack) == IF pack # 0 THEN Min({natural, pack}) ELSE natural

\* Faulty: the packing is not looked at.
Natural(t) == t.align

\* What a member gets anyway, as far as the body was read.
Effective(t) == Lower(t.align, body.pack)

\* check_alignment
Exact(t, packed, aligned) ==
  /\ packed => Effective(t) <= 1
  /\ aligned <= Effective(t)

Member(t, packed, aligned) ==
  /\ body # Unread /\ ~body.closing /\ Len(body.members) < MaxMembers
  /\ body' = [body EXCEPT
       !.members = Append(@, [type |-> t, packed |-> packed, aligned |-> aligned]),
       !.fine = @ /\ Exact(t, packed, aligned)]
  /\ UNCHANGED <<packs, compiler, pragmas, started, result, orderly>>

\* A pragma inside a body: it is unsupported, and not obeyed after it either.
PragmaInside(n) ==
  /\ body # Unread /\ ~body.closing /\ pragmas < MaxPragmas /\ Counted
  /\ compiler' = CompilerSets(n)
  /\ body' = [body EXCEPT !.fine = FALSE]
  /\ orderly' = FALSE
  /\ UNCHANGED <<packs, started, result>>

\* Sizes and offsets, in the order of the members, if a has their alignments.
RoundUp(n, a) == ((n + a - 1) \div a) * a
Laid(kind, sizes, a, least) ==
  LET end(offsets, i) == IF i = 0 \/ kind = "union" THEN 0 ELSE offsets[i] + sizes[i]
      offsets == FoldLeft(LAMBDA done, i : Append(done, RoundUp(end(done, i - 1), a[i])),
                          <<>>, [i \in DOMAIN sizes |-> i])
  IN  [offsets |-> offsets,
       size |-> RoundUp(Max({0} \cup {offsets[i] + sizes[i] : i \in DOMAIN sizes}),
                        Max({1, least} \cup {a[i] : i \in DOMAIN sizes}))]

SizesOf(b) == [i \in DOMAIN b.members |-> b.members[i].type.size]

\* ctypes, with _pack_ and _align_.
CtypesLayout(b) ==
  Laid(b.kind, SizesOf(b), [i \in DOMAIN b.members |-> Lower(b.members[i].type.align, b.pack)], b.align)

\* The compiler: packed takes the alignment of a type away, not one that is
\* asked for; the pragma bounds both.
CompilerAlign(b, m) ==
  Lower(Max({m.aligned, IF b.packed \/ m.packed THEN 1 ELSE m.type.align}), Last(compiler).value)
Compiled(b) ==
  Laid(b.kind, SizesOf(b), [i \in DOMAIN b.members |-> CompilerAlign(b, b.members[i])], b.align)

CloseBody ==
  /\ body # Unread /\ body.members # <<>>
  /\ result' = [loaded |-> IF body.fine THEN CtypesLayout(body) ELSE Unsupported,
                compiled |-> Compiled(body), late |-> body.late]
  /\ body' = Unread
  /\ UNCHANGED <<packs, compiler, pragmas, started, orderly>>

PackNext ==
  \/ \E n \in Packs \cup {0} : SetPack(n)
  \/ \E id \in Ids \cup {Unnamed}, n \in Packs \cup {0} : Push(id, n)
  \/ \E id \in Ids \cup {Unnamed} : Pop(id)
  \/ \E kind \in {"struct", "union"} : OpenBody(kind)
  \/ PackedMarker
  \/ \E n \in Alignments : AlignedMarker(n)
  \/ \E t \in Types, packed \in BOOLEAN, n \in Alignments \cup {0} : Member(t, packed, n)
  \/ \E n \in Packs \cup {0} : PragmaInside(n)
  \/ CloseBody

PackSpec == PackInit /\ [][PackNext]_packVars

-----------------------------------------------------------------------------
(* Correctness                                                              *)

Loaded == result # Unread /\ result.loaded # Unsupported

\* A struct or union that is loaded has the offsets and the size the compiler
\* gives it, whatever pragmas were pushed, set and popped before it, and its
\* own markers and the attributes of its members.  Not said of a `packed`
\* after a member with an alignment of its own, of what follows a pragma in a
\* body, and of what follows a pop that names an earlier push.
LoadedAsCompiled ==
  Loaded /\ orderly /\ ~result.late => result.loaded = result.compiled

\* "never loaded with a wrong layout": the same without exceptions.
LayoutIsExact == Loaded => result.loaded = result.compiled
=============================================================================
