------------------------------ MODULE MCPieces ------------------------------
(* Parts that share no state, for TLC: a behaviour is of one of them, the     *)
(* others stay where they start.  The encoders of the machines with fixed     *)
(* width instructions, typed views, listings, the scan of headers and the      *)
(* layout of their structs.                                                   *)
EXTENDS Riscv64Decode, Loongarch64Decode, Aarch64Decode, MCStructs, Listing, HeaderScan,
        MCPacking

CONSTANT MaxText   \* bound on what is written about one struct

VARIABLE piece

Labels == {Lbl, Text("loop")}
\* Of every kind, for the places where it does not belong.
AnyOperand == {X(5), F(5), Num(0), Lbl, Text("loop"), MemAt(5, 0, 0), Indexed(5, 6, 0), Addr(5)}

RiscvSamples(p) ==
  CASE p \in DOMAIN XFields -> {X(0), X(10), X(21)}
    [] p \in DOMAIN FFields -> {F(10), F(21)}
    [] p = "I" -> {Num(n) : n \in {-2049, -2048, -1, 1365, 2047, 2048}}
    [] p = "U" -> {Num(n) : n \in {-524289, -524288, -1, 0, \h5aaaa, \hfffff, \h100000}}
    [] p = "H" -> {Num(n) : n \in {-1, 0, 42, 63, 64}}
    [] p \in {"W", "K"} -> {Num(n) : n \in {-1, 0, 21, 31, 32}}
    [] p = "C" -> {Num(\haaa), Num(4095), Num(4096), Num(-1), Text("frm"), Text("time")}
    [] p \in {"L", "S"} ->
         {MemAt(b, d, 0) : b \in {0, 10, 21}, d \in {-2049, -2048, -1366, -1, 31, 2047, 2048}}
         \cup {MemAt(10, 8, n) : n \in {1, 2, 4, 8}}
    [] p = "A" -> {MemAt(b, 0, n) : b \in {10, 21}, n \in {0, 4, 8}} \cup {MemAt(10, 8, 0)}
    [] p \in {"B", "J", "G", "g"} -> Labels
    [] p \in {"P", "Q"} -> {Text(t) : t \in {"iorw", "rw", "io", "wr", ""}}
RiscvDistances(acts) ==
  LET has == ToSet(acts) IN
  IF "B" \in has THEN {0, -4096, -1366, -2, 1364, 2048, 4094}
  ELSE IF "J" \in has THEN {0, -1048576, -349526, -2, 349524, 2048, 4096, 1048574}
  ELSE IF has \cap {"G", "g"} # {} THEN {0, -1, 2047, 2048, -2048, -2049, 305419896, -305419897}
  ELSE {0}
Modes(acts) == IF "r" \in ToSet(acts) THEN {"none", "rtz", "dyn", "odd"} ELSE {"none", "rtz"}

LoongSamples(p) ==
  CASE p \in {"D", "J", "K"} -> {X(0), X(10), X(21)}
    [] p \in {"d", "j", "k", "a"} -> {F(10), F(21)}
    [] p \in {"C", "c", "E"} -> {Reg("fcc", 2), Reg("fcc", 5)}
    [] p \in {"S", "s"} -> {Reg("fcsr", 1), Reg("fcsr", 2)}
    [] p = "i" -> {Num(n) : n \in {-2049, -2048, -1, 1365, 2047, 2048}}
    [] p = "u" -> {Num(n) : n \in {-1, 0, 1365, 2730, 4095, 4096}}
    [] p = "h" -> {Num(n) : n \in {-32769, -32768, -1, 21845, 32767, 32768}}
    [] p = "z" -> {Num(n) : n \in {-524289, -524288, -1, 349525, 524287, 524288}}
    [] p \in {"w", "x", "M", "N"} -> {Num(n) : n \in {-1, 0, 21, 31, 32, 42, 63, 64}}
    [] p = "p" -> {Num(n) : n \in {-32772, -32768, -10924, -4, 2, 10920, 32764, 32768}}
    [] p = "o" -> {Num(n) : n \in {-131076, -131072, -43692, -4, 2, 43688, 131068, 131072}}
    [] p \in {"q", "y", "Y"} -> {Num(n) : n \in {-1, 0, 1, 3, 4, 5, 7, 8}}
    [] p = "U" -> {Num(n) : n \in {-1, 0, 10922, 32767, 32768}}
    [] p \in {"P", "X"} -> {Num(n) : n \in {-1, 0, 10, 31, 32}}
    [] p \in {"m", "n", "r", "b"} ->
         {MemAt(b, d, 0) : b \in {0, 10}, d \in {-32768, -2049, -2048, -4, 0, 2, 2047, 2048, 32768}}
         \cup {MemAt(21, 0, n) : n \in {1, 2, 4, 8}}
         \cup {Indexed(b, i, 0) : b, i \in {0, 10, 21}} \cup {Indexed(10, 21, n) : n \in {1, 8}}
    [] p \in {"B", "R", "T", "V", "L", "l", "O"} -> Labels
LoongDistances(acts) ==
  LET has == ToSet(acts) IN
  IF "B" \in has THEN {0, -131072, -43692, -4, 43688, 131068}
  ELSE IF "R" \in has THEN {0, -4194304, -1398104, -4, 262140, 262144, 4194300}
  ELSE IF "T" \in has THEN {0, -134217728, -44739244, -4, 262140, 262144, 134217724}
  ELSE IF "V" \in has THEN {0, -2097152, -4, 1398100, 2097148}
  ELSE IF has \cap {"L", "l"} # {} THEN {0, -1, 2047, 2048, -2048, -2049, 305419896, -305419897}
  ELSE IF "O" \in has THEN {0, -4, 131068, 131072, -131072, -131076, 305419896, -305419900}
  ELSE {0}

RiscvOperandsOf(acts) == SelectSeq(acts, LAMBDA p : p \notin {"E", "^", "~", "r"})
\* A field of bits has two operands.
LoongOperandsOf(acts) ==
  FlattenSeq([i \in DOMAIN acts |->
    CASE acts[i] \in {"=", "!", "~"} -> <<>>
      [] acts[i] \in {"M", "N"} -> <<acts[i], acts[i]>>
      [] OTHER -> <<acts[i]>>])

\* Every list of operands of these samples; one of them with one operand of
\* another kind, one too many or one too few.
OperandLists(samples) ==
  FoldRight(LAMBDA qs, lists : {<<q>> \o l : q \in qs, l \in lists}, samples, {<<>>})
Usual(samples) == [i \in DOMAIN samples |-> CHOOSE q \in samples[i] : TRUE]
Spoiled(samples) ==
  {ReplaceAt(Usual(samples), i, q) : i \in DOMAIN samples, q \in AnyOperand}
  \cup {Append(Usual(samples), q) : q \in AnyOperand} \cup {Usual(samples)}
  \cup (IF samples = <<>> THEN {} ELSE {Front(Usual(samples))})

RiscvShapes ==
  {<<r[1], r[2].acts>> : r \in RiscvMapOp} \cup {<<"jalr", Jalr2[k].acts>> : k \in DOMAIN Jalr2}
RiscvAsked(row) ==
  LET ps == RiscvOperandsOf(row[2])
      samples == [i \in DOMAIN ps |-> RiscvSamples(ps[i])]
  IN
  {Ask("riscv64", row[1], ops, "none", to) :
     ops \in OperandLists(samples), to \in RiscvDistances(row[2])}
  \cup {Ask("riscv64", row[1], ops, "none", 4) : ops \in Spoiled(samples)}
  \cup {Ask("riscv64", row[1], Usual(samples), rm, 4) : rm \in Modes(row[2])}
LoongShapes == {<<r[1], r[2].acts>> : r \in LoongMapOp}
LoongAsked(row) ==
  LET ps == LoongOperandsOf(row[2])
      samples == [i \in DOMAIN ps |-> LoongSamples(ps[i])]
  IN
  {Ask("loongarch64", row[1], ops, "none", to) :
     ops \in OperandLists(samples), to \in LoongDistances(row[2])}
  \cup {Ask("loongarch64", row[1], ops, "none", 4) : ops \in Spoiled(samples)}

\* Registers of every class, with and without 31.
GpSamples == {X(10), X(21), X(31), Reg("w", 10), Reg("w", 21), Reg("w", 31), Sp}
FpSamples == {Reg(c, 21) : c \in {"s", "d", "q"}} \cup {Reg("d", 10)}
Bases == {X(10), X(21), Sp}
OffsetSamples(scale) ==
  {n * 2^scale : n \in {-65, -64, -22, 42, 63, 64, 1365, 4095, 4096}}
  \cup {0, 1, -1, -171, -256, -257, 255, 257}
TypedSamples == {MemExpr(X(10), Missing, Missing, 8, "offset", 2^k, 2^k * n) : k \in 0 .. 3, n \in 1 .. 3}
MemSamples(scale) ==
  {Offset(b, d, "offset") : b \in Bases, d \in OffsetSamples(scale)}
  \cup {Offset(b, d, m) : b \in {X(10), Sp}, d \in OffsetSamples(scale), m \in {"pre", "post"}}
  \cup TypedSamples
  \cup {m \in {MemExpr(b, i, Mod(e, n), 0, "offset", 0, 0) :
                 b \in {X(21), Sp}, i \in {X(10), X(31), Reg("w", 21)},
                 e \in {"lsl", "sxtx", "uxtw", "sxtw"}, n \in {NotWritten, 0, 1, 2, 3, 4}} :
          BuildableMem(m) /\ ~(m.mod.how = "lsl" /\ m.mod.amount = NotWritten)}
  \cup {MemExpr(X(21), X(10), Missing, 0, "offset", n, n) : n \in {0, 1, 2, 4, 8}}

\* 64 bits: two different halves, one odd one out, a byte eight times.
Wides == {Wide(16 .. 47), Wide((0 .. 63) \ {13}), Wide({0, 40}), Wide({i \in 0 .. 63 : i % 8 \in 3 .. 5}),
          Wide({i \in 0 .. 63 : i % 2 = 1})}
MaskSamples == {Num(n) : n \in {0, -1, 1, -2, 5, 85, \h5555, \hff00ff, 240, -256, 65535, 65536, 2147483647}} \cup Wides
A64Samples(p) ==
  CASE p \in {"D", "N", "M", "A"} -> GpSamples
    [] p = "I" -> {Num(n) : n \in {-1, 0, 1365, 2730, 4095, 4096, 4097, \h555000, \hfff000, \h1000000}}
    [] p = "i" -> MaskSamples
    [] p = "W" -> {Num(n) : n \in {-1, 0, \h5555, 65535, 65536}}
    [] p \in {"T", "1", "2"} -> {Num(n) : n \in {-1, 0, 21, 31, 32, 42, 63, 64}}
    [] p = "5" -> {Num(n) : n \in {-1, 0, 21, 31, 32}}
    [] p = "V" -> {Num(n) : n \in {-1, 0, 10, 15, 16}}
    [] p = "F" -> {Real(n) : n \in {0, 16, 32, 256, 336, -496, 640, 31 * 256, 32 * 256, 33, 34, 272, 264}}
                  \cup {MinusZero, Num(0), Num(-3), Num(17), Num(18), Num(33)}
    [] p = "Z" -> {Real(0), Real(256), MinusZero, Num(0), Num(1)}
    [] p = "S" -> {Mod(s, n) : s \in {"lsl", "lsr", "asr"}, n \in {0, 21, 31, 32, 63, 64}}
    [] p = "X" -> {Mod(e, n) : e \in DOMAIN MapExtend \cup {"lsl"}, n \in {0, 3, 4, 5}}
                  \cup {Mod("sxtb", NotWritten)}
    [] p = "R" -> {Mod("lsl", n) : n \in {0, 8, 16, 32, 48, 64}} \cup {Mod("lsr", 16)}
    [] p \in {"C", "c"} -> {Text(c) : c \in {"eq", "ne", "hs", "lo", "mi", "al", "le", "nv"}}
    [] p = "t" -> {Text(c) : c \in {"c", "j", "jc", "x"}}
    [] p = "B" -> Labels
    [] p \in {"L", "P"} -> {}
\* The registers of one class and one of another, where they are many.
RegsFor(ps, acts) ==
  IF {"f", "d", "s", "q"} \cap ToSet(acts) # {}
  THEN IF {"w", "x"} \cap ToSet(acts) # {} THEN FpSamples \cup {X(10), Reg("w", 31), Sp} ELSE FpSamples
  ELSE IF Cardinality({i \in DOMAIN ps : ps[i] \in DOMAIN A64Regs}) > 2
  THEN {X(10), X(31), Reg("w", 21), Sp} ELSE GpSamples
A64Operands(acts) ==
  SelectSeq(acts, LAMBDA p : p \notin {"p", "m", "g", "f", "x", "w", "d", "s", "q"})
A64Distances(acts, name) ==
  CASE "B" \notin ToSet(acts) -> {4}
    [] name = "adr" -> {0, 1, -1, 699050, -349526, -1048576, 1048575}
    [] name = "adrp" -> {0, 4096, -4096, 1851, 1852, -2244, -2245, 1431655765, -1431655766}
    [] "T" \in ToSet(acts) -> {0, -32768, -4, 21844, 32764}
    [] name \in {"b", "bl"} -> {0, -4, -134217728, 89478484, 262144, 134217724}
    [] OTHER -> {0, -4, -1048576, 699048, 1048572}

AnyA64 ==
  {X(5), Reg("w", 5), Sp, Reg("d", 5), Num(0), Lbl, Text("loop"), Text("eq"), Offset(X(5), 0, "offset"),
   Addr(5), RegMod(X(5), "lsl", 1), RegMod(Reg("w", 5), "uxtw", NotWritten)}
SpoiledA64(samples) ==
  {ReplaceAt(Usual(samples), i, q) : i \in DOMAIN samples, q \in AnyA64}
  \cup {Append(Usual(samples), q) : q \in AnyA64} \cup {Usual(samples)}
  \cup (IF samples = <<>> THEN {} ELSE {Front(Usual(samples))})

A64Shapes ==
  {s \in UNION {{<<row[1], row[2][k].acts>> : k \in DOMAIN row[2]} : row \in A64MapOp} :
     {"L", "P"} \cap ToSet(s[2]) = {}}
\* A register and its shift are one operand as written.
Unflatten(ops) ==
  IF ops # <<>> /\ Last(ops).kind = "mod" /\ Len(ops) > 1 /\ IsReg(ops[Len(ops) - 1])
  THEN SubSeq(ops, 1, Len(ops) - 2) \o <<[kind |-> "regmod", reg |-> ops[Len(ops) - 1], mod |-> Last(ops)]>>
  ELSE ops
A64Asked(row) ==
  LET ps == A64Operands(row[2])
      samples == [i \in DOMAIN ps |->
                    IF ps[i] \in DOMAIN A64Regs THEN RegsFor(ps, row[2]) ELSE A64Samples(ps[i])]
  IN
  {Ask("aarch64", row[1], Unflatten(ops), "none", to) :
     ops \in OperandLists(samples), to \in A64Distances(row[2], row[1])}
  \cup {Ask("aarch64", row[1], Unflatten(ops), "none", 4) : ops \in SpoiledA64(samples)}
A64BitAsked ==
  {Ask("aarch64", name, <<d, n, Num(lsb), Num(width)>>, "none", 4) :
     name \in DOMAIN MapAlias, d \in {X(10), Reg("w", 21), Sp}, n \in {X(21), Reg("w", 31)},
     lsb \in {-1, 0, 7, 31, 32, 63}, width \in {0, 1, 25, 32, 33, 64}}
  \cup {Ask("aarch64", "lsl", <<d, n, Num(k)>>, "none", 4) :
          d, n \in {X(10), Reg("w", 21)}, k \in {-1, 0, 7, 31, 32, 63, 64}}
Scales == [strb |-> 0, ldrb |-> 0, ldrsb |-> 0, strh |-> 1, ldrh |-> 1, ldrsh |-> 1, str |-> 2, ldr |-> 3,
           ldrsw |-> 2, stp |-> 3, ldp |-> 2, ldpsw |-> 2]
Transferred == {X(10), X(21), Reg("w", 10), Reg("w", 31), Reg("s", 10), Reg("d", 21), Reg("q", 21), Sp}
FirstOfPair == {X(10), Reg("w", 31), Reg("s", 10), Reg("q", 21), Sp}
A64MemAsked(name) ==
  {Ask("aarch64", name, regs \o <<m>>, "none", 4) :
     regs \in (IF name \in {"stp", "ldp", "ldpsw"} THEN {<<t, u>> : t \in FirstOfPair, u \in Transferred}
               ELSE {<<t>> : t \in Transferred}),
     m \in MemSamples(Scales[name])}

FixedChosen ==
  \/ \E row \in RiscvShapes : asked \in RiscvAsked(row)
  \/ \E row \in LoongShapes : asked \in LoongAsked(row)
  \/ \E row \in A64Shapes : asked \in A64Asked(row)
  \/ asked \in A64BitAsked
  \/ \E name \in DOMAIN Scales : asked \in A64MemAsked(name)

\* The pragmas, and what is written of the body.
Written ==
  pragmas + (IF body = Unread THEN 0
             ELSE Len(body.members) + (IF body.packed THEN 1 ELSE 0) + (IF body.align > 0 THEN 1 ELSE 0))

Just(p) ==
  /\ piece = p
  /\ p # "fixed" => asked = Nothing
  /\ p # "listing" => listed = Nothing /\ image = NoImage
  /\ emitted = Nothing /\ lines = Unlisted
  /\ StructsInit /\ ScanInit /\ PackInit

Init ==
  \/ FixedChosen /\ Just("fixed")
  \/ ListingChosen /\ Just("listing")
  \/ \E p \in {"views", "scan", "packing"} : Just(p)

Stepping(p) ==
  /\ piece = p
  /\ UNCHANGED piece
  /\ p # "fixed" => UNCHANGED fixedVars
  /\ p # "views" => UNCHANGED structVars
  /\ p # "listing" => UNCHANGED listingVars
  /\ p # "scan" => UNCHANGED scanVars
  /\ p # "packing" => UNCHANGED packVars

Next ==
  \/ /\ Stepping("fixed")
     /\ EncodeRiscv \/ LinkRiscv \/ EncodeLoong \/ LinkLoong \/ EncodeA64 \/ LinkA64
  \/ Stepping("views") /\ StructsNext
  \/ Stepping("listing") /\ MakeListing
  \/ Stepping("scan") /\ ScanNext
  \/ Stepping("packing") /\ PackNext /\ Written' <= MaxText

Spec == Init /\ [][Next]_<<piece, fixedVars, structVars, listingVars, scanVars, packVars>>
=============================================================================
