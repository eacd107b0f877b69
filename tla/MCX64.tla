------------------------------- MODULE MCX64 --------------------------------
(* The instructions of x64 to encode, for module MCParts.                  *)
EXTENDS X64Decode

Codes == {0, 1, 4, 5, 7, 8, 12, 13, 15}
Highs == {HighReg(k) : k \in 4 .. 7}
Regs == {Reg(s, k) : s \in AnySize, k \in Codes} \cup Highs
FewRegs == {Reg(s, k) : s \in AnySize, k \in {0, 1, 5, 12}} \cup {HighReg(4)}
Vectors == {Reg(s, k) : s \in {"o", "y"}, k \in {0, 7, 9}}

\* On both sides of every limit.
Values ==
  {-1, 0, 1}
  \cup UNION {{-(2^(b - 1)) - 1, -(2^(b - 1)), 2^(b - 1) - 1, 2^(b - 1), 2^b - 1, 2^b,
               2^b - 128, 2^b - 129} : b \in {8, 16, LongBits, QuadBits}}
Disps ==
  {0, 1, -128, -129, 127, 128, -(2^(LongBits - 1)), 2^(LongBits - 1) - 1}
Far == {2^(LongBits - 1), -(2^(LongBits - 1)) - 1, 2^QuadBits - 2^(LongBits - 1),
        2^QuadBits - 2^(LongBits - 1) - 1, 2^QuadBits - 1, 2^QuadBits, 2^(QuadBits - 1),
        -(2^(QuadBits - 1)), -(2^(QuadBits - 1)) - 1}

Bases == 0 .. 15 \cup {None, Rip}
Addresses64(sizes, indexes) ==
  {Mem(s, b, x, k, d, FALSE, 8) : s \in sizes, b \in Bases, x \in indexes,
                                  k \in {1, 2, 8}, d \in Disps}
Simple(sizes) ==
  {Mem(s, b, None, 1, 4, FALSE, 8) : s \in sizes, b \in {3, 12, None}}
  \cup {Mem(s, 3, 14, 4, 4, FALSE, 8) : s \in sizes}
Labelled(sizes) ==
  {Mem(s, b, x, 1, d, TRUE, 8) : s \in sizes, b \in {Rip, 3, None}, x \in {None, 1}, d \in {0, 9, -3}}
Addr32s == {Mem("d", b, x, k, d, FALSE, 4) : b \in {None, Rip, 0, 4, 5, 12, 13},
              x \in {None, 1, 4, 12}, k \in {1, 4}, d \in {0, -1, 200}}
Absolute(sizes) ==
  {Mem(s, None, None, 1, d, FALSE, 8) : s \in sizes, d \in Disps \cup Far}
  \cup {Mem(s, 3, None, 1, d, FALSE, 8) : s \in sizes, d \in Far}
Constants == {Imm(v) : v \in Values}
MemSizes == {None, "b", "w", "d", "q"}

\* insn is one of the names with two operands of xs and ys.
Two(names, xs, ys) == \E n \in names, x \in xs, y \in ys : insn = Insn(n, <<x, y>>)
One(name, xs) == \E x \in xs : insn = Insn(name, <<x>>) \/ insn = Short(name, x)

X64Chosen ==
  \/ Two({"mov", "cmp", "xchg", "imul", "movzx", "crc32"}, Regs, Regs)
  \/ Two({"test", "add", "lea"}, FewRegs, FewRegs)
  \/ Two({"add", "test", "xchg", "imul", "movzx", "crc32", "lea"}, FewRegs, Simple(MemSizes))
  \/ Two({"add", "mov", "test", "xchg"}, Simple(MemSizes), FewRegs)
  \/ Two({"mov"}, {Reg("q", 9)}, Addresses64({None}, {None} \cup 0 .. 15))
  \/ Two({"add"}, Addresses64({"w"}, {None, 4, 12}), {Imm(5), Imm(300)})
  \/ Two({"lea"}, {Reg("d", 0)}, Addr32s)
  \/ Two({"mov", "mov64"}, {Reg("q", 0), Reg("b", 0), HighReg(4), Reg("q", 3)},
         Absolute({None, "q", "b"}))
  \/ Two({"mov64"}, Absolute({None, "q", "w"}), {Reg("q", 0), Reg("w", 0), Reg("w", 8)})
  \/ Two({"mov", "add", "cmp", "test", "imul", "shl", "mov64"}, FewRegs, Constants)
  \/ Two({"mov", "cmp", "test", "sar"}, Simple(MemSizes) \cup Labelled(MemSizes), Constants)
  \/ Two({"shl", "sar"}, FewRegs \cup Simple(MemSizes), {Reg("b", 1), Imm(1), Imm(3)})
  \/ Two({"mov", "mov64", "add"}, FewRegs \cup Simple({"q"}), {Label})
  \/ One("push", FewRegs \cup Simple(MemSizes) \cup Constants)
  \/ One("jmp", {Label} \cup FewRegs \cup Simple({None, "q", "d"}) \cup Labelled({"q"}))
  \/ One("je", {Label})
  \/ \E x \in FewRegs, y \in FewRegs \cup Labelled({"d"}), v \in {1, 127, 128, 2^16 - 1} :
       insn = Insn("imul3", <<x, y, Imm(v)>>)
  \/ \E x \in Vectors, y \in Vectors,
       z \in Vectors \cup {Mem(None, 3, 4, 2, 0, FALSE, 8), Mem("y", 13, 9, 2, 0, FALSE, 8)} :
       insn = Insn("vaddps", <<x, y, z>>)
  \/ \E x \in {Reg("o", 2), Reg("o", 9)}, y \in Vectors, z \in Vectors,
       r \in {Reg("o", 14), Reg("o", 1)} :
       insn = Insn("vblendvps", <<x, y, z, r>>)
=============================================================================
