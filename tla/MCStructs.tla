------------------------------ MODULE MCStructs ------------------------------
(* A family of ctypes types and bases for Structs.                          *)
EXTENDS Structs, TLC

Of(kind, size, plain, elem, length, fields) ==
  [kind |-> kind, size |-> size, plain |-> plain, elem |-> elem, length |-> length, fields |-> fields]
Scalar(size) == Of("scalar", size, TRUE, "", 0, <<>>)
Array(elem, esize, length) == Of("array", esize * length, TRUE, elem, length, <<>>)
Struct(size, fields) == Of("struct", size, TRUE, "", 0, fields)
F_(at, t) == [at |-> at, ctype |-> t, bits |-> FALSE]

MCCtypes ==
  [char |-> Scalar(1), short |-> Scalar(2), int |-> Scalar(4), double |-> Scalar(8),
   ldouble |-> Of("scalar", 16, FALSE, "", 0, <<>>),
   beint |-> Of("scalar", 4, FALSE, "", 0, <<>>),
   chars |-> Array("char", 1, 3), ints |-> Array("int", 4, 3), doubles |-> Array("double", 8, 2),
   flexible |-> Array("int", 4, 0),
   empty |-> Struct(0, <<>>), empties |-> Array("empty", 0, 2),
   pair |-> Struct(8, [a |-> F_(0, "int"), b |-> F_(4, "int")]),
   pairs |-> Array("pair", 8, 2),
   triples |-> Array("chars", 3, 2), matrix |-> Array("ints", 12, 2),
   node |-> Struct(48, [c |-> F_(0, "char"), bit |-> [F_(0, "int") EXCEPT !.bits = TRUE],
                        v |-> F_(4, "ints"), p |-> F_(16, "pairs"), s |-> F_(32, "chars"),
                        be |-> F_(36, "beint"), rest |-> F_(48, "flexible")]),
   cells |-> Struct(16, [row |-> F_(0, "pairs"), ld |-> F_(0, "ldouble")]),
   table |-> Array("cells", 16, 2)]

MCRegFiles ==
  {[t0 |-> 100 + 13 * k, t1 |-> <<0, 1, 5, 31, 37, 1023>>[k], t2 |-> 77 * k, rsp |-> 501 + k * k,
    rip |-> 300 + 7 * k] : k \in 1 .. 6}
  \cup {OneAt(r) : r \in AddressRegs \cup {Absent}}

BaseOf(addr) == [addr |-> addr, size |-> Absent, mode |-> "offset"]
PlainBases == {BaseOf(BaseAt("t0", 0)), BaseOf(BaseAt("t0", -8)), [BaseOf(BaseAt("t0", 0)) EXCEPT !.size = 4]}
MCGiven ==
  [x64 |-> PlainBases \cup {BaseOf(BaseAt(b, 16)) : b \in {"rip", "rsp", Absent}}
           \cup {BaseOf(AtIndex("t0", "t2", "none", 2)), BaseOf(AtIndex(Absent, "t2", "none", 8))},
   aarch64 |-> PlainBases \cup {[BaseOf(BaseAt("t0", 8)) EXCEPT !.mode = "post"],
                           BaseOf(AtIndex("t0", "t2", "lsl", 4)), BaseOf(AtIndex("t0", "t2", "none", 1))},
   riscv64 |-> PlainBases,
   loongarch64 |-> PlainBases \cup {BaseOf(AtIndex("t0", "t2", "none", 1))}]

Indexing(reg, part, how, amount) == [reg |-> reg, part |-> part, how |-> how, amount |-> amount]
PlainIndexes == {Indexing(r, "x", "none", Absent) : r \in {"t0", "t1"}} \cup {Indexing("t1", "f", "none", Absent)}
MCIndexRegs ==
  [x64 |-> PlainIndexes \cup {Indexing("rsp", "x", "none", Absent)},
   aarch64 |-> PlainIndexes \cup {Indexing("t1", "w", "none", Absent)}
               \cup {Indexing("t1", p, h, n) : p \in {"x", "w"}, h \in {"uxtw", "sxtw", "sxtx"},
                                               n \in {Absent, 0, 2, 3}}
               \cup {Indexing("t1", "x", "lsl", n) : n \in {0, 2, 3}},
   riscv64 |-> PlainIndexes, loongarch64 |-> PlainIndexes]
=============================================================================
