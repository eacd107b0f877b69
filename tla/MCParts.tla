------------------------------ MODULE MCParts -------------------------------
(* The parts of the library that share no state with an assembler, for TLC: *)
(* a behaviour is of one of them, the others stay where they start.          *)
EXTENDS PatchKinds, Immediates, MCX64, Context, MCHeader, HeaderText, CHeader, TLC

VARIABLE part

MCKinds ==
  {AbsKind(1, 4), RelKind(1, 4, 0), RelKind(1, 4, 2),
   Aarch64Branch(3), LoongarchBranch(4), RiscvBranch(5),
   AdrKind(1, 5), AdrKind(8, 3),
   PcrelKind(8, 3), PcalaKind(8, 3), Call36Kind(16, 2)}
MCPlaces == {64, 68, 71}
MCAddresses == -20 .. 150
MCParts == <<2, 3, 3, 2>>

Symmetry == Permutations(Asms) \cup Permutations(TypedefNames)

Only(p) ==
  /\ part = p
  /\ p # "patch" => patch = NoPatch /\ field = NotYet
  /\ p # "immediate" => operand = NoOperand /\ code = NotDone
  /\ p # "x64" => insn = NoInsn /\ X64Init
  /\ p # "constant" => cexpr = NoExpr
  /\ p # "text" => decls = <<>> /\ spans = <<>> /\ braces = <<>> /\ attrs = <<>>
  /\ p # "header" => HeaderInit /\ lost = {}
  /\ ContextInit /\ cvalue = NotEvaluated

Init ==
  \/ Only("patch") /\ PatchInit
  \/ Only("immediate") /\ ImmInit
  \/ Only("x64") /\ X64Chosen /\ X64Init
  \/ Only("context")
  \/ Only("constant") /\ cexpr \in CExprs
  \/ Only("text") /\ TextInit
  \/ Only("header") /\ HeaderInit

Others(p) ==
  /\ part = p
  /\ UNCHANGED part
  /\ p # "patch" => UNCHANGED patchVars
  /\ p # "immediate" => UNCHANGED immVars
  /\ p # "x64" => UNCHANGED x64Vars
  /\ p # "context" => UNCHANGED contextVars
  /\ p # "constant" => UNCHANGED cVars
  /\ p # "text" => UNCHANGED textVars
  /\ p # "header" => UNCHANGED headerVars

Next ==
  \/ Others("patch") /\ Apply
  \/ Others("immediate") /\ ImmNext
  \/ Others("x64") /\ EncodeInsn
  \/ Others("context") /\ ContextNext
  \/ Others("constant") /\ EvaluateConst
  \/ Others("text") /\ TextNext
  \/ Others("header") /\ HeaderNext

Spec == Init /\ [][Next]_<<part, patchVars, immVars, x64Vars, contextVars, cVars, textVars, headerVars>>
=============================================================================
