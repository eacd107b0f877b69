------------------------------ MODULE MCLabels -------------------------------
(* Two instances of Link in one for TLC: names and labels of one section that *)
(* are bound, and a few labels of two sections that are linked as well.       *)
EXTENDS MCLink

CONSTANT FewLabels

VARIABLE instance

LabelsInit == LinkInit /\ instance \in {"names", "images"}

LabelsNext ==
  /\ LinkNext
  /\ UNCHANGED instance
  /\ instance = "names" => images' = <<>> /\ \A a \in Asms : order'[a] = <<"code">>
  /\ instance = "images" =>
       made' \subseteq FewLabels /\ insn' = Idle /\ \A l \in made' : label'[l].name = NoName

LabelsSpec == LabelsInit /\ [][LabelsNext]_<<linkVars, instance>>
BothSymmetries == Permutations(Asms) \cup Permutations(Names)
=============================================================================
