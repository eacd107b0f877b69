------------------------------ MODULE ImageSpec ------------------------------
(***************************************************************************)
(* What linking promises about labels, whatever the layout: an image        *)
(* answers, for ever, with the places its labels had when it was linked.    *)
(* A label is defined once; an image answers for exactly the labels that    *)
(* were defined in its assembler by then ("labels bound after linking are   *)
(* detected"), keeps the labels of one section at their distance, and never *)
(* changes its answer.                                                      *)
(***************************************************************************)
EXTENDS Integers, Sequences

CONSTANTS Asms, LabelIds, Place, Nowhere, Failed

VARIABLES
  places,   \* [label] -> a place (an assembler, a section, an offset) or Nowhere
  answers   \* the images in link order: [label] -> its address, or Failed

Init ==
  /\ places = [l \in LabelIds |-> Nowhere]
  /\ answers = <<>>

Define(l) ==
  /\ places[l] = Nowhere
  /\ places'[l] \in Place
  /\ places' = [places EXCEPT ![l] = places'[l]]
  /\ UNCHANGED answers

\* x is a snapshot of the labels of assembler a.
Snapshot(a, x) ==
  LET mine == {l \in LabelIds : places[l] # Nowhere /\ places[l].asm = a}
  IN  /\ \A l \in LabelIds : l \notin mine => x[l] = Failed
      /\ \A l \in mine : x[l] \in Nat
      /\ \A l, m \in mine : places[l].sec = places[m].sec =>
           x[l] - x[m] = places[l].off - places[m].off

Link(a) ==
  /\ Len(answers') = Len(answers) + 1
  /\ answers' = Append(answers, answers'[Len(answers) + 1])
  /\ Snapshot(a, answers'[Len(answers) + 1])
  /\ UNCHANGED places

Next == (\E l \in LabelIds : Define(l)) \/ (\E a \in Asms : Link(a))

Spec == Init /\ [][Next]_<<places, answers>>
=============================================================================
