------------------------------ MODULE MCImages ------------------------------
(* Two instances of Link in one for TLC: sections of any alignment, protection *)
(* and nesting with their slots, whose layout is asked for, and fields on      *)
(* labels, on externs and on their slots, which are linked.                    *)
EXTENDS MCLink

CONSTANTS
  FieldSize,     \* bound on a section of the second instance
  LayoutSizes,   \* sizes of code and data in the first instance
  LayoutExterns, \* the externs of the first instance
  FieldExterns   \* and of the second

VARIABLE instance

SlotLabels(a) == {slots[a][n] : n \in ExtNames} \ {NoLabel}
TargetsIn(a) == UNION {{p.target : p \in ToSet(sec[a][s].patches)} : s \in SectionNames}

\* No label and no patch but those of slots; code is the plain section it
\* starts as.
SlotsOnly ==
  /\ images = <<>> /\ made = UNION {SlotLabels(a) : a \in Asms}
  /\ \A a \in Asms :
       /\ named[a] = <<>> /\ TargetsIn(a) \subseteq LayoutExterns
       /\ \A s \in SectionNames \ {"externs"} : sec[a][s].patches = <<>>
       /\ Len(sec[a]["externs"].patches) = Cardinality(SlotLabels(a))
       /\ ~sec[a]["code"].writable /\ sec[a]["code"].align = DefaultAlign
       /\ sec[a]["code"].size \in LayoutSizes /\ sec[a]["data"].size \in LayoutSizes

\* A patch of a section, in code that nobody leaves.
FieldsOnly ==
  \A a \in Asms :
    /\ cur[a] = "code" /\ switches[a] = <<>> /\ TargetsIn(a) \subseteq LabelIds \cup FieldExterns
    /\ ToSet(order[a]) \subseteq {"code", "externs"}
    /\ \A s \in SectionNames :
         /\ sec[a][s].size <= FieldSize /\ Len(sec[a][s].patches) <= 1
         /\ sec[a][s].align = DefaultAlign \/ (s = "externs" /\ sec[a][s].align = SlotSize)
         /\ ~sec[a][s].writable

ImagesInit == LinkInit /\ instance \in {"layout", "fields"}

ImagesNext ==
  /\ LinkNext
  /\ UNCHANGED instance
  /\ IF instance = "layout" THEN SlotsOnly' ELSE FieldsOnly'

ImagesSpec == ImagesInit /\ [][ImagesNext]_<<linkVars, instance>>
=============================================================================
