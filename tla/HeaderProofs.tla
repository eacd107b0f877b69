---------------------------- MODULE HeaderProofs -----------------------------
(* Proofs about the converter of C headers, for any names and any depth,     *)
(* about the text that is parsed, for any declarations, and about constant   *)
(* expressions, for any nesting and any widths of the C types.               *)
EXTENDS CHeader, HeaderText, CConst, CoreProofs

-----------------------------------------------------------------------------
(* The inductive invariant                                                  *)

Causes == Names \cup {Nameless}
Frames == [cls : Classes \cup {Nameless}, via : {"value", "pointer", "tag"}]

\* The targets of typedefs are classes, and what is declared is new.
TypedefsOK ==
  \A n \in TypedefNames :
    typedefs[n] \in {Unset, Plain} \cup {ClassOf(c) : c \in Classes} \cup {Bad(r) : r \in Causes}
DeclaredOK ==
  ext # Unset =>
    /\ ext.form \in Forms /\ ext.name \in TypedefNames \cup FuncNames \cup {Unset}
    /\ ext.def \in Classes \cup {Nameless}
    /\ ext.form = "typedef" => ext.def \in Classes
    /\ ext.name \in TypedefNames => typedefs[ext.name] = Unset

OnStack(c) == \E i \in 1 .. Len(stack) : stack[i].cls = c

\* A class whose body is open is open once, has no fields and did not fail.
OpenedOK ==
  \A i \in 1 .. Len(stack) : stack[i].cls # Nameless =>
    /\ stack[i].cls \in definitions
    /\ failed[stack[i].cls] = Unset /\ stack[i].cls \notin completed
    /\ \A j \in 1 .. Len(stack) : stack[i].cls = stack[j].cls => i = j

\* A class that is defined has fields, or failed and was reported, or is open.
DefinedOK ==
  /\ completed \subseteq definitions
  /\ \A c \in Classes : failed[c] # Unset => c \in definitions /\ c \in skipped
  /\ \A c \in definitions : c \in completed \/ failed[c] # Unset \/ OnStack(c)

BoundOK ==
  \A n \in TypedefNames : typedefs[n] # Unset =>
    IF typedefs[n].kind = "bad" THEN n \in skipped ELSE n \in ns

\* A function that was declared is bound or skipped, or its declaration has
\* not ended.
FunctionsOK ==
  \A f \in functions : f \in ns \cup skipped \/ (ext # Unset /\ ext.name = f)

UsesOK == \A c \in Classes : uses[c] \subseteq completed

\* A definition of an enum is converted, or fails, when the header gives it.
EnumsOK ==
  \A e \in EnumTags :
    /\ failedEnums[e] \in {Unset, e}
    /\ enums[e] # Unset => enums[e] = meant[e]
    /\ failedEnums[e] # Unset => meant[e] # Unset
WrongOK ==
  \A c \in Classes : \A e \in wrong[c] :
    meant[e] = "wide" /\ enums[e] = Unset /\ failedEnums[e] = Unset

\* Whatever is blamed, by an exception on its way too, is at fault.
Faults == {x \in Causes : AtFault(x)}
BlamesOK ==
  /\ \A c \in Classes : failed[c] # Unset => failed[c] \in Faults
  /\ \A n \in TypedefNames, r \in Causes : typedefs[n] = Bad(r) => r \in Faults
  /\ exc \notin {Fine, Own} => exc \in Faults

Typed == HeaderTypeOK /\ TypedefsOK /\ DeclaredOK
HeaderInv ==
  /\ Typed /\ OpenedOK /\ DefinedOK /\ BoundOK /\ FunctionsOK
  /\ UsesOK /\ EnumsOK /\ WrongOK /\ BlamesOK

LEMMA Constants ==
  /\ Unset \notin Causes /\ Fine \notin Causes /\ Own \notin Causes
  /\ Fine # Own /\ Unset \notin {Fine, Own}
  /\ Classes \subseteq Names /\ EnumTags \subseteq Names /\ Nameless \notin Names
  /\ Tags \cap TypedefNames = {} /\ FuncNames \cap TypedefNames = {}
  /\ Unset \notin {"int", "wide"}
  /\ Unset # Plain /\ \A r \in Causes : Bad(r) # Unset /\ ClassOf(r) # Unset
BY HeaderAssumption DEF Causes, Names, Classes, Plain, Bad, ClassOf

LEMMA TypedefKinds ==
  ASSUME TypedefsOK, NEW n \in TypedefNames, typedefs[n] # Unset
  PROVE  /\ typedefs[n].kind = "bad" =>
              typedefs[n].of \in Causes /\ typedefs[n] = Bad(typedefs[n].of)
         /\ typedefs[n].kind = "class" =>
              typedefs[n].of \in Classes /\ typedefs[n] = ClassOf(typedefs[n].of)
         /\ typedefs[n].kind \notin {"bad", "class"} => typedefs[n] = Plain
         /\ typedefs[n] = Plain => typedefs[n].kind = "plain"
BY DEF TypedefsOK, Plain, Bad, ClassOf

\* What a use of a class raises.
LEMMA Completeness ==
  ASSUME Typed, NEW c \in Classes
  PROVE  /\ CompletenessOf(c) \in Causes \cup {Fine, Own}
         /\ CompletenessOf(c) = Fine <=> c \in completed
         /\ CompletenessOf(c) \in Causes => failed[c] = CompletenessOf(c) \/ (c \in lost /\ CompletenessOf(c) = c)
BY Constants DEF Typed, HeaderTypeOK, CompletenessOf, Causes

LEMMA HeaderInvInit == HeaderInit => HeaderInv
<1> SUFFICES ASSUME HeaderInit PROVE HeaderInv
  OBVIOUS
<1>1. Typed
  <2>1. HeaderTypeOK
    BY Constants DEF HeaderInit, HeaderTypeOK, Causes
  <2>2. TypedefsOK /\ DeclaredOK
    BY DEF HeaderInit, TypedefsOK, DeclaredOK
  <2>3. QED
    BY <2>1, <2>2 DEF Typed
<1>2. OpenedOK /\ DefinedOK /\ BoundOK /\ FunctionsOK
  BY DEF HeaderInit, OpenedOK, DefinedOK, BoundOK, FunctionsOK
<1>3. UsesOK /\ EnumsOK /\ WrongOK /\ BlamesOK
  BY Constants DEF HeaderInit, UsesOK, EnumsOK, WrongOK, BlamesOK
<1>4. QED
  BY <1>1, <1>2, <1>3 DEF HeaderInv

-----------------------------------------------------------------------------
(* Which steps touch which state                                            *)

\* The bodies: what is defined, and what became of it.
BodyState == <<definitions, completed, failed, stack>>

Opens ==
  \E c \in Classes \cup {Nameless}, via \in {"value", "pointer", "tag"} :
    /\ OpenBody(c, via)
    /\ UNCHANGED <<completed, failed, enumVars, typedefs, skipped, lost, exc, useVars>>
Redefines == \E c \in Tags, same \in BOOLEAN : Redefine(c, same)
Leaves == \E es \in SUBSET EnumTags : LeaveBody(es)

\* The members that are no body.
Uses ==
  \/ \E c \in Tags : FieldOfClass(c)
  \/ \E n \in TypedefNames : FieldOfTypedef(n)
  \/ \E e \in EnumTags : FieldOfEnum(e)

LEMMA BodySteps ==
  ASSUME HeaderInv, HeaderNext
  PROVE  \/ /\ UNCHANGED BodyState /\ skipped \subseteq skipped'
         \/ Opens \/ Redefines \/ CloseBody \/ CloseRejected \/ Leaves \/ DeclarationFailed
<1> USE DEF BodyState
<1>1. CASE \E c \in Tags : Mention(c)
  BY <1>1 DEF Mention
<1>2. CASE Redefines
  BY <1>2
<1>3. CASE Uses \/ FieldUnsupported
  BY <1>3 DEF Uses, FieldOfClass, FieldOfTypedef, FieldOfEnum, FieldUnsupported
<1>4. CASE \E c \in Tags \cup {Nameless}, via \in {"value", "pointer", "tag"} : FieldBody(c, via)
  BY <1>4 DEF FieldBody, Opens, Classes
<1>5. CASE \E e \in EnumTags, width \in {"int", "wide"}, ok \in BOOLEAN : FieldEnumBody(e, width, ok)
  BY <1>5 DEF FieldEnumBody
<1>6. CASE Typedef
  BY <1>6 DEF Typedef, TypedefOfClass, TypedefOfArray, TypedefOfTypedef, TypedefOfEnum,
              TypedefUnsupported, BindTypedef, UnchangedByName
<1>7. CASE \E f \in FuncNames, c \in Tags : Function(f, c)
  BY <1>7 DEF Function
<1>8. CASE \E e \in EnumTags, width \in {"int", "wide"}, ok \in BOOLEAN, n \in TypedefNames \cup {Unset} :
             EnumBody(e, width, ok, n)
  BY <1>8 DEF EnumBody
<1>9. CASE \E e \in EnumTags : EnumLost(e)
  BY <1>9 DEF EnumLost
<1>10. CASE \E form \in Forms, name \in TypedefNames \cup FuncNames \cup {Unset},
              c \in Classes \cup {Nameless} : DeclareBody(form, name, c)
  BY <1>10 DEF DeclareBody, Opens, ViaOf
<1>11. CASE \E form \in Forms, name \in TypedefNames \cup FuncNames \cup {Unset},
              c \in Classes \cup {Nameless}, es \in SUBSET EnumTags :
              DeclareUnsupported(form, name, c, es)
  BY <1>11 DEF DeclareUnsupported
<1>12. CASE EndDeclaration
  BY <1>12 DEF EndDeclaration
<1>13. QED
  BY <1>1, <1>2, <1>3, <1>4, <1>5, <1>6, <1>7, <1>8, <1>9, <1>10, <1>11, <1>12
     DEF HeaderNext, Body, Declaration, Redefines, Leaves, Uses, Forms

LEMMA StackTypes ==
  ASSUME HeaderInv
  PROVE  /\ stack \in Seq(Frames) /\ Len(stack) \in Nat
         /\ stack = <<>> <=> Len(stack) = 0
         /\ \A i \in 1 .. Len(stack) : stack[i].cls \in Classes \cup {Nameless}
<1>1. stack \in Seq(Frames)
  BY DEF HeaderInv, Typed, HeaderTypeOK, Frames
<1>2. \A f \in Frames : f.cls \in Classes \cup {Nameless}
  BY DEF Frames
<1>3. QED
  BY <1>1, <1>2, EmptySeq, LenProperties, ElementOfSeq

LEMMA Pushed ==
  ASSUME HeaderInv, NEW c \in Classes \cup {Nameless}, NEW via \in {"value", "pointer", "tag"},
         OpenBody(c, via)
  PROVE  /\ stack' \in Seq(Frames) /\ Len(stack') = Len(stack) + 1
         /\ \A i \in 1 .. Len(stack) : stack'[i] = stack[i]
         /\ stack'[Len(stack) + 1].cls = c
<1>1. Frame(c, via) \in Frames /\ Frame(c, via).cls = c
  BY DEF Frame, Frames
<1>2. QED
  BY <1>1, StackTypes, AppendProperties DEF OpenBody

LEMMA Popped ==
  ASSUME HeaderInv, stack # <<>>
  PROVE  /\ Below \in Seq(Frames) /\ Len(Below) = Len(stack) - 1
         /\ \A i \in 1 .. Len(stack) - 1 : Below[i] = stack[i]
         /\ Len(stack) \in 1 .. Len(stack)
         /\ Top \in Frames /\ Top.cls \in Classes \cup {Nameless}
<1>1. /\ stack \in Seq(Frames) /\ Len(stack) \in Nat /\ Len(stack) # 0
      /\ \A i \in 1 .. Len(stack) : stack[i] \in Frames
  BY StackTypes, ElementOfSeq
<1>2. /\ Below \in Seq(Frames) /\ Len(Below) = Len(stack) - 1
      /\ \A i \in 1 .. Len(stack) - 1 : Below[i] = stack[i]
  <2> DEFINE n == Len(stack) - 1
  <2>1. 1 \in Int /\ n \in Nat /\ \A i \in 1 .. n : stack[i] \in Frames
    BY <1>1
  <2>2. Below = SubSeq(stack, 1, n)
    BY DEF Below
  <2> HIDE DEF n
  <2>3. /\ Below \in Seq(Frames) /\ Len(Below) = IF 1 <= n THEN n - 1 + 1 ELSE 0
        /\ \A i \in 1 .. n - 1 + 1 : Below[i] = stack[1 + i - 1]
    BY <2>1, <2>2, SubSeqProperties
  <2>4. Len(Below) = n
    BY <2>1, <2>3
  <2>5. ASSUME NEW i \in 1 .. n PROVE Below[i] = stack[i]
    <3>1. i \in 1 .. n - 1 + 1 /\ 1 + i - 1 = i
      BY <2>1
    <3>2. Below[i] = stack[1 + i - 1]
      BY <2>3, <3>1
    <3>3. QED
      BY <3>1, <3>2
  <2>6. QED
    BY <2>3, <2>4, <2>5 DEF n
<1>3. Top \in Frames
  BY <1>1 DEF Top
<1>4. QED
  BY <1>1, <1>2, <1>3 DEF Frames

-----------------------------------------------------------------------------
(* Bodies                                                                   *)

LEMMA OpenedNext ==
  ASSUME HeaderInv, HeaderNext
  PROVE  OpenedOK'
<1> USE StackTypes
<1>1. OpenedOK /\ DefinedOK
  BY DEF HeaderInv
<1>2. CASE UNCHANGED BodyState
  BY <1>1, <1>2 DEF OpenedOK, BodyState
<1>3. CASE Opens
  <2> PICK c \in Classes \cup {Nameless}, via \in {"value", "pointer", "tag"} :
        /\ OpenBody(c, via)
        /\ UNCHANGED <<completed, failed, enumVars, typedefs, skipped, lost, exc, useVars>>
    BY <1>3 DEF Opens
  <2>1. /\ Len(stack') = Len(stack) + 1 /\ stack'[Len(stack) + 1].cls = c
        /\ \A i \in 1 .. Len(stack) : stack'[i] = stack[i]
        /\ definitions' = definitions \cup ({c} \ {Nameless})
        /\ c # Nameless => c \notin definitions
    BY Pushed DEF OpenBody, FirstSight
  <2>2. c # Nameless => failed[c] = Unset /\ c \notin completed
    BY <1>1, <2>1 DEF DefinedOK
  <2>3. \A i \in 1 .. Len(stack') : i \in 1 .. Len(stack) \/ i = Len(stack) + 1
    BY <2>1
  <2>4. ASSUME NEW i \in 1 .. Len(stack'), stack'[i].cls # Nameless
        PROVE  /\ stack'[i].cls \in definitions'
               /\ failed'[stack'[i].cls] = Unset /\ stack'[i].cls \notin completed'
               /\ \A j \in 1 .. Len(stack') : stack'[i].cls = stack'[j].cls => i = j
    <3>1. CASE i \in 1 .. Len(stack)
      <4>1. stack[i].cls \in definitions /\ stack[i].cls # c
        BY <1>1, <2>1, <2>4, <3>1 DEF OpenedOK
      <4>2. QED
        BY <1>1, <2>1, <2>3, <2>4, <3>1, <4>1 DEF OpenedOK
    <3>2. CASE i = Len(stack) + 1
      <4>1. \A j \in 1 .. Len(stack) : stack[j].cls # c
        BY <1>1, <2>1, <2>4, <3>2 DEF OpenedOK
      <4>2. QED
        BY <2>1, <2>2, <2>3, <2>4, <3>2, <4>1
    <3>3. QED
      BY <2>3, <3>1, <3>2
  <2>5. QED
    BY <2>4 DEF OpenedOK
<1>4. failed \in [Classes -> Causes \cup {Unset}]
  BY DEF HeaderInv, Typed, HeaderTypeOK, Causes
<1>5. CASE Redefines
  <2>1. PICK c \in Tags, same \in BOOLEAN : Redefine(c, same)
    BY <1>5 DEF Redefines
  <2>2. /\ UNCHANGED <<definitions, completed, stack>>
        /\ \A i \in 1 .. Len(stack) : stack[i].cls # c
        /\ \A x \in Classes : x # c => failed'[x] = failed[x]
    BY <1>4, <2>1 DEF Redefine
  <2>3. QED
    BY <1>1, <2>2 DEF OpenedOK
<1>6. ASSUME stack # <<>>, stack' = Below, definitions' = definitions,
             \A c \in Classes : c # Top.cls =>
               failed'[c] = failed[c] /\ (c \in completed' => c \in completed)
      PROVE  OpenedOK'
  <2>1. /\ Len(stack') = Len(stack) - 1
        /\ \A i \in 1 .. Len(stack') : i \in 1 .. Len(stack) /\ i # Len(stack) /\ stack'[i] = stack[i]
        /\ Len(stack) \in 1 .. Len(stack) /\ Top = stack[Len(stack)]
    BY <1>6, Popped DEF Top
  <2>2. \A i \in 1 .. Len(stack') : stack'[i].cls # Nameless => stack'[i].cls # Top.cls
    BY <1>1, <2>1 DEF OpenedOK
  <2>3. ASSUME NEW i \in 1 .. Len(stack'), stack'[i].cls # Nameless
        PROVE  /\ stack'[i].cls \in definitions'
               /\ failed'[stack'[i].cls] = Unset /\ stack'[i].cls \notin completed'
               /\ \A j \in 1 .. Len(stack') : stack'[i].cls = stack'[j].cls => i = j
    <3>1. /\ i \in 1 .. Len(stack) /\ stack'[i] = stack[i]
          /\ stack[i].cls \in Classes /\ stack[i].cls # Top.cls
      BY <2>1, <2>2, <2>3
    <3>2. /\ stack[i].cls \in definitions
          /\ failed[stack[i].cls] = Unset /\ stack[i].cls \notin completed
          /\ \A j \in 1 .. Len(stack) : stack[i].cls = stack[j].cls => i = j
      BY <1>1, <2>3, <3>1 DEF OpenedOK
    <3>3. QED
      BY <1>6, <2>1, <3>1, <3>2
  <2>4. QED
    BY <2>3 DEF OpenedOK
<1>7. CASE CloseBody
  <2>1. \A c \in Classes : c # Top.cls =>
          failed'[c] = failed[c] /\ (c \in completed' => c \in completed)
    BY <1>7 DEF CloseBody
  <2>2. QED
    BY <1>6, <1>7, <2>1 DEF CloseBody, InBody
<1>8. CASE CloseRejected
  <2>1. \A c \in Classes : c # Top.cls =>
          failed'[c] = failed[c] /\ (c \in completed' => c \in completed)
    BY <1>4, <1>8 DEF CloseRejected
  <2>2. QED
    BY <1>6, <1>8, <2>1 DEF CloseRejected, InBody
<1>9. CASE Leaves
  <2>1. \A c \in Classes : c # Top.cls =>
          failed'[c] = failed[c] /\ (c \in completed' => c \in completed)
    BY <1>4, <1>9 DEF Leaves, LeaveBody
  <2>2. QED
    BY <1>6, <1>9, <2>1 DEF Leaves, LeaveBody
<1>10. CASE DeclarationFailed
  BY <1>10 DEF DeclarationFailed, OpenedOK
<1>11. QED
  BY <1>2, <1>3, <1>5, <1>7, <1>8, <1>9, <1>10, BodySteps

\* What an exception makes a class fail for.
LEMMA BlameTypes ==
  ASSUME HeaderInv, exc # Fine, NEW x \in Causes
  PROVE  Blame(x) \in Causes /\ Blame(x) # Unset
BY Constants DEF HeaderInv, Typed, HeaderTypeOK, Blame, Causes

LEMMA DefinedNext ==
  ASSUME HeaderInv, HeaderNext
  PROVE  DefinedOK'
<1> USE StackTypes
<1>1. OpenedOK /\ DefinedOK
  BY DEF HeaderInv
<1>2. /\ failed \in [Classes -> Causes \cup {Unset}]
      /\ definitions \subseteq Classes /\ completed \subseteq Classes
      /\ Unset \notin Classes /\ Classes \subseteq Causes /\ Nameless \in Causes
  BY Constants DEF HeaderInv, Typed, HeaderTypeOK, Causes
<1>3. CASE UNCHANGED BodyState /\ skipped \subseteq skipped'
  BY <1>1, <1>3 DEF DefinedOK, BodyState, OnStack
<1>4. CASE Opens
  <2> PICK c \in Classes \cup {Nameless}, via \in {"value", "pointer", "tag"} :
        /\ OpenBody(c, via)
        /\ UNCHANGED <<completed, failed, enumVars, typedefs, skipped, lost, exc, useVars>>
    BY <1>4 DEF Opens
  <2>1. /\ Len(stack') = Len(stack) + 1 /\ stack'[Len(stack) + 1].cls = c
        /\ \A i \in 1 .. Len(stack) : stack'[i] = stack[i]
        /\ definitions' = definitions \cup ({c} \ {Nameless})
    BY Pushed DEF OpenBody
  <2>2. OnStack(c)' /\ \A x : OnStack(x) => OnStack(x)'
    BY <2>1 DEF OnStack
  <2>3. QED
    BY <1>1, <2>1, <2>2 DEF DefinedOK
<1>5. CASE Redefines
  BY <1>1, <1>2, <1>5 DEF Redefines, Redefine, DefinedOK, OnStack, Classes
<1>6. ASSUME stack # <<>>, stack' = Below,
             NEW x, OnStack(x), x # Top.cls
      PROVE  OnStack(x)'
  <2>1. /\ Len(Below) = Len(stack) - 1
        /\ \A i \in 1 .. Len(stack) - 1 : Below[i] = stack[i]
        /\ Top = stack[Len(stack)]
    BY <1>6, Popped DEF Top
  <2>2. PICK i \in 1 .. Len(stack) : stack[i].cls = x
    BY <1>6 DEF OnStack
  <2>3. i \in 1 .. Len(stack) - 1
    BY <1>6, <2>1, <2>2
  <2>4. QED
    BY <1>6, <2>1, <2>2, <2>3 DEF OnStack
<1>7. stack # <<>> => Top.cls \in Classes \cup {Nameless} /\ (Top.cls # Nameless => Top.cls \in definitions)
  <2> SUFFICES ASSUME stack # <<>>
               PROVE  Top.cls \in Classes \cup {Nameless} /\ (Top.cls # Nameless => Top.cls \in definitions)
    OBVIOUS
  <2>1. Len(stack) \in 1 .. Len(stack) /\ Top.cls \in Classes \cup {Nameless}
    BY Popped
  <2>2. QED
    BY <1>1, <2>1 DEF OpenedOK, Top
<1>8. CASE CloseBody
  <2>1. /\ stack # <<>> /\ stack' = Below /\ UNCHANGED <<definitions, failed, skipped>>
        /\ completed' = completed \cup ({Top.cls} \ {Nameless})
    BY <1>8 DEF CloseBody, InBody
  <2>2. \A x : OnStack(x) => x = Top.cls \/ OnStack(x)'
    BY <1>6, <2>1
  <2>3. Nameless \notin definitions
    BY <1>2, Constants
  <2>4. QED
    BY <1>1, <1>7, <2>1, <2>2, <2>3 DEF DefinedOK
<1>9. ASSUME stack # <<>>, stack' = Below, UNCHANGED <<definitions, completed>>,
             skipped \subseteq skipped',
             \/ Top.cls = Nameless /\ failed' = failed
             \/ /\ Top.cls # Nameless /\ Top.cls \in skipped'
                /\ \E r \in Causes : failed' = [failed EXCEPT ![Top.cls] = r]
      PROVE  DefinedOK'
  <2>1. \A x : OnStack(x) => x = Top.cls \/ OnStack(x)'
    BY <1>6, <1>9
  <2>2. Nameless \notin definitions /\ Unset \notin Causes
    BY <1>2, Constants
  <2>3. CASE Top.cls = Nameless
    BY <1>1, <1>9, <2>1, <2>2, <2>3 DEF DefinedOK
  <2>4. CASE Top.cls # Nameless
    <3>1. PICK r \in Causes : failed' = [failed EXCEPT ![Top.cls] = r]
      BY <1>9, <2>4
    <3>2. failed'[Top.cls] # Unset /\ \A c \in Classes : c # Top.cls => failed'[c] = failed[c]
      BY <1>2, <1>7, <1>9, <2>2, <2>4, <3>1
    <3>3. QED
      BY <1>1, <1>2, <1>7, <1>9, <2>1, <2>4, <3>2 DEF DefinedOK
  <2>5. QED
    BY <2>3, <2>4
<1>10. CASE CloseRejected
  <2>1. /\ stack # <<>> /\ stack' = Below /\ UNCHANGED <<definitions, completed>>
        /\ skipped \subseteq skipped'
        /\ \/ Top.cls = Nameless /\ failed' = failed
           \/ /\ Top.cls # Nameless /\ Top.cls \in skipped'
              /\ failed' = [failed EXCEPT ![Top.cls] = Top.cls]
    BY <1>10 DEF CloseRejected, InBody
  <2>2. Top.cls \in Causes
    BY <1>2, <1>7, <2>1
  <2>3. QED
    BY <1>9, <2>1, <2>2
<1>11. CASE Leaves
  <2>1. /\ stack # <<>> /\ stack' = Below /\ UNCHANGED <<definitions, completed>>
        /\ skipped \subseteq skipped' /\ exc # Fine
        /\ \/ Top.cls = Nameless /\ failed' = failed
           \/ /\ Top.cls # Nameless /\ Top.cls \in skipped'
              /\ failed' = [failed EXCEPT ![Top.cls] = Blame(Top.cls)]
    BY <1>11 DEF Leaves, LeaveBody
  <2>2. Blame(Top.cls) \in Causes
    BY <1>2, <1>7, <2>1, BlameTypes
  <2>3. QED
    BY <1>9, <2>1, <2>2
<1>12. CASE DeclarationFailed
  <2>1. /\ ext # Unset /\ stack = <<>> /\ exc # Fine /\ stack' = stack
        /\ completed' = completed /\ definitions' = definitions \cup ({ext.def} \ {Nameless})
        /\ failed' = [c \in Classes |->
                        IF c = ext.def /\ c \notin completed /\ failed[c] = Unset
                        THEN Blame(c) ELSE failed[c]]
        /\ skipped' = skipped \cup ({ext.name} \ {Unset}) \cup ({ext.def} \ (completed \cup {Nameless}))
        /\ ext.def \in Classes \cup {Nameless}
    BY <1>12 DEF DeclarationFailed, Reported, HeaderInv, Typed, DeclaredOK
  <2>2. ~ OnStack(ext.def) /\ \A c : ~ OnStack(c)
    BY <2>1 DEF OnStack
  <2>3. \A c \in Classes : Blame(c) # Unset
    BY <1>2, <2>1, BlameTypes
  <2>4. QED
    BY <1>1, <1>2, <2>1, <2>2, <2>3, Constants DEF DefinedOK
<1>13. QED
  BY <1>3, <1>4, <1>5, <1>8, <1>10, <1>11, <1>12, BodySteps

-----------------------------------------------------------------------------
(* Types                                                                    *)

TypedefMeanings == [kind : {"plain", "class", "bad"}, of : Names \cup {Nameless, Unset}]
Values == {Plain} \cup {ClassOf(c) : c \in Classes} \cup {Bad(r) : r \in Causes}

LEMMA Targets ==
  /\ Plain \in TypedefMeanings /\ \A r \in Causes : Bad(r) \in TypedefMeanings /\ ClassOf(r) \in TypedefMeanings
  /\ Unset \notin TypedefMeanings
BY HeaderAssumption DEF TypedefMeanings, Plain, Bad, ClassOf, Causes

LEMMA Used ==
  ASSUME HeaderInv, NEW s, NEW c \in Classes, NEW raises, UseIn(s, c, raises)
  PROVE  uses' \in [Classes -> SUBSET Classes] /\ wrong' \in [Classes -> SUBSET EnumTags]
BY DEF UseIn, HeaderInv, Typed, HeaderTypeOK

\* What a typedef without a body is bound to.
LEMMA Bound ==
  ASSUME HeaderInv, NEW n \in TypedefNames, NEW value \in Values, NEW raises \in Causes \cup {Fine, Own},
         BindTypedef(n, value, raises)
  PROVE  /\ \E v \in Values :
              /\ typedefs' = [typedefs EXCEPT ![n] = v]
              /\ raises = Fine => v = value /\ n \in ns'
              /\ raises # Fine => v = Bad(IF raises = Own THEN n ELSE raises) /\ n \in skipped'
         /\ ns' \in {ns, ns \cup {n}} /\ skipped' \in {skipped, skipped \cup {n}}
<1>1. n \in Causes
  BY DEF Causes, Names
<1>2. CASE raises = Fine
  BY <1>2 DEF BindTypedef
<1>3. CASE raises # Fine
  BY <1>1, <1>3 DEF BindTypedef, Values
<1>4. QED
  BY <1>2, <1>3

LEMMA BoundTypes ==
  ASSUME HeaderInv, NEW n \in TypedefNames, NEW value \in Values, NEW raises \in Causes \cup {Fine, Own},
         typedefs[n] = Unset, Idle,
         BindTypedef(n, value, raises), UnchangedByName
  PROVE  Typed'
<1>1. PICK v \in Values :
        typedefs' = [typedefs EXCEPT ![n] = v]
  BY Bound
<1>2. ns' \subseteq Names /\ skipped' \subseteq Names
  <2>1. ns \subseteq Names /\ skipped \subseteq Names /\ n \in Names
    BY DEF HeaderInv, Typed, HeaderTypeOK, Names
  <2>2. ns' \in {ns, ns \cup {n}} /\ skipped' \in {skipped, skipped \cup {n}}
    BY Bound
  <2>3. QED
    BY <2>1, <2>2
<1>3. v \in TypedefMeanings
  BY Targets, Constants DEF Causes, Values
<1>4. typedefs \in [TypedefNames -> TypedefMeanings \cup {Unset}]
  BY DEF HeaderInv, Typed, HeaderTypeOK, TypedefMeanings
<1>5. typedefs' \in [TypedefNames -> TypedefMeanings \cup {Unset}]
  BY <1>1, <1>3, <1>4
<1>6. HeaderTypeOK'
  BY <1>2, <1>5 DEF HeaderInv, Typed, HeaderTypeOK, UnchangedByName, enumVars, useVars, TypedefMeanings
<1>7. TypedefsOK'
  BY <1>1, <1>4 DEF HeaderInv, Typed, TypedefsOK, Values
<1>8. DeclaredOK'
  BY DEF Idle, UnchangedByName, DeclaredOK
<1>9. QED
  BY <1>6, <1>7, <1>8 DEF Typed

\* What a typedef of what another type is raises.
LEMMA Failures ==
  ASSUME HeaderInv
  PROVE  /\ \A c \in Classes : FailureOf(c) \in Causes \cup {Fine, Own}
         /\ \A c \in Classes : CompletenessOf(c) \in Causes \cup {Fine, Own}
         /\ \A e \in EnumTags : EnumRaises(e) \in Causes \cup {Fine, Own}
<1>1. \A c \in Classes : CompletenessOf(c) \in Causes \cup {Fine, Own}
  BY Completeness DEF HeaderInv
<1>2. QED
  BY <1>1 DEF HeaderInv, Typed, HeaderTypeOK, FailureOf, EnumRaises, Causes

\* A typedef step binds one new name.
LEMMA TypedefSteps ==
  ASSUME HeaderInv, Typedef
  PROVE  /\ Idle /\ UnchangedByName
         /\ \E n \in TypedefNames, value \in Values, raises \in Causes \cup {Fine, Own} :
              /\ typedefs[n] = Unset /\ BindTypedef(n, value, raises)
              /\ raises = Fine => value.kind # "bad"
              /\ \/ raises \in {Fine, Own}
                 \/ \E c \in Classes : raises = FailureOf(c) \/ raises = CompletenessOf(c)
                 \/ \E e \in EnumTags : raises = EnumRaises(e)
                 \/ \E m \in TypedefNames : typedefs[m] = Bad(raises)
<1> USE DEF Values
<1>0. Plain.kind = "plain" /\ \A c : ClassOf(c).kind = "class"
  BY DEF Plain, ClassOf
<1>1. CASE \E n \in TypedefNames, c \in Tags : TypedefOfClass(n, c)
  BY <1>0, <1>1, Failures DEF TypedefOfClass, Classes
<1>2. CASE \E n \in TypedefNames, c \in Tags : TypedefOfArray(n, c)
  BY <1>0, <1>2, Failures DEF TypedefOfArray, Classes
<1>3. CASE \E n, m \in TypedefNames : TypedefOfTypedef(n, m)
  <2> PICK n \in TypedefNames, m \in TypedefNames : TypedefOfTypedef(n, m)
    BY <1>3
  <2>1. typedefs[m] # Unset /\ TypedefsOK
    BY DEF TypedefOfTypedef, HeaderInv, Typed
  <2>2. typedefs[m] \in Values
    BY <2>1 DEF TypedefsOK
  <2>3. CASE typedefs[m].kind = "bad"
    <3>1. typedefs[m].of \in Causes /\ typedefs[m] = Bad(typedefs[m].of)
      BY <2>1, <2>3, TypedefKinds
    <3>2. BindTypedef(n, typedefs[m], typedefs[m].of)
      BY <2>3 DEF TypedefOfTypedef
    <3>3. QED
      BY <2>2, <3>1, <3>2, Constants DEF TypedefOfTypedef
  <2>4. CASE typedefs[m].kind = "class"
    <3>1. typedefs[m].of \in Classes
      BY <2>1, <2>4, TypedefKinds
    <3>2. BindTypedef(n, typedefs[m], FailureOf(typedefs[m].of))
      BY <2>4 DEF TypedefOfTypedef
    <3>3. QED
      BY <2>2, <2>4, <3>1, <3>2, Failures DEF TypedefOfTypedef
  <2>5. CASE typedefs[m].kind \notin {"bad", "class"}
    <3>1. BindTypedef(n, typedefs[m], Fine)
      BY <2>5 DEF TypedefOfTypedef
    <3>2. QED
      BY <2>2, <2>5, <3>1 DEF TypedefOfTypedef
  <2>6. QED
    BY <2>3, <2>4, <2>5
<1>4. CASE \E n \in TypedefNames, e \in EnumTags : TypedefOfEnum(n, e)
  BY <1>0, <1>4, Failures DEF TypedefOfEnum
<1>5. CASE \E n \in TypedefNames : TypedefUnsupported(n)
  BY <1>0, <1>5 DEF TypedefUnsupported
<1>6. QED
  BY <1>1, <1>2, <1>3, <1>4, <1>5 DEF Typedef

LEMMA TypedNext ==
  ASSUME HeaderInv, HeaderNext
  PROVE  Typed'
<1>1. /\ HeaderTypeOK /\ TypedefsOK /\ DeclaredOK
      /\ typedefs \in [TypedefNames -> TypedefMeanings \cup {Unset}]
      /\ Classes \subseteq Names /\ EnumTags \subseteq Names /\ Tags \subseteq Classes
      /\ TypedefNames \subseteq Names /\ FuncNames \subseteq Names
  BY DEF HeaderInv, Typed, HeaderTypeOK, TypedefMeanings, Classes, Names
<1> USE DEF enumVars, useVars
<1>2. CASE \E c \in Tags : Mention(c)
  BY <1>1, <1>2 DEF Mention, Typed, HeaderTypeOK, TypedefsOK, DeclaredOK
<1>3. CASE Redefines
  BY <1>1, <1>3 DEF Redefines, Redefine, Typed, HeaderTypeOK, TypedefsOK, DeclaredOK
<1>4. CASE \E c \in Tags : FieldOfClass(c)
  <2> PICK c \in Tags : FieldOfClass(c)
    BY <1>4
  <2>1. uses' \in [Classes -> SUBSET Classes] /\ wrong' \in [Classes -> SUBSET EnumTags]
    BY <1>1, Used DEF FieldOfClass
  <2>2. exc' \in Causes \cup {Fine, Own}
    BY <1>1, Failures DEF FieldOfClass
  <2>3. QED
    BY <1>1, <2>1, <2>2 DEF FieldOfClass, Typed, HeaderTypeOK, TypedefsOK, DeclaredOK, Causes
<1>5. CASE \E n \in TypedefNames : FieldOfTypedef(n)
  <2> PICK n \in TypedefNames : FieldOfTypedef(n)
    BY <1>5
  <2>1. typedefs[n] # Unset /\ typedefs[n] # Plain
    BY DEF FieldOfTypedef
  <2>2. CASE typedefs[n].kind = "bad"
    <3>1. exc' \in Causes
      BY <1>1, <2>1, <2>2, TypedefKinds DEF FieldOfTypedef
    <3>2. QED
      BY <1>1, <2>2, <3>1 DEF FieldOfTypedef, Typed, HeaderTypeOK, TypedefsOK, DeclaredOK, Causes
  <2>3. CASE typedefs[n].kind # "bad"
    <3>1. typedefs[n].of \in Classes
      BY <1>1, <2>1, <2>3, TypedefKinds
    <3>2. /\ exc' = CompletenessOf(typedefs[n].of)
          /\ UseIn(stack, typedefs[n].of, exc')
      BY <2>3 DEF FieldOfTypedef
    <3>3. uses' \in [Classes -> SUBSET Classes] /\ wrong' \in [Classes -> SUBSET EnumTags]
      BY <3>1, <3>2, Used
    <3>4. exc' \in Causes \cup {Fine, Own}
      BY <3>1, <3>2, Failures
    <3>5. QED
      BY <1>1, <3>3, <3>4 DEF FieldOfTypedef, Typed, HeaderTypeOK, TypedefsOK, DeclaredOK, Causes
  <2>4. QED
    BY <2>2, <2>3
<1>6. CASE \E e \in EnumTags : FieldOfEnum(e)
  <2> PICK e \in EnumTags : FieldOfEnum(e)
    BY <1>6
  <2>1. exc' \in Causes \cup {Fine, Own}
    BY Failures DEF FieldOfEnum
  <2>2. wrong' \in [Classes -> SUBSET EnumTags]
    BY <1>1 DEF FieldOfEnum, HeaderTypeOK
  <2>3. QED
    BY <1>1, <2>1, <2>2 DEF FieldOfEnum, Typed, HeaderTypeOK, TypedefsOK, DeclaredOK, Causes
<1>7. CASE FieldUnsupported
  BY <1>1, <1>7 DEF FieldUnsupported, Typed, HeaderTypeOK, TypedefsOK, DeclaredOK
<1>8. CASE \E c \in Tags \cup {Nameless}, via \in {"value", "pointer", "tag"} : FieldBody(c, via)
  <2> PICK c \in Tags \cup {Nameless}, via \in {"value", "pointer", "tag"} : FieldBody(c, via)
    BY <1>8
  <2>1. stack' \in Seq(Frames)
    BY <1>1, Pushed DEF FieldBody
  <2>2. QED
    BY <1>1, <2>1 DEF FieldBody, OpenBody, Typed, HeaderTypeOK, TypedefsOK, DeclaredOK, Frames
<1>9. CASE \E e \in EnumTags, width \in {"int", "wide"}, ok \in BOOLEAN : FieldEnumBody(e, width, ok)
  <2> PICK e \in EnumTags, width \in {"int", "wide"}, ok \in BOOLEAN : FieldEnumBody(e, width, ok)
    BY <1>9
  <2>1. meant' \in [EnumTags -> {"int", "wide", Unset}] /\ enums' \in [EnumTags -> {"int", "wide", Unset}]
    BY <1>1 DEF FieldEnumBody, HeaderTypeOK
  <2>2. QED
    BY <1>1, <2>1 DEF FieldEnumBody, Typed, HeaderTypeOK, TypedefsOK, DeclaredOK
<1>10. stack # <<>> => Below \in Seq(Frames) /\ Top.cls \in Classes \cup {Nameless}
  BY Popped
<1>11. CASE CloseBody
  <2>1. stack' \in Seq(Frames) /\ Top.cls \in Classes \cup {Nameless}
    BY <1>10, <1>11 DEF CloseBody, InBody
  <2>2. uses' \in [Classes -> SUBSET Classes] /\ wrong' \in [Classes -> SUBSET EnumTags]
    BY <1>1, <1>11, <2>1, Used DEF CloseBody, HeaderTypeOK
  <2>3. QED
    BY <1>1, <1>11, <2>1, <2>2 DEF CloseBody, Typed, HeaderTypeOK, TypedefsOK, DeclaredOK, Frames
<1>12. CASE CloseRejected
  <2>1. stack' \in Seq(Frames) /\ Top.cls \in Classes \cup {Nameless}
    BY <1>10, <1>12 DEF CloseRejected, InBody
  <2>2. failed' \in [Classes -> Names \cup {Nameless, Unset}] /\ skipped' \subseteq Names
    BY <1>1, <1>12, <2>1 DEF CloseRejected, HeaderTypeOK
  <2>3. QED
    BY <1>1, <1>12, <2>1, <2>2 DEF CloseRejected, Typed, HeaderTypeOK, TypedefsOK, DeclaredOK, Frames
<1>13. ASSUME NEW es \in SUBSET EnumTags, Unread(es)
       PROVE  meant' \in [EnumTags -> {"int", "wide", Unset}]
  BY <1>1, <1>13 DEF Unread, HeaderTypeOK
<1>14. CASE Leaves
  <2> PICK es \in SUBSET EnumTags : LeaveBody(es)
    BY <1>14 DEF Leaves
  <2>1. stack' \in Seq(Frames) /\ Top.cls \in Classes \cup {Nameless}
    BY <1>10 DEF LeaveBody
  <2>2. Blame(Top.cls) \in Causes
    BY <1>1, <2>1, BlameTypes DEF LeaveBody, Causes
  <2>3. failed' \in [Classes -> Names \cup {Nameless, Unset}] /\ skipped' \subseteq Names
    BY <1>1, <2>1, <2>2 DEF LeaveBody, HeaderTypeOK, Causes
  <2>4. exc' \in Causes \cup {Fine, Own}
    BY <1>1, <2>2 DEF LeaveBody, Blamed, HeaderTypeOK, Causes
  <2>5. meant' \in [EnumTags -> {"int", "wide", Unset}]
    BY <1>13 DEF LeaveBody
  <2>6. QED
    BY <1>1, <2>1, <2>3, <2>4, <2>5
       DEF LeaveBody, Typed, HeaderTypeOK, TypedefsOK, DeclaredOK, Frames, Causes
<1>15. CASE Typedef
  BY <1>15, TypedefSteps, BoundTypes
<1>16. CASE \E f \in FuncNames, c \in Tags : Function(f, c)
  BY <1>1, <1>16 DEF Function, Typed, HeaderTypeOK, TypedefsOK, DeclaredOK
<1>17. CASE \E e \in EnumTags, width \in {"int", "wide"}, ok \in BOOLEAN, n \in TypedefNames \cup {Unset} :
              EnumBody(e, width, ok, n)
  <2> PICK e \in EnumTags, width \in {"int", "wide"}, ok \in BOOLEAN, n \in TypedefNames \cup {Unset} :
         EnumBody(e, width, ok, n)
    BY <1>17
  <2>1. /\ meant' \in [EnumTags -> {"int", "wide", Unset}] /\ enums' \in [EnumTags -> {"int", "wide", Unset}]
        /\ failedEnums' \in [EnumTags -> Names \cup {Unset}]
        /\ ns' \subseteq Names /\ skipped' \subseteq Names
    BY <1>1 DEF EnumBody, HeaderTypeOK
  <2>2. \A m \in TypedefNames : typedefs'[m] = typedefs[m] \/ typedefs'[m] = Plain \/ typedefs'[m] = Bad(m)
    BY DEF EnumBody
  <2>3. \A m \in TypedefNames : typedefs'[m] \in TypedefMeanings \cup {Unset}
    BY <1>1, <2>2, Targets DEF Causes
  <2>4. typedefs' \in [TypedefNames -> TypedefMeanings \cup {Unset}]
    BY <2>3 DEF EnumBody
  <2>5. TypedefsOK'
    BY <1>1, <2>2 DEF TypedefsOK, Causes
  <2>6. HeaderTypeOK'
    BY <1>1, <2>1, <2>4 DEF EnumBody, HeaderTypeOK, TypedefMeanings
  <2>7. QED
    BY <2>5, <2>6 DEF EnumBody, Idle, Typed, DeclaredOK
<1>18. CASE \E e \in EnumTags : EnumLost(e)
  BY <1>1, <1>18 DEF EnumLost, Typed, HeaderTypeOK, TypedefsOK, DeclaredOK
<1>19. CASE \E form \in Forms, name \in TypedefNames \cup FuncNames \cup {Unset},
               c \in Classes \cup {Nameless} :
               \/ DeclareBody(form, name, c)
               \/ \E es \in SUBSET EnumTags : DeclareUnsupported(form, name, c, es)
  <2> PICK form \in Forms, name \in TypedefNames \cup FuncNames \cup {Unset},
           c \in Classes \cup {Nameless} :
               \/ DeclareBody(form, name, c)
               \/ \E es \in SUBSET EnumTags : DeclareUnsupported(form, name, c, es)
    BY <1>19
  <2>1. /\ MayDeclare(form, name, c) /\ ext' = Decl(form, name, c)
        /\ UNCHANGED <<typedefs, failed, completed, enums, failedEnums, lost, skipped, uses, wrong>>
    BY DEF DeclareBody, DeclareUnsupported
  <2>2. stack' \in Seq(Frames) /\ definitions' \subseteq Classes /\ ns' \subseteq Names
    <3>1. CASE DeclareBody(form, name, c)
      <4>1. OpenBody(c, ViaOf(form)) /\ ViaOf(form) \in {"value", "pointer", "tag"}
        BY <3>1 DEF DeclareBody, ViaOf
      <4>2. QED
        BY <1>1, <4>1, Pushed DEF OpenBody, HeaderTypeOK
    <3>2. CASE \E es \in SUBSET EnumTags : DeclareUnsupported(form, name, c, es)
      BY <1>1, <3>2 DEF DeclareUnsupported, HeaderTypeOK, Frames
    <3>3. QED
      BY <3>1, <3>2
  <2>3. meant' \in [EnumTags -> {"int", "wide", Unset}] /\ exc' \in Names \cup {Nameless, Fine, Own}
    <3>1. CASE DeclareBody(form, name, c)
      BY <1>1, <3>1 DEF DeclareBody, HeaderTypeOK
    <3>2. CASE \E es \in SUBSET EnumTags : DeclareUnsupported(form, name, c, es)
      BY <1>13, <3>2 DEF DeclareUnsupported
    <3>3. QED
      BY <3>1, <3>2
  <2>4. /\ ext' \in [form : Forms, name : Names \cup {Unset}, def : Names \cup {Unset, Nameless}]
        /\ functions' \subseteq FuncNames
    BY <1>1, <2>1 DEF Decl, DeclareBody, DeclareUnsupported, HeaderTypeOK
  <2>5. HeaderTypeOK'
    BY <1>1, <2>1, <2>2, <2>3, <2>4 DEF HeaderTypeOK, Frames, Forms
  <2>6. form = "typedef" => c \in Classes
    BY <1>1, <2>1 DEF MayDeclare, Classes
  <2>7. name \in TypedefNames => typedefs[name] = Unset
    <3>1. Unset \notin TypedefNames /\ TypedefNames \cap FuncNames = {}
      BY <1>1, Constants DEF Causes
    <3>2. QED
      BY <2>1, <3>1 DEF MayDeclare
  <2>8. DeclaredOK' /\ TypedefsOK'
    BY <1>1, <2>1, <2>6, <2>7 DEF DeclaredOK, TypedefsOK, Decl
  <2>9. QED
    BY <2>5, <2>8 DEF Typed
<1>20. CASE EndDeclaration
  <2>1. /\ ext # Unset /\ ext.form \in Forms /\ ext.name \in TypedefNames \cup FuncNames \cup {Unset}
        /\ ext.form = "typedef" => ext.def \in Classes
    BY <1>1, <1>20 DEF EndDeclaration, DeclaredOK
  <2>2. CASE ext.form = "typedef" /\ failed[ext.def] # Unset
    <3>1. exc' \in Causes
      BY <1>1, <1>20, <2>1, <2>2 DEF EndDeclaration, HeaderTypeOK, Causes
    <3>2. QED
      BY <1>1, <1>20, <2>2, <3>1 DEF EndDeclaration, Typed, HeaderTypeOK, TypedefsOK, DeclaredOK, Causes
  <2>3. CASE ~ (ext.form = "typedef" /\ failed[ext.def] # Unset)
    <3>1. \A m \in TypedefNames :
            \/ typedefs'[m] = typedefs[m] \/ typedefs'[m] = Plain
            \/ \E c \in Classes : typedefs'[m] = ClassOf(c)
      BY <1>20, <2>1, <2>3 DEF EndDeclaration
    <3>2. \A m \in TypedefNames : typedefs'[m] \in TypedefMeanings \cup {Unset}
      BY <1>1, <3>1, Targets DEF Causes
    <3>3. typedefs' \in [TypedefNames -> TypedefMeanings \cup {Unset}]
      BY <1>20, <2>3, <3>2 DEF EndDeclaration
    <3>4. TypedefsOK'
      BY <1>1, <3>1 DEF TypedefsOK
    <3>5. ns' \subseteq Names /\ ext' = Unset
      BY <1>1, <1>20, <2>1, <2>3 DEF EndDeclaration, HeaderTypeOK
    <3>6. HeaderTypeOK'
      BY <1>1, <1>20, <2>3, <3>3, <3>5 DEF EndDeclaration, HeaderTypeOK, TypedefMeanings
    <3>7. QED
      BY <3>4, <3>5, <3>6 DEF Typed, DeclaredOK
  <2>4. QED
    BY <2>2, <2>3
<1>21. CASE DeclarationFailed
  <2>1. /\ ext # Unset /\ ext.name \in TypedefNames \cup FuncNames \cup {Unset}
        /\ ext.def \in Classes \cup {Nameless} /\ exc # Fine
    BY <1>1, <1>21 DEF DeclarationFailed, DeclaredOK
  <2>2. \A c \in Causes : Blame(c) \in Causes
    BY <2>1, BlameTypes
  <2>3. \A m \in TypedefNames :
          typedefs'[m] = typedefs[m] \/ \E r \in Causes : typedefs'[m] = Bad(r)
    BY <1>1, <1>21, <2>2 DEF DeclarationFailed, Causes
  <2>4. \A m \in TypedefNames : typedefs'[m] \in TypedefMeanings \cup {Unset}
    BY <1>1, <2>3, Targets
  <2>5. typedefs' \in [TypedefNames -> TypedefMeanings \cup {Unset}]
    BY <1>21, <2>4 DEF DeclarationFailed
  <2>6. TypedefsOK'
    BY <1>1, <2>3 DEF TypedefsOK
  <2>7. failed' \in [Classes -> Causes \cup {Unset}]
    BY <1>1, <1>21, <2>2 DEF DeclarationFailed, HeaderTypeOK, Causes
  <2>8. definitions' \subseteq Classes /\ skipped' \subseteq Names /\ ns' \subseteq Names
    BY <1>1, <1>21, <2>1 DEF DeclarationFailed, Reported, HeaderTypeOK
  <2>9. HeaderTypeOK'
    BY <1>1, <1>21, <2>5, <2>7, <2>8 DEF DeclarationFailed, HeaderTypeOK, TypedefMeanings, Causes
  <2>10. QED
    BY <1>21, <2>6, <2>9 DEF DeclarationFailed, Typed, DeclaredOK
<1>22. QED
  BY <1>2, <1>3, <1>4, <1>5, <1>6, <1>7, <1>8, <1>9, <1>11, <1>12, <1>14, <1>15, <1>16, <1>17, <1>18,
     <1>19, <1>20, <1>21
     DEF HeaderNext, Body, Declaration, Redefines, Leaves, Forms

-----------------------------------------------------------------------------
(* What declarations bind                                                   *)

TypedefState == <<typedefs, ext>>
Declares ==
  \E form \in Forms, name \in TypedefNames \cup FuncNames \cup {Unset}, c \in Classes \cup {Nameless} :
    \/ DeclareBody(form, name, c)
    \/ \E es \in SUBSET EnumTags : DeclareUnsupported(form, name, c, es)
EnumBodies ==
  \E e \in EnumTags, width \in {"int", "wide"}, ok \in BOOLEAN, n \in TypedefNames \cup {Unset} :
    EnumBody(e, width, ok, n)

LEMMA Grows ==
  ASSUME HeaderInv, HeaderNext
  PROVE  /\ ns \subseteq ns' /\ skipped \subseteq skipped'
         /\ completed \subseteq completed' /\ lost' = lost
<1>1. CASE \E c \in Tags : Mention(c)
  BY <1>1 DEF Mention
<1>2. CASE Redefines
  BY <1>2 DEF Redefines, Redefine
<1>3. CASE Uses \/ FieldUnsupported
  BY <1>3 DEF Uses, FieldOfClass, FieldOfTypedef, FieldOfEnum, FieldUnsupported
<1>4. CASE \E c \in Tags \cup {Nameless}, via \in {"value", "pointer", "tag"} : FieldBody(c, via)
  BY <1>4 DEF FieldBody, OpenBody
<1>5. CASE \E e \in EnumTags, width \in {"int", "wide"}, ok \in BOOLEAN : FieldEnumBody(e, width, ok)
  BY <1>5 DEF FieldEnumBody
<1>6. CASE CloseBody \/ CloseRejected \/ Leaves
  BY <1>6 DEF CloseBody, CloseRejected, Leaves, LeaveBody
<1>7. CASE Typedef
  BY <1>7 DEF Typedef, TypedefOfClass, TypedefOfArray, TypedefOfTypedef, TypedefOfEnum,
              TypedefUnsupported, BindTypedef, UnchangedByName
<1>8. CASE \E f \in FuncNames, c \in Tags : Function(f, c)
  BY <1>8 DEF Function
<1>9. CASE EnumBodies
  BY <1>9 DEF EnumBodies, EnumBody
<1>10. CASE \E e \in EnumTags : EnumLost(e)
  BY <1>10 DEF EnumLost
<1>11. CASE Declares
  BY <1>11 DEF Declares, DeclareBody, DeclareUnsupported, OpenBody
<1>12. CASE EndDeclaration \/ DeclarationFailed
  BY <1>12 DEF EndDeclaration, DeclarationFailed
<1>13. QED
  BY <1>1, <1>2, <1>3, <1>4, <1>5, <1>6, <1>7, <1>8, <1>9, <1>10, <1>11, <1>12
     DEF HeaderNext, Body, Declaration, Redefines, Leaves, Uses, Forms, Declares, EnumBodies

\* The steps that bind a typedef or start or end a declaration.
LEMMA BindingSteps ==
  ASSUME HeaderInv, HeaderNext
  PROVE  \/ UNCHANGED TypedefState
         \/ Typedef \/ EnumBodies \/ Declares \/ EndDeclaration \/ DeclarationFailed
<1> USE DEF TypedefState
<1>1. CASE \E c \in Tags : Mention(c)
  BY <1>1 DEF Mention
<1>2. CASE Redefines
  BY <1>2 DEF Redefines, Redefine
<1>3. CASE Uses \/ FieldUnsupported
  BY <1>3 DEF Uses, FieldOfClass, FieldOfTypedef, FieldOfEnum, FieldUnsupported
<1>4. CASE \E c \in Tags \cup {Nameless}, via \in {"value", "pointer", "tag"} : FieldBody(c, via)
  BY <1>4 DEF FieldBody
<1>5. CASE \E e \in EnumTags, width \in {"int", "wide"}, ok \in BOOLEAN : FieldEnumBody(e, width, ok)
  BY <1>5 DEF FieldEnumBody
<1>6. CASE CloseBody \/ CloseRejected \/ Leaves
  BY <1>6 DEF CloseBody, CloseRejected, Leaves, LeaveBody
<1>7. CASE \E f \in FuncNames, c \in Tags : Function(f, c)
  BY <1>7 DEF Function
<1>8. CASE \E e \in EnumTags : EnumLost(e)
  BY <1>8 DEF EnumLost
<1>9. QED
  BY <1>1, <1>2, <1>3, <1>4, <1>5, <1>6, <1>7, <1>8
     DEF HeaderNext, Body, Declaration, Redefines, Leaves, Uses, Forms, Declares, EnumBodies

LEMMA BoundNext ==
  ASSUME HeaderInv, HeaderNext
  PROVE  BoundOK'
<1>1. /\ BoundOK /\ DeclaredOK /\ ns \subseteq ns' /\ skipped \subseteq skipped'
      /\ typedefs \in [TypedefNames -> TypedefMeanings \cup {Unset}]
  BY Grows DEF HeaderInv, Typed, HeaderTypeOK, TypedefMeanings
<1>2. Plain.kind = "plain" /\ \A r : Bad(r).kind = "bad" /\ ClassOf(r).kind = "class"
  BY DEF Plain, Bad, ClassOf
<1>3. ASSUME typedefs' = typedefs
      PROVE  BoundOK'
  BY <1>1, <1>3 DEF BoundOK
<1>4. CASE Typedef
  <2> PICK n \in TypedefNames, value \in Values, raises \in Causes \cup {Fine, Own} :
        BindTypedef(n, value, raises) /\ (raises = Fine => value.kind # "bad")
    BY <1>4, TypedefSteps
  <2>1. PICK v \in Values :
          /\ typedefs' = [typedefs EXCEPT ![n] = v]
          /\ raises = Fine => v = value /\ n \in ns'
          /\ raises # Fine => v.kind = "bad" /\ n \in skipped'
    BY <1>2, Bound
  <2>2. QED
    BY <1>1, <2>1 DEF BoundOK
<1>5. CASE EnumBodies
  <2> PICK e \in EnumTags, width \in {"int", "wide"}, ok \in BOOLEAN, n \in TypedefNames \cup {Unset} :
         EnumBody(e, width, ok, n)
    BY <1>5 DEF EnumBodies
  <2>1. Unset \notin TypedefNames
    BY Constants DEF Causes, Names
  <2>2. ASSUME NEW m \in TypedefNames, typedefs'[m] # Unset
        PROVE  IF typedefs'[m].kind = "bad" THEN m \in skipped' ELSE m \in ns'
    <3>1. CASE m # n
      BY <1>1, <2>2, <3>1 DEF EnumBody, BoundOK
    <3>2. CASE m = n
      BY <1>2, <2>1, <2>2, <3>2 DEF EnumBody
    <3>3. QED
      BY <3>1, <3>2
  <2>3. QED
    BY <2>2 DEF BoundOK
<1>6. CASE Declares
  BY <1>3, <1>6 DEF Declares, DeclareBody, DeclareUnsupported
<1>7. CASE EndDeclaration
  <2>1. CASE typedefs' = typedefs
    BY <1>3, <2>1
  <2>2. CASE /\ typedefs' = [n \in TypedefNames |->
                              IF n # ext.name THEN typedefs[n]
                              ELSE IF ext.form = "typedef" THEN ClassOf(ext.def) ELSE Plain]
             /\ ns' = ns \cup ({ext.name} \ {Unset})
    BY <1>1, <1>2, <2>2, Constants DEF BoundOK, Causes, Names
  <2>3. QED
    BY <1>7, <2>1, <2>2 DEF EndDeclaration
<1>8. CASE DeclarationFailed
  BY <1>1, <1>2, <1>8, Constants DEF DeclarationFailed, Reported, BoundOK, Causes, Names
<1>9. QED
  BY <1>3, <1>4, <1>5, <1>6, <1>7, <1>8, BindingSteps DEF TypedefState

\* The steps that declare a function, or start or end a declaration.
FunctionState == <<functions, ext>>
Prototypes == \E f \in FuncNames, c \in Tags : Function(f, c)

LEMMA FunctionSteps ==
  ASSUME HeaderInv, HeaderNext
  PROVE  \/ UNCHANGED FunctionState
         \/ Prototypes \/ Declares \/ EndDeclaration \/ DeclarationFailed
<1> USE DEF FunctionState
<1>1. CASE \E c \in Tags : Mention(c)
  BY <1>1 DEF Mention
<1>2. CASE Redefines
  BY <1>2 DEF Redefines, Redefine
<1>3. CASE Uses \/ FieldUnsupported
  BY <1>3 DEF Uses, FieldOfClass, FieldOfTypedef, FieldOfEnum, FieldUnsupported
<1>4. CASE \E c \in Tags \cup {Nameless}, via \in {"value", "pointer", "tag"} : FieldBody(c, via)
  BY <1>4 DEF FieldBody
<1>5. CASE \E e \in EnumTags, width \in {"int", "wide"}, ok \in BOOLEAN : FieldEnumBody(e, width, ok)
  BY <1>5 DEF FieldEnumBody
<1>6. CASE CloseBody \/ CloseRejected \/ Leaves
  BY <1>6 DEF CloseBody, CloseRejected, Leaves, LeaveBody
<1>7. CASE Typedef
  BY <1>7, TypedefSteps DEF UnchangedByName
<1>8. CASE EnumBodies
  BY <1>8 DEF EnumBodies, EnumBody
<1>9. CASE \E e \in EnumTags : EnumLost(e)
  BY <1>9 DEF EnumLost
<1>10. QED
  BY <1>1, <1>2, <1>3, <1>4, <1>5, <1>6, <1>7, <1>8, <1>9
     DEF HeaderNext, Body, Declaration, Prototypes, Redefines, Leaves, Uses, Forms, Declares,
         EnumBodies

LEMMA FunctionsNext ==
  ASSUME HeaderInv, HeaderNext
  PROVE  FunctionsOK'
<1>1. /\ FunctionsOK /\ DeclaredOK /\ functions \subseteq FuncNames
      /\ ns \subseteq ns' /\ skipped \subseteq skipped'
      /\ Unset \notin FuncNames
  BY Grows, Constants DEF HeaderInv, Typed, HeaderTypeOK, Causes, Names
<1>2. CASE UNCHANGED FunctionState
  BY <1>1, <1>2 DEF FunctionState, FunctionsOK
<1>3. CASE Prototypes
  <2> PICK f \in FuncNames, c \in Tags : Function(f, c)
    BY <1>3 DEF Prototypes
  <2>1. functions' = functions \cup {f} /\ f \in ns' \cup skipped' /\ ext = Unset
    BY DEF Function, Idle
  <2>2. QED
    BY <1>1, <2>1 DEF FunctionsOK
<1>4. CASE Declares
  <2> PICK form \in Forms, name \in TypedefNames \cup FuncNames \cup {Unset},
           c \in Classes \cup {Nameless} :
               \/ DeclareBody(form, name, c)
               \/ \E es \in SUBSET EnumTags : DeclareUnsupported(form, name, c, es)
    BY <1>4 DEF Declares
  <2>1. /\ functions' = functions \cup ({name} \cap FuncNames)
        /\ ext = Unset /\ ext' = Decl(form, name, c)
    BY DEF DeclareBody, DeclareUnsupported, Idle
  <2>2. ext' # Unset /\ ext'.name = name
    <3>1. c \in Names \cup {Unset, Nameless} /\ name \in Names \cup {Unset}
      BY Constants DEF Names
    <3>2. ext' \in [form : Forms, name : Names \cup {Unset}, def : Names \cup {Unset, Nameless}]
      BY <2>1, <3>1 DEF Decl
    <3>3. QED
      BY <2>1, <3>2, HeaderAssumption DEF Decl
  <2>3. QED
    BY <1>1, <2>1, <2>2 DEF FunctionsOK
<1>5. CASE EndDeclaration
  <2>1. functions' = functions
    BY <1>5 DEF EndDeclaration
  <2>2. CASE ext' = ext
    BY <1>1, <2>1, <2>2 DEF FunctionsOK
  <2>3. CASE ns' = ns \cup ({ext.name} \ {Unset})
    BY <1>1, <2>1, <2>3 DEF FunctionsOK
  <2>4. QED
    BY <1>5, <2>2, <2>3 DEF EndDeclaration
<1>6. CASE DeclarationFailed
  BY <1>1, <1>6 DEF DeclarationFailed, Reported, FunctionsOK
<1>7. QED
  BY <1>2, <1>3, <1>4, <1>5, <1>6, FunctionSteps

-----------------------------------------------------------------------------
(* Uses by value                                                            *)

UseState == <<completed, uses, wrong>>

\* A member makes its type a part of what it is in when it raises nothing.
Fields ==
  \E c \in Classes, s \in {stack, Below} :
    /\ UseIn(s, c, exc') /\ (exc' = Fine => c \in completed')
    /\ \/ UNCHANGED completed
       \/ CloseBody

LEMMA UseSteps ==
  ASSUME HeaderInv, HeaderNext
  PROVE  \/ UNCHANGED UseState
         \/ Fields
         \/ \E e \in EnumTags : FieldOfEnum(e)
         \/ CloseBody /\ UNCHANGED useVars
<1> USE DEF UseState, useVars
<1>1. CASE \E c \in Tags : Mention(c)
  BY <1>1 DEF Mention
<1>2. CASE Redefines
  BY <1>2 DEF Redefines, Redefine
<1>3. CASE \E c \in Tags : FieldOfClass(c)
  <2> PICK c \in Tags : FieldOfClass(c)
    BY <1>3
  <2>1. c \in Classes /\ UseIn(stack, c, exc') /\ exc' = CompletenessOf(c) /\ completed' = completed
    BY DEF FieldOfClass, Classes
  <2>2. exc' = Fine => c \in completed
    BY <2>1, Completeness DEF HeaderInv
  <2>3. QED
    BY <2>1, <2>2 DEF Fields
<1>4. CASE \E n \in TypedefNames : FieldOfTypedef(n)
  <2> PICK n \in TypedefNames : FieldOfTypedef(n)
    BY <1>4
  <2>1. CASE typedefs[n].kind = "bad"
    BY <2>1 DEF FieldOfTypedef
  <2>2. CASE typedefs[n].kind # "bad"
    <3>1. typedefs[n].of \in Classes
      BY <2>2, TypedefKinds DEF FieldOfTypedef, HeaderInv, Typed
    <3>2. /\ UseIn(stack, typedefs[n].of, exc') /\ exc' = CompletenessOf(typedefs[n].of)
          /\ completed' = completed
      BY <2>2 DEF FieldOfTypedef
    <3>3. exc' = Fine => typedefs[n].of \in completed
      BY <3>1, <3>2, Completeness DEF HeaderInv
    <3>4. QED
      BY <3>1, <3>2, <3>3 DEF Fields
  <2>3. QED
    BY <2>1, <2>2
<1>5. CASE FieldUnsupported
  BY <1>5 DEF FieldUnsupported
<1>6. CASE \E c \in Tags \cup {Nameless}, via \in {"value", "pointer", "tag"} : FieldBody(c, via)
  BY <1>6 DEF FieldBody
<1>7. CASE \E e \in EnumTags, width \in {"int", "wide"}, ok \in BOOLEAN : FieldEnumBody(e, width, ok)
  BY <1>7 DEF FieldEnumBody
<1>8. CASE CloseBody
  <2>1. exc' = Fine /\ completed' = completed \cup ({Top.cls} \ {Nameless})
    BY <1>8 DEF CloseBody, InBody
  <2>2. CASE Top.cls # Nameless /\ Top.via = "value"
    <3>1. UseIn(Below, Top.cls, exc')
      BY <1>8, <2>1, <2>2 DEF CloseBody
    <3>2. Top.cls \in Classes
      BY <1>8, <2>2, Popped DEF CloseBody, InBody
    <3>3. QED
      BY <1>8, <2>1, <2>2, <3>1, <3>2 DEF Fields
  <2>3. CASE ~ (Top.cls # Nameless /\ Top.via = "value")
    BY <1>8, <2>3 DEF CloseBody
  <2>4. QED
    BY <2>2, <2>3
<1>9. CASE CloseRejected \/ Leaves
  BY <1>9 DEF CloseRejected, Leaves, LeaveBody
<1>10. CASE Typedef
  BY <1>10, TypedefSteps DEF UnchangedByName
<1>11. CASE \E f \in FuncNames, c \in Tags : Function(f, c)
  BY <1>11 DEF Function
<1>12. CASE EnumBodies
  BY <1>12 DEF EnumBodies, EnumBody
<1>13. CASE \E e \in EnumTags : EnumLost(e)
  BY <1>13 DEF EnumLost
<1>14. CASE Declares
  BY <1>14 DEF Declares, DeclareBody, DeclareUnsupported
<1>15. CASE EndDeclaration \/ DeclarationFailed
  BY <1>15 DEF EndDeclaration, DeclarationFailed
<1>16. QED
  BY <1>1, <1>2, <1>3, <1>4, <1>5, <1>6, <1>7, <1>8, <1>9, <1>10, <1>11, <1>12, <1>13, <1>14, <1>15
     DEF HeaderNext, Body, Declaration, Redefines, Leaves, Forms, Declares, EnumBodies

LEMMA UsesNext ==
  ASSUME HeaderInv, HeaderNext
  PROVE  UsesOK'
<1>1. UsesOK /\ completed \subseteq completed'
  BY Grows DEF HeaderInv
<1> USE DEF useVars
<1>2. CASE uses' = uses
  BY <1>1, <1>2 DEF UsesOK
<1>3. CASE Fields
  BY <1>1, <1>3 DEF Fields, UseIn, UsesOK
<1>4. CASE \E e \in EnumTags : FieldOfEnum(e)
  BY <1>2, <1>4 DEF FieldOfEnum
<1>5. QED
  BY <1>2, <1>3, <1>4, UseSteps DEF UseState

-----------------------------------------------------------------------------
(* Enums                                                                    *)

LEMMA EnumSteps ==
  ASSUME HeaderInv, HeaderNext
  PROVE  \/ UNCHANGED enumVars
         \/ \E e \in EnumTags, width \in {"int", "wide"}, ok \in BOOLEAN : FieldEnumBody(e, width, ok)
         \/ EnumBodies
         \/ \E e \in EnumTags : EnumLost(e)
         \/ \E es \in SUBSET EnumTags : Unread(es) /\ UNCHANGED <<enums, failedEnums>>
<1> USE DEF enumVars
<1>1. CASE \E c \in Tags : Mention(c)
  BY <1>1 DEF Mention
<1>2. CASE Redefines
  BY <1>2 DEF Redefines, Redefine
<1>3. CASE Uses \/ FieldUnsupported
  BY <1>3 DEF Uses, FieldOfClass, FieldOfTypedef, FieldOfEnum, FieldUnsupported
<1>4. CASE \E c \in Tags \cup {Nameless}, via \in {"value", "pointer", "tag"} : FieldBody(c, via)
  BY <1>4 DEF FieldBody
<1>5. CASE CloseBody \/ CloseRejected
  BY <1>5 DEF CloseBody, CloseRejected
<1>6. CASE Leaves
  BY <1>6 DEF Leaves, LeaveBody
<1>7. CASE Typedef
  BY <1>7, TypedefSteps DEF UnchangedByName
<1>8. CASE \E f \in FuncNames, c \in Tags : Function(f, c)
  BY <1>8 DEF Function
<1>9. CASE Declares
  BY <1>9 DEF Declares, DeclareBody, DeclareUnsupported
<1>10. CASE EndDeclaration \/ DeclarationFailed
  BY <1>10 DEF EndDeclaration, DeclarationFailed
<1>11. QED
  BY <1>1, <1>2, <1>3, <1>4, <1>5, <1>6, <1>7, <1>8, <1>9, <1>10
     DEF HeaderNext, Body, Declaration, Redefines, Leaves, Uses, Forms, Declares, EnumBodies

\* What the header says of an enum, and what became of it, stays.
LEMMA EnumsNext ==
  ASSUME HeaderInv, HeaderNext
  PROVE  /\ EnumsOK'
         /\ \A e \in EnumTags : meant[e] # Unset =>
              meant'[e] = meant[e] /\ enums'[e] = enums[e] /\ failedEnums'[e] = failedEnums[e]
<1>1. /\ EnumsOK /\ meant \in [EnumTags -> {"int", "wide", Unset}]
      /\ enums \in [EnumTags -> {"int", "wide", Unset}]
      /\ failedEnums \in [EnumTags -> Names \cup {Unset}]
      /\ Unset \notin {"int", "wide"} /\ Unset \notin EnumTags
  BY Constants DEF HeaderInv, Typed, HeaderTypeOK, Causes, Names
<1> USE DEF enumVars
<1>2. CASE UNCHANGED enumVars
  BY <1>1, <1>2 DEF EnumsOK
<1>3. CASE \E e \in EnumTags, width \in {"int", "wide"}, ok \in BOOLEAN : FieldEnumBody(e, width, ok)
  <2> PICK e \in EnumTags, width \in {"int", "wide"}, ok \in BOOLEAN : FieldEnumBody(e, width, ok)
    BY <1>3
  <2>1. /\ meant[e] = Unset /\ meant' = [meant EXCEPT ![e] = width] /\ failedEnums' = failedEnums
        /\ enums' = enums \/ enums' = [enums EXCEPT ![e] = width]
    BY DEF FieldEnumBody
  <2>2. QED
    BY <1>1, <2>1 DEF EnumsOK
<1>4. CASE EnumBodies
  <2> PICK e \in EnumTags, width \in {"int", "wide"}, ok \in BOOLEAN, n \in TypedefNames \cup {Unset} :
         EnumBody(e, width, ok, n)
    BY <1>4 DEF EnumBodies
  <2>1. /\ meant[e] = Unset /\ meant' = [meant EXCEPT ![e] = width]
        /\ \/ enums' = [enums EXCEPT ![e] = width] /\ failedEnums' = failedEnums
           \/ enums' = enums /\ failedEnums' = [failedEnums EXCEPT ![e] = e]
    BY DEF EnumBody
  <2>2. QED
    BY <1>1, <2>1 DEF EnumsOK
<1>5. CASE \E e \in EnumTags : EnumLost(e)
  BY <1>1, <1>5 DEF EnumLost, EnumsOK
<1>6. CASE \E es \in SUBSET EnumTags : Unread(es) /\ UNCHANGED <<enums, failedEnums>>
  BY <1>1, <1>6 DEF Unread, EnumsOK
<1>7. QED
  BY <1>2, <1>3, <1>4, <1>5, <1>6, EnumSteps

LEMMA WrongNext ==
  ASSUME HeaderInv, HeaderNext
  PROVE  WrongOK'
<1>1. /\ EnumsOK /\ WrongOK
      /\ wrong \in [Classes -> SUBSET EnumTags]
      /\ Unset \notin {"int", "wide"} /\ Fine \notin EnumTags
  BY Constants DEF HeaderInv, Typed, HeaderTypeOK, Causes, Names
<1>2. \A e \in EnumTags : meant[e] # Unset =>
              meant'[e] = meant[e] /\ enums'[e] = enums[e] /\ failedEnums'[e] = failedEnums[e]
  BY EnumsNext
<1> USE DEF useVars
<1>3. CASE wrong' = wrong
  BY <1>1, <1>2, <1>3 DEF WrongOK
<1>4. CASE Fields
  <2>1. \A c \in Classes : \A e \in wrong'[c] : \E d \in Classes : e \in wrong[d]
    BY <1>1, <1>4 DEF Fields, UseIn
  <2>2. QED
    BY <1>1, <1>2, <2>1 DEF WrongOK
<1>5. CASE \E e \in EnumTags : FieldOfEnum(e)
  <2> PICK e \in EnumTags : FieldOfEnum(e)
    BY <1>5
  <2>1. \A c \in Classes : \A x \in wrong'[c] :
          \/ x \in wrong[c]
          \/ x = e /\ exc' = Fine /\ meant[e] = "wide" /\ enums[e] # "wide"
    BY DEF FieldOfEnum
  <2>2. exc' = Fine => failedEnums[e] = Unset
    BY <1>1 DEF FieldOfEnum, EnumRaises, EnumsOK
  <2>3. meant[e] = "wide" /\ enums[e] # "wide" => enums[e] = Unset
    BY <1>1 DEF EnumsOK
  <2>4. QED
    BY <1>1, <1>2, <2>1, <2>2, <2>3 DEF WrongOK
<1>6. QED
  BY <1>3, <1>4, <1>5, UseSteps DEF UseState

-----------------------------------------------------------------------------
(* Blame                                                                    *)

\* A failure stays, with what is to blame for it.
LEMMA FailedStays ==
  ASSUME HeaderInv, HeaderNext, NEW c \in Classes, failed[c] # Unset
  PROVE  failed'[c] = failed[c]
<1>1. failed \in [Classes -> Causes \cup {Unset}]
  BY DEF HeaderInv, Typed, HeaderTypeOK, Causes
<1>2. stack # <<>> => Top.cls # c
  <2>1. stack # <<>> => Len(stack) \in 1 .. Len(stack)
    BY Popped
  <2>2. QED
    BY <2>1, Constants DEF HeaderInv, OpenedOK, Top
<1>3. CASE UNCHANGED BodyState \/ Opens
  BY <1>3 DEF BodyState, Opens
<1>4. CASE Redefines
  BY <1>1, <1>4 DEF Redefines, Redefine
<1>5. CASE CloseBody \/ CloseRejected \/ Leaves
  BY <1>1, <1>2, <1>5 DEF CloseBody, CloseRejected, Leaves, LeaveBody, InBody
<1>6. CASE DeclarationFailed
  BY <1>6 DEF DeclarationFailed
<1>7. QED
  BY <1>3, <1>4, <1>5, <1>6, BodySteps

\* So does what a typedef is bound to.
LEMMA TypedefStays ==
  ASSUME HeaderInv, HeaderNext, NEW n \in TypedefNames, typedefs[n] # Unset
  PROVE  typedefs'[n] = typedefs[n]
<1>1. /\ ext # Unset => ext.name # n
      /\ typedefs \in [TypedefNames -> TypedefMeanings \cup {Unset}]
  BY DEF HeaderInv, Typed, HeaderTypeOK, DeclaredOK, TypedefMeanings
<1>2. CASE UNCHANGED TypedefState \/ Declares
  BY <1>2 DEF TypedefState, Declares, DeclareBody, DeclareUnsupported
<1>3. CASE Typedef
  BY <1>1, <1>3, TypedefSteps, Bound
<1>4. CASE EnumBodies
  <2>1. Unset \notin TypedefNames
    BY Constants DEF Causes, Names
  <2>2. QED
    BY <1>4, <2>1 DEF EnumBodies, EnumBody
<1>5. CASE EndDeclaration
  BY <1>1, <1>5 DEF EndDeclaration
<1>6. CASE DeclarationFailed
  BY <1>1, <1>6 DEF DeclarationFailed
<1>7. QED
  BY <1>2, <1>3, <1>4, <1>5, <1>6, BindingSteps

LEMMA FaultsStay ==
  ASSUME HeaderInv, HeaderNext
  PROVE  Faults \subseteq Faults'
<1> SUFFICES ASSUME NEW x \in Causes, AtFault(x)
             PROVE  AtFault(x)'
  BY DEF Faults
<1>1. x \in Classes /\ failed[x] = x => failed'[x] = x
  BY FailedStays, Constants DEF Causes
<1>2. x \in EnumTags /\ failedEnums[x] = x => failedEnums'[x] = x
  <2>1. x \in EnumTags => x # Unset
    BY Constants DEF Causes
  <2>2. x \in EnumTags /\ failedEnums[x] = x => meant[x] # Unset
    BY <2>1 DEF HeaderInv, EnumsOK
  <2>3. QED
    BY <2>2, EnumsNext
<1>3. x \in TypedefNames /\ typedefs[x] = Bad(x) => typedefs'[x] = Bad(x)
  BY TypedefStays, Constants DEF Causes, Names
<1>4. lost' = lost
  BY Grows
<1>5. QED
  BY <1>1, <1>2, <1>3, <1>4 DEF AtFault

\* What is at fault already when a step begins.
LEMMA ConstantsKnown ==
  ASSUME HeaderInv, HeaderNext
  PROVE  /\ \A c \in Classes : failed[c] # Unset => failed[c] \in Faults'
         /\ \A n \in TypedefNames, r \in Causes : typedefs[n] = Bad(r) => r \in Faults'
         /\ exc \notin {Fine, Own} => exc \in Faults'
         /\ \A c \in Classes : FailureOf(c) # Fine => FailureOf(c) \in Faults'
         /\ \A c \in Classes : CompletenessOf(c) \notin {Fine, Own} => CompletenessOf(c) \in Faults'
         /\ \A e \in EnumTags : EnumRaises(e) # Fine => EnumRaises(e) \in Faults'
         /\ Nameless \in Faults' 
<1>1. BlamesOK /\ EnumsOK /\ Faults \subseteq Faults' /\ Typed
  BY FaultsStay DEF HeaderInv
<1>2. \A c \in Classes : CompletenessOf(c) \in Causes => CompletenessOf(c) \in Faults
  <2>1. \A c \in Classes : CompletenessOf(c) \in Causes =>
          failed[c] = CompletenessOf(c) \/ (c \in lost /\ CompletenessOf(c) = c)
    BY <1>1, Completeness
  <2>2. \A c \in lost : c \in Classes => c \in Faults
    BY Constants DEF Faults, AtFault, Causes
  <2>3. QED
    BY <1>1, <2>1, <2>2, Constants DEF BlamesOK
<1>3. \A e \in EnumTags : EnumRaises(e) # Fine => EnumRaises(e) \in Faults
  BY <1>1, Constants DEF EnumRaises, EnumsOK, Faults, AtFault, Causes
<1>4. \A c \in Classes : CompletenessOf(c) \in Causes \cup {Fine, Own}
  BY Failures
<1>5. Nameless \in Faults
  BY DEF Faults, AtFault, Causes
<1>6. QED
  BY <1>1, <1>2, <1>3, <1>4, <1>5 DEF BlamesOK, FailureOf

\* What a declaration that fails for exc is put down to.
LEMMA Blames ==
  ASSUME HeaderInv, HeaderNext, exc # Fine, NEW x \in Causes,
         exc = Own => x \in Faults'
  PROVE  Blame(x) \in Faults'
BY ConstantsKnown DEF Blame

LEMMA ClassesBlame ==
  ASSUME HeaderInv, HeaderNext, NEW c \in Classes, failed'[c] # Unset
  PROVE  failed'[c] \in Faults'
<1>1. /\ failed \in [Classes -> Causes \cup {Unset}] /\ Classes \subseteq Causes
      /\ failed[c] # Unset => failed[c] \in Faults'
  BY Constants, ConstantsKnown DEF HeaderInv, Typed, HeaderTypeOK, Causes
<1>2. failed'[c] = c => c \in Faults'
  BY <1>1 DEF Faults, AtFault
<1>3. stack # <<>> => Top.cls \in Classes \cup {Nameless}
  BY Popped
<1>4. CASE UNCHANGED BodyState \/ Opens \/ CloseBody
  BY <1>1, <1>4 DEF BodyState, Opens, CloseBody
<1>5. CASE Redefines \/ CloseRejected
  BY <1>1, <1>2, <1>3, <1>5 DEF Redefines, Redefine, CloseRejected, InBody
<1>6. ASSUME exc # Fine, failed'[c] = Blame(c)
      PROVE  failed'[c] \in Faults'
  <2>1. exc = Own => c \in Faults'
    BY <1>2, <1>6 DEF Blame
  <2>2. QED
    BY <1>1, <1>6, <2>1, Blames
<1>7. CASE Leaves
  <2>1. failed'[c] = failed[c] \/ (exc # Fine /\ failed'[c] = Blame(c))
    BY <1>1, <1>3, <1>7 DEF Leaves, LeaveBody
  <2>2. QED
    BY <1>1, <1>6, <2>1
<1>8. CASE DeclarationFailed
  <2>1. failed'[c] = failed[c] \/ (exc # Fine /\ failed'[c] = Blame(c))
    BY <1>8 DEF DeclarationFailed
  <2>2. QED
    BY <1>1, <1>6, <2>1
<1>9. QED
  BY <1>4, <1>5, <1>7, <1>8, BodySteps

LEMMA TypedefsBlame ==
  ASSUME HeaderInv, HeaderNext, NEW n \in TypedefNames, NEW r \in Causes, typedefs'[n] = Bad(r)
  PROVE  r \in Faults'
<1>1. /\ TypedefNames \subseteq Causes
      /\ \A x : Bad(x) = Bad(r) => x = r
      /\ Bad(r) # Plain /\ \A c : ClassOf(c) # Bad(r)
      /\ typedefs \in [TypedefNames -> TypedefMeanings \cup {Unset}]
  BY DEF Causes, Names, Bad, Plain, ClassOf, HeaderInv, Typed, HeaderTypeOK, TypedefMeanings
<1>2. r = n => r \in Faults'
  BY <1>1 DEF Faults, AtFault
<1>3. typedefs'[n] = typedefs[n] => r \in Faults'
  BY ConstantsKnown
<1>4. CASE UNCHANGED TypedefState \/ Declares
  BY <1>3, <1>4 DEF TypedefState, Declares, DeclareBody, DeclareUnsupported
<1>5. CASE Typedef
  <2> PICK m \in TypedefNames, value \in Values, raises \in Causes \cup {Fine, Own} :
        /\ BindTypedef(m, value, raises)
        /\ raises = Fine => value.kind # "bad"
        /\ \/ raises \in {Fine, Own}
           \/ \E c \in Classes : raises = FailureOf(c) \/ raises = CompletenessOf(c)
           \/ \E e \in EnumTags : raises = EnumRaises(e)
           \/ \E t \in TypedefNames : typedefs[t] = Bad(raises)
    BY <1>5, TypedefSteps
  <2>1. PICK v \in Values :
          /\ typedefs' = [typedefs EXCEPT ![m] = v]
          /\ raises = Fine => v = value
          /\ raises # Fine => v = Bad(IF raises = Own THEN m ELSE raises)
    BY Bound
  <2>2. raises \notin {Fine, Own} => raises \in Faults'
    BY ConstantsKnown
  <2>3. CASE m # n
    BY <1>1, <1>3, <2>1, <2>3
  <2>4. CASE m = n
    <3>1. v = Bad(r) /\ raises # Fine
      BY <1>1, <2>1, <2>4 DEF Bad
    <3>2. r = n \/ (raises # Own /\ r = raises)
      BY <1>1, <2>1, <2>4, <3>1
    <3>3. QED
      BY <1>2, <2>2, <3>1, <3>2
  <2>5. QED
    BY <2>3, <2>4
<1>6. CASE EnumBodies
  <2>1. typedefs'[n] \in {typedefs[n], Plain, Bad(n)}
    BY <1>6 DEF EnumBodies, EnumBody
  <2>2. QED
    BY <1>1, <1>2, <1>3, <2>1
<1>7. CASE EndDeclaration
  <2>1. typedefs'[n] = typedefs[n] \/ typedefs'[n] = Plain \/ typedefs'[n] = ClassOf(ext.def)
    BY <1>7 DEF EndDeclaration
  <2>2. QED
    BY <1>1, <1>3, <2>1
<1>8. CASE DeclarationFailed
  <2>1. exc # Fine /\ (typedefs'[n] = typedefs[n] \/ typedefs'[n] = Bad(Blame(n)))
    BY <1>8 DEF DeclarationFailed
  <2>2. CASE typedefs'[n] = Bad(Blame(n))
    <3>1. Blame(n) = r
      BY <1>1, <2>2
    <3>2. exc = Own => n \in Faults'
      BY <1>2, <3>1 DEF Blame
    <3>3. QED
      BY <1>1, <2>1, <3>1, <3>2, Blames
  <2>3. QED
    BY <1>3, <2>1, <2>2
<1>9. QED
  BY <1>4, <1>5, <1>6, <1>7, <1>8, BindingSteps

LEMMA ExceptionsBlame ==
  ASSUME HeaderInv, HeaderNext, exc' \notin {Fine, Own}
  PROVE  exc' \in Faults'
<1>1. CASE exc' = exc
  BY <1>1, ConstantsKnown
<1>2. CASE \E c \in Tags : FieldOfClass(c)
  BY <1>2, ConstantsKnown DEF FieldOfClass, Classes
<1>3. CASE \E n \in TypedefNames : FieldOfTypedef(n)
  <2> PICK n \in TypedefNames : FieldOfTypedef(n)
    BY <1>3
  <2>1. typedefs[n] # Unset /\ TypedefsOK
    BY DEF FieldOfTypedef, HeaderInv, Typed
  <2>2. CASE typedefs[n].kind = "bad"
    <3>1. typedefs[n].of \in Causes /\ typedefs[n] = Bad(typedefs[n].of)
      BY <2>1, <2>2, TypedefKinds
    <3>2. exc' = typedefs[n].of
      BY <2>2 DEF FieldOfTypedef
    <3>3. QED
      BY <3>1, <3>2, ConstantsKnown
  <2>3. CASE typedefs[n].kind # "bad"
    <3>1. typedefs[n].of \in Classes
      BY <2>1, <2>3, TypedefKinds DEF FieldOfTypedef
    <3>2. exc' = CompletenessOf(typedefs[n].of)
      BY <2>3 DEF FieldOfTypedef
    <3>3. QED
      BY <3>1, <3>2, ConstantsKnown
  <2>4. QED
    BY <2>2, <2>3
<1>4. CASE \E e \in EnumTags : FieldOfEnum(e)
  BY <1>4, ConstantsKnown DEF FieldOfEnum
<1>5. CASE CloseRejected
  <2>1. exc' = Top.cls /\ Top.cls \in Classes \cup {Nameless}
    BY <1>5, Popped DEF CloseRejected, InBody
  <2>2. CASE Top.cls = Nameless
    BY <2>1, <2>2, ConstantsKnown
  <2>3. CASE Top.cls # Nameless
    <3>1. failed'[Top.cls] = Top.cls
      BY <1>5, <2>1, <2>3 DEF CloseRejected, HeaderInv, Typed, HeaderTypeOK
    <3>2. Top.cls \in Classes /\ Top.cls # Unset
      BY <2>1, <2>3, Constants DEF Causes
    <3>3. QED
      BY <2>1, <3>1, <3>2, ClassesBlame
  <2>4. QED
    BY <2>2, <2>3
<1>6. CASE Leaves
  <2> PICK es \in SUBSET EnumTags : LeaveBody(es)
    BY <1>6 DEF Leaves
  <2>1. Top.cls \in Classes \cup {Nameless} /\ exc # Fine
    BY Popped DEF LeaveBody
  <2>2. CASE Top.cls = Nameless
    BY <1>1, <2>2 DEF LeaveBody
  <2>3. CASE Top.cls # Nameless
    <3>1. exc' = Blame(Top.cls) /\ failed'[Top.cls] = Blame(Top.cls) /\ Top.cls \in Classes
      BY <2>1, <2>3 DEF LeaveBody, Blamed, HeaderInv, Typed, HeaderTypeOK
    <3>2. Blame(Top.cls) # Unset
      BY <2>1, <3>1, BlameTypes, Constants DEF Causes
    <3>3. QED
      BY <3>1, <3>2, ClassesBlame
  <2>4. QED
    BY <2>2, <2>3
<1>7. CASE EndDeclaration
  <2>1. exc' = exc \/ (ext.form = "typedef" /\ failed[ext.def] # Unset /\ exc' = failed[ext.def])
    BY <1>7 DEF EndDeclaration
  <2>2. ext # Unset /\ ext.form = "typedef" => ext.def \in Classes
    BY DEF HeaderInv, Typed, DeclaredOK
  <2>3. QED
    BY <1>1, <1>7, <2>1, <2>2, ConstantsKnown DEF EndDeclaration
<1>8. CASE exc' = Own
  BY <1>8
<1>9. \/ exc' \in {exc, Own, Fine}
      \/ \E c \in Tags : FieldOfClass(c)
      \/ \E n \in TypedefNames : FieldOfTypedef(n)
      \/ \E e \in EnumTags : FieldOfEnum(e)
      \/ CloseRejected \/ Leaves \/ EndDeclaration
  <2>1. CASE \E c \in Tags : Mention(c)
    BY <2>1 DEF Mention
  <2>2. CASE Redefines
    BY <2>2 DEF Redefines, Redefine
  <2>3. CASE FieldUnsupported
    BY <2>3 DEF FieldUnsupported
  <2>4. CASE \E c \in Tags \cup {Nameless}, via \in {"value", "pointer", "tag"} : FieldBody(c, via)
    BY <2>4 DEF FieldBody
  <2>5. CASE \E e \in EnumTags, width \in {"int", "wide"}, ok \in BOOLEAN : FieldEnumBody(e, width, ok)
    BY <2>5 DEF FieldEnumBody
  <2>6. CASE CloseBody
    BY <2>6 DEF CloseBody
  <2>7. CASE Typedef
    BY <2>7, TypedefSteps DEF UnchangedByName
  <2>8. CASE \E f \in FuncNames, c \in Tags : Function(f, c)
    BY <2>8 DEF Function
  <2>9. CASE EnumBodies
    BY <2>9 DEF EnumBodies, EnumBody
  <2>10. CASE \E e \in EnumTags : EnumLost(e)
    BY <2>10 DEF EnumLost
  <2>11. CASE Declares
    BY <2>11 DEF Declares, DeclareBody, DeclareUnsupported
  <2>12. CASE DeclarationFailed
    BY <2>12 DEF DeclarationFailed
  <2>13. QED
    BY <2>1, <2>2, <2>3, <2>4, <2>5, <2>6, <2>7, <2>8, <2>9, <2>10, <2>11, <2>12
       DEF HeaderNext, Body, Declaration, Redefines, Leaves, Forms, Declares, EnumBodies
<1>10. QED
  BY <1>1, <1>2, <1>3, <1>4, <1>5, <1>6, <1>7, <1>8, <1>9

-----------------------------------------------------------------------------
(* The theorems                                                             *)

LEMMA HeaderInvNext == HeaderInv /\ [HeaderNext]_headerVars => HeaderInv'
<1> SUFFICES ASSUME HeaderInv, [HeaderNext]_headerVars PROVE HeaderInv'
  OBVIOUS
<1>1. CASE HeaderNext
  <2>1. BlamesOK'
    BY <1>1, ClassesBlame, TypedefsBlame, ExceptionsBlame DEF BlamesOK
  <2>2. QED
    BY <1>1, <2>1, TypedNext, OpenedNext, DefinedNext, BoundNext, FunctionsNext, UsesNext,
       EnumsNext, WrongNext DEF HeaderInv
<1>2. CASE UNCHANGED headerVars
  <2>1. Typed'
    BY <1>2 DEF headerVars, HeaderInv, Typed, HeaderTypeOK, TypedefsOK, DeclaredOK
  <2>2. OpenedOK' /\ DefinedOK' /\ BoundOK' /\ FunctionsOK'
    BY <1>2 DEF headerVars, HeaderInv, OpenedOK, DefinedOK, OnStack, BoundOK, FunctionsOK
  <2>3. UsesOK' /\ EnumsOK' /\ WrongOK' /\ BlamesOK'
    BY <1>2 DEF headerVars, HeaderInv, UsesOK, EnumsOK, WrongOK, BlamesOK, Faults, AtFault
  <2>4. QED
    BY <2>1, <2>2, <2>3 DEF HeaderInv
<1>3. QED
  BY <1>1, <1>2

LEMMA HeaderInvAlways == HeaderSpec => []HeaderInv
BY HeaderInvInit, HeaderInvNext, PTL DEF HeaderSpec

\* The converter's variables keep their types (cheader/convert.py).
THEOREM HeaderTypes == HeaderSpec => []HeaderTypeOK
<1>1. HeaderInv => HeaderTypeOK
  BY DEF HeaderInv, Typed
<1>2. QED
  BY <1>1, HeaderInvAlways, PTL

\* Whatever the header says, ctypes never gets a class that contains by value
\* one whose fields are not set yet (require_complete).
THEOREM ByValueIsComplete == HeaderSpec => []ByValueComplete
<1>1. HeaderInv => ByValueComplete
  BY DEF HeaderInv, Typed, HeaderTypeOK, UsesOK, ByValueComplete
<1>2. QED
  BY <1>1, HeaderInvAlways, PTL

\* A class that is exposed has no field for which an enum was guessed to be
\* an int, when the enum's definition was converted or failed (enum_type).
THEOREM EnumsAreNotGuessed == HeaderSpec => []EnumNeverGuessed
<1>1. HeaderInv => EnumNeverGuessed
  BY DEF HeaderInv, Typed, HeaderTypeOK, WrongOK, EnumNeverGuessed
<1>2. QED
  BY <1>1, HeaderInvAlways, PTL

\* However deep a failure started and through whatever was skipped for it, the
\* declaration it is put down to is one that is at fault itself (cause_for).
THEOREM RootIsBlamed == HeaderSpec => []BlamesTheRoot
<1>1. HeaderInv => BlamesTheRoot
  <2> SUFFICES ASSUME HeaderInv PROVE BlamesTheRoot
    OBVIOUS
  <2>1. /\ \A c \in Classes : failed[c] # Unset => AtFault(failed[c])
        /\ \A n \in TypedefNames, r \in Causes : typedefs[n] = Bad(r) => AtFault(r)
    BY DEF HeaderInv, BlamesOK, Faults
  <2>2. \A n \in TypedefNames : typedefs[n] # Unset /\ typedefs[n].kind = "bad" =>
          AtFault(typedefs[n].of)
    BY <2>1, TypedefKinds DEF HeaderInv, Typed
  <2>3. QED
    BY <2>1, <2>2 DEF BlamesTheRoot
<1>2. QED
  BY <1>1, HeaderInvAlways, PTL

\* Between declarations, every class that was defined, every typedef and every
\* function that was declared is exposed, or a diagnostic says why it is not.
THEOREM EverythingIsExplained == HeaderSpec => []Explained
<1>1. HeaderInv => Explained
  <2> SUFFICES ASSUME HeaderInv, Idle PROVE Explained
    BY DEF Explained
  <2>1. /\ DefinedOK /\ BoundOK /\ TypedefsOK
        /\ definitions \subseteq Classes /\ \A c : ~ OnStack(c)
    BY DEF HeaderInv, Typed, HeaderTypeOK, Idle, OnStack
  <2>2. \A c \in definitions : c \in skipped \/ (c \in completed /\ failed[c] = Unset)
    BY <2>1 DEF DefinedOK
  <2>3. ASSUME NEW n \in TypedefNames, typedefs[n] # Unset
        PROVE  Exposed(n) \/ n \in skipped \/ ClassOfName(n) \cap skipped # {}
    <3>1. CASE typedefs[n].kind = "bad"
      BY <2>1, <2>3, <3>1 DEF BoundOK
    <3>2. CASE typedefs[n].kind # "bad"
      <4>1. n \in ns /\ n \notin Tags
        BY <2>1, <2>3, <3>2, Constants DEF BoundOK
      <4>2. \A c \in ClassOfName(n) : c \in Classes
        BY <2>1, <2>3, <4>1, TypedefKinds DEF ClassOfName
      <4>3. QED
        BY <2>1, <4>1, <4>2 DEF Exposed, DefinedOK
    <3>3. QED
      BY <3>1, <3>2
  <2>4. ASSUME NEW f \in functions
        PROVE  Exposed(f) \/ f \in skipped
    <3>1. f \in ns \cup skipped
      BY DEF HeaderInv, FunctionsOK, Idle
    <3>2. f \notin Tags /\ f \notin TypedefNames
      BY HeaderAssumption DEF HeaderInv, Typed, HeaderTypeOK
    <3>3. QED
      BY <3>1, <3>2 DEF Exposed, ClassOfName
  <2>5. QED
    BY <2>2, <2>3, <2>4 DEF Explained
<1>2. QED
  BY <1>1, HeaderInvAlways, PTL

\* A class that failed before it had fields never gets any: what was skipped
\* for the lack of them was skipped rightly.
THEOREM FailuresLast == HeaderSpec => FailedForGood
<1>1. HeaderInv /\ [HeaderNext]_headerVars =>
        [\A c \in Classes : failed[c] # Unset /\ c \notin completed => c \notin completed']_headerVars
  <2> SUFFICES ASSUME HeaderInv, HeaderNext, NEW c \in Classes, failed[c] # Unset, c \notin completed
               PROVE  c \notin completed'
    OBVIOUS
  <2>1. CASE CloseBody
    <3>1. /\ completed' = completed \cup ({Top.cls} \ {Nameless})
          /\ Len(stack) \in 1 .. Len(stack) /\ Top = stack[Len(stack)]
      BY <2>1, Popped DEF CloseBody, InBody, Top
    <3>2. Top.cls # c
      BY <3>1, Constants DEF HeaderInv, OpenedOK
    <3>3. QED
      BY <3>1, <3>2
  <2>2. CASE UNCHANGED completed
    BY <2>2
  <2>3. QED
    BY <2>1, <2>2, BodySteps
       DEF BodyState, Opens, Redefines, Redefine, CloseRejected, Leaves, LeaveBody, DeclarationFailed
<1>2. QED
  BY <1>1, HeaderInvAlways, PTL DEF HeaderSpec, FailedForGood

-----------------------------------------------------------------------------
(* The text of a header: where declarations start                           *)

-----------------------------------------------------------------------------
\* Where declarations start.
Lengthy(d) == \A i \in 1 .. Len(d) : d[i].len \in Nat \ {0}

LEMMA StartAdds ==
  ASSUME NEW S, NEW d \in Seq(S), Lengthy(d)
  PROVE  /\ StartOf(d, 1) = 0
         /\ \A i \in 1 .. Len(d) : StartOf(d, i + 1) = StartOf(d, i) + d[i].len
         /\ \A i \in 1 .. Len(d) + 1 : StartOf(d, i) \in Nat
<1> DEFINE N == Len(d)
           Ends(f) == [k \in 0 .. N |-> IF k = 0 THEN 0 ELSE f[k - 1] + d[k].len]
           end == CHOOSE f : f = Ends(f)
           step == [k \in 1 .. N |-> [n \in Nat |-> n + d[k].len]]
<1>1. N \in Nat
  OBVIOUS
<1>2. step \in [1 .. N -> [Nat -> Nat]]
  BY <1>1 DEF Lengthy
<1>3. \A i : StartOf(d, i) = end[i - 1]
  BY DEF StartOf
<1>4. PICK f \in [0 .. N -> Nat] : Recurs(f, N, 0, step)
  <2> HIDE DEF step, N
  <2>1. 0 \in Nat
    OBVIOUS
  <2>2. QED
    BY <1>1, <1>2, <2>1, RecursionTo, Zenon
<1>5. f = Ends(f)
  <2>1. ASSUME NEW k \in 1 .. N PROVE f[k] = f[k - 1] + d[k].len
    <3> HIDE DEF step
    <3>1. f[k] = step[k][f[k - 1]] /\ f[k - 1] \in Nat
      BY <1>1, <1>4 DEF Recurs
    <3>2. QED
      BY <3>1 DEF step
  <2>2. QED
    BY <1>4, <2>1 DEF Recurs
<1>6. end = Ends(end)
  <2> HIDE DEF Ends
  <2>1. QED
    BY <1>5
<1> HIDE DEF end
<1>7. end \in [0 .. N -> Nat]
  <2> DEFINE T == {n \in Nat : n <= N => end[n] \in Nat}
  <2>1. 0 \in T /\ \A n \in Nat : n \in T => n + 1 \in T
    BY <1>1, <1>6 DEF Lengthy
  <2> HIDE DEF T
  <2>2. \A n \in Nat : n \in T
    BY <2>1, AllNumbers
  <2>3. \A n \in 0 .. N : end[n] \in Nat
    BY <1>1, <2>2 DEF T
  <2>4. QED
    BY <1>6, <2>3
<1>8. end[0] = 0 /\ \A k \in 1 .. N : end[k] = end[k - 1] + d[k].len
  BY <1>1, <1>6
<1>9. QED
  <2>1. \A i \in 1 .. N : (i + 1) - 1 \in 1 .. N /\ ((i + 1) - 1) - 1 = i - 1 /\ (i + 1) - 1 = i
    BY <1>1
  <2>2. \A i \in 1 .. N + 1 : i - 1 \in 0 .. N
    BY <1>1
  <2>3. \A i \in 1 .. N : end[(i + 1) - 1] = end[i - 1] + d[i].len
    BY <1>8, <2>1
  <2>4. \A i \in 1 .. N + 1 : end[i - 1] \in Nat
    BY <1>7, <2>2
  <2>5. end[1 - 1] = 0
    BY <1>8
  <2>6. QED
    BY <1>3, <2>3, <2>4, <2>5

-----------------------------------------------------------------------------
(* Bisection                                                                *)

\* p has as many entries of list before it as are not greater than x.
SplitsAt(list, x, p) ==
  /\ \A k \in 1 .. Len(list) : list[k] \in Int
  /\ p \in 0 .. Len(list)
  /\ \A k \in 1 .. Len(list) : x < list[k] <=> p < k

\* The midpoint is one of those still looked at.
LEMMA Midpoint ==
  ASSUME NEW lo \in Nat, NEW hi \in Nat, lo < hi
  PROVE  (lo + hi) \div 2 \in lo .. hi - 1
BY SMT

\* What a search of lo .. hi returns when the answer is p.
Clamp(p, lo, hi) == IF lo >= hi \/ p <= lo THEN lo ELSE IF p >= hi THEN hi ELSE p

\* Bisection finds where a sorted list passes a number (bisect_right).
LEMMA BisectFinds ==
  ASSUME NEW list, Len(list) \in Nat, NEW x, NEW p, SplitsAt(list, x, p)
  PROVE  Bisect(list, x) = p
<1> DEFINE n == Len(list)
           R == (0 .. n) \X (0 .. n)
           Half(r) == (r[1] + r[2]) \div 2
           Step(f, r) ==
             IF r[1] >= r[2] THEN r[1]
             ELSE IF x < list[Half(r) + 1] THEN f[<<r[1], Half(r)>>] ELSE f[<<Half(r) + 1, r[2]>>]
           search == CHOOSE f : f = [r \in R |-> Step(f, r)]
           clamped == [r \in R |-> Clamp(p, r[1], r[2])]
<1>1. Bisect(list, x) = search[<<0, n>>]
  BY DEF Bisect
<1>2. n \in Nat /\ p \in 0 .. n /\ \A k \in 1 .. n : x < list[k] <=> p < k
  BY DEF SplitsAt
<1> HIDE DEF n
<1>3. ASSUME NEW r \in R, r[1] < r[2]
      PROVE  /\ r[1] \in Nat /\ r[2] \in Nat /\ Half(r) \in r[1] .. r[2] - 1
             /\ <<r[1], Half(r)>> \in R /\ <<Half(r) + 1, r[2]>> \in R
             /\ x < list[Half(r) + 1] <=> p <= Half(r)
  <2> DEFINE mid == Half(r)
  <2>1. r[1] \in 0 .. n /\ r[2] \in 0 .. n
    OBVIOUS
  <2>2. mid \in r[1] .. r[2] - 1
    BY <1>2, <1>3, <2>1, Midpoint
  <2> HIDE DEF mid
  <2>3. mid + 1 \in 1 .. n /\ mid \in 0 .. n /\ mid + 1 \in 0 .. n
    BY <1>2, <2>1, <2>2
  <2>4. x < list[mid + 1] <=> p <= mid
    BY <1>2, <2>3
  <2>5. QED
    BY <1>2, <2>1, <2>2, <2>3, <2>4 DEF mid
<1>4. ASSUME NEW r \in R, NEW f, \A s \in R : s[2] - s[1] < r[2] - r[1] => f[s] = Clamp(p, s[1], s[2])
      PROVE  Step(f, r) = Clamp(p, r[1], r[2])
  <2>1. r[1] \in 0 .. n /\ r[2] \in 0 .. n
    OBVIOUS
  <2>2. CASE r[1] >= r[2]
    BY <2>2 DEF Clamp
  <2>3. CASE ~ (r[1] >= r[2])
    <3>1. r[1] < r[2]
      BY <1>2, <2>1, <2>3
    <3> DEFINE mid == Half(r)
               below == <<r[1], mid>>
               above == <<mid + 1, r[2]>>
    <3>2. /\ r[1] \in Nat /\ r[2] \in Nat /\ mid \in r[1] .. r[2] - 1
          /\ below \in R /\ above \in R
          /\ x < list[mid + 1] <=> p <= mid
      BY <1>3, <3>1
    <3>3. Step(f, r) = IF x < list[mid + 1] THEN f[below] ELSE f[above]
      BY <2>3
    <3> HIDE DEF mid
    <3>4. below[1] = r[1] /\ below[2] = mid /\ above[1] = mid + 1 /\ above[2] = r[2]
      OBVIOUS
    <3> HIDE DEF below, above, Step
    <3>5. below[2] - below[1] < r[2] - r[1] /\ above[2] - above[1] < r[2] - r[1]
      BY <3>2, <3>4
    <3>6. f[below] = Clamp(p, r[1], mid) /\ f[above] = Clamp(p, mid + 1, r[2])
      BY <1>4, <3>2, <3>4, <3>5
    <3>7. p \in Nat /\ mid \in Nat
      BY <1>2, <3>2
    <3>8. CASE p <= mid
      <4>1. Clamp(p, r[1], mid) = Clamp(p, r[1], r[2])
        BY <3>1, <3>2, <3>7, <3>8 DEF Clamp
      <4>2. QED
        BY <3>2, <3>3, <3>6, <3>8, <4>1
    <3>9. CASE ~ (p <= mid)
      <4>1. Clamp(p, mid + 1, r[2]) = Clamp(p, r[1], r[2])
        BY <3>1, <3>2, <3>7, <3>9 DEF Clamp
      <4>2. QED
        BY <3>2, <3>3, <3>6, <3>9, <4>1
    <3>10. QED
      BY <3>8, <3>9
  <2>4. QED
    BY <2>2, <2>3
<1>5. clamped = [r \in R |-> Step(clamped, r)]
  <2>1. \A r \in R : clamped[r] = Clamp(p, r[1], r[2])
    OBVIOUS
  <2>2. DOMAIN clamped = R
    OBVIOUS
  <2>3. clamped = [r \in R |-> Clamp(p, r[1], r[2])]
    OBVIOUS
  <2> HIDE DEF clamped, R, Step
  <2>4. \A r \in R : Step(clamped, r) = Clamp(p, r[1], r[2])
    BY <1>4, <2>1
  <2>5. QED
    BY <2>3, <2>4
<1>6. search = [r \in R |-> Step(search, r)]
  <2> HIDE DEF clamped, R, Step
  <2>1. QED
    BY <1>5 DEF search
<1> HIDE DEF search
<1>7. \A r \in R : search[r] = Step(search, r)
  <2> HIDE DEF R, Step
  <2>1. QED
    BY <1>6
<1> DEFINE T == {m \in Nat : \A r \in R : r[2] - r[1] < m => search[r] = Clamp(p, r[1], r[2])}
<1> HIDE DEF Step, clamped
<1>8. 0 \in T
  <2> SUFFICES ASSUME NEW r \in R, r[2] - r[1] < 0 PROVE search[r] = Clamp(p, r[1], r[2])
    OBVIOUS
  <2>1. r[1] \in 0 .. n /\ r[2] \in 0 .. n
    OBVIOUS
  <2>2. r[1] >= r[2]
    BY <1>2, <2>1
  <2>3. QED
    BY <1>7, <2>2 DEF Step, Clamp
<1>9. ASSUME NEW m \in Nat, m \in T PROVE m + 1 \in T
  <2> SUFFICES ASSUME NEW r \in R, r[2] - r[1] < m + 1 PROVE search[r] = Clamp(p, r[1], r[2])
    OBVIOUS
  <2>1. \A s \in R : s[2] - s[1] \in Int
    BY <1>2
  <2>2. \A s \in R : s[2] - s[1] < r[2] - r[1] => search[s] = Clamp(p, s[1], s[2])
    <3> HIDE DEF R
    <3>1. QED
      BY <1>9, <2>1
  <2>3. QED
    BY <1>4, <1>7, <2>2
<1>10. <<0, n>> \in R /\ n - 0 < n + 1 /\ n + 1 \in Nat
  BY <1>2
<1>11. n + 1 \in T
  <2> HIDE DEF T
  <2>1. QED
    BY <1>8, <1>9, <1>10, AllNumbers
<1>12. search[<<0, n>>] = Clamp(p, 0, n)
  BY <1>10, <1>11
<1>13. QED
  BY <1>1, <1>2, <1>12 DEF Clamp

-----------------------------------------------------------------------------
(* The invariant of the text                                                *)

Decls == [shape : Shapes, len : Nat \ {0}, taken : BOOLEAN]
TextTypeOK ==
  /\ decls \in Seq(Decls)
  /\ braces \in Seq([at : Int, inner : Int])
  /\ attrs \in Seq([kind : {"field", "decl"}, at : Int, body : Int, first : Int, end : Int, of : Nat])

\* A declaration that was kept is as long as it was written.
KeptWhole == \A i \in Kept : decls[i].len = decls[i].shape.len

\* The spans are those of the text, what is recorded of the kept ones is right.
TextInv == TextTypeOK /\ spans = Whole /\ KeptWhole /\ RecordsFollow

\* What shapes, and then declarations, are made of.
LEMMA ShapeFields ==
  ASSUME NEW s \in Shapes
  PROVE  s.len \in Nat /\ s.len > 5 /\ s.attr \in {"field", "decl", "none"}
BY TextAssumption DEF Shapes

LEMMA DeclFields ==
  ASSUME NEW d \in Seq(Decls)
  PROVE  /\ Len(d) \in Nat /\ DOMAIN d = 1 .. Len(d) /\ Lengthy(d)
         /\ \A i \in 1 .. Len(d) : d[i].shape \in Shapes /\ d[i].len \in Nat \ {0} /\ d[i].taken \in BOOLEAN
<1>1. Len(d) \in Nat /\ DOMAIN d = 1 .. Len(d) /\ \A i \in 1 .. Len(d) : d[i] \in Decls
  BY ElementOfSeq
<1>2. QED
  BY <1>1 DEF Lengthy, Decls

\* A declaration starts before the next one, which starts where it ends.
LEMMA StartRises ==
  ASSUME NEW d \in Seq(Decls), NEW k \in 1 .. Len(d)
  PROVE  /\ StartOf(d, k) \in Nat /\ StartOf(d, k + 1) \in Nat /\ StartOf(d, k) < StartOf(d, k + 1)
         /\ StartOf(d, k + 1) = StartOf(d, k) + d[k].len
<1>1. Len(d) \in Nat /\ Lengthy(d) /\ d[k].len \in Nat \ {0}
  BY DeclFields
<1>2. StartOf(d, k + 1) = StartOf(d, k) + d[k].len
  BY <1>1, StartAdds
<1>3. k \in 1 .. Len(d) + 1
  BY <1>1
<1>4. StartOf(d, k) \in Nat
  BY <1>1, <1>3, StartAdds
<1>5. QED
  BY <1>1, <1>2, <1>4

\* A declaration starts where one before it has ended, or later.
LEMMA StartsInOrder ==
  ASSUME NEW d \in Seq(Decls), NEW i \in 1 .. Len(d), NEW j \in 1 .. Len(d), i < j
  PROVE  StartOf(d, i + 1) <= StartOf(d, j)
<1> DEFINE N == Len(d)
           off == [k \in 0 .. N |-> StartOf(d, k + 1)]
<1>1. N \in Nat /\ Lengthy(d)
  BY DeclFields
<1>2. /\ \A k \in 1 .. N : StartOf(d, k + 1) = StartOf(d, k) + d[k].len
      /\ \A k \in 1 .. N + 1 : StartOf(d, k) \in Nat
  BY <1>1, StartAdds
<1>3. \A k \in 0 .. N : k + 1 \in 1 .. N + 1
  BY <1>1
<1>4. off \in [0 .. N -> Nat]
  BY <1>2, <1>3
<1>5. ASSUME NEW k \in 1 .. N PROVE off[k - 1] <= off[k]
  <2>1. k - 1 \in 0 .. N /\ k \in 0 .. N /\ (k - 1) + 1 = k /\ k \in 1 .. N + 1
    BY <1>1
  <2>2. StartOf(d, k) <= StartOf(d, k + 1)
    BY StartRises
  <2>3. QED
    BY <2>1, <2>2
<1>6. i \in 0 .. N /\ j - 1 \in i .. N /\ j - 1 \in 0 .. N /\ (j - 1) + 1 = j
  BY <1>1
<1>7. off[i] <= off[j - 1]
  <2> HIDE DEF off, N
  <2>1. QED
    BY <1>1, <1>4, <1>5, <1>6, SumsGrow
<1>8. QED
  BY <1>6, <1>7

-----------------------------------------------------------------------------
\* A position in declaration i is found there.
LEMMA SpansFound ==
  ASSUME TextInv
  PROVE  SpansFollow
<1> SUFFICES ASSUME NEW i \in DOMAIN decls, NEW p \in Whole[i][1] .. Whole[i][2] - 1
             PROVE  SpanIndex(p) = i
  BY DEF SpansFollow
<1> DEFINE N == Len(decls)
           list == [j \in DOMAIN spans |-> spans[j][1]]
<1>1. decls \in Seq(Decls) /\ N \in Nat /\ DOMAIN decls = 1 .. N /\ Lengthy(decls)
  BY DeclFields DEF TextInv, TextTypeOK
<1>2. /\ \A k \in 1 .. N : StartOf(decls, k + 1) = StartOf(decls, k) + decls[k].len
      /\ \A k \in 1 .. N + 1 : StartOf(decls, k) \in Nat
  BY <1>1, StartAdds
<1>3. DOMAIN spans = 1 .. N /\ \A j \in 1 .. N : spans[j] = <<StartOf(decls, j), StartOf(decls, j + 1)>>
  BY <1>1 DEF TextInv, Whole
<1>4. Len(list) = N /\ \A j \in 1 .. N : list[j] = StartOf(decls, j)
  BY <1>1, <1>3
<1>5. \A j \in 1 .. N : j + 1 \in 1 .. N + 1 /\ j \in 1 .. N + 1
  BY <1>1
<1>6. p >= StartOf(decls, i) /\ p < StartOf(decls, i + 1) /\ p \in Int
  <2>1. Whole[i] = <<StartOf(decls, i), StartOf(decls, i + 1)>>
    BY DEF Whole
  <2>2. StartOf(decls, i) \in Nat /\ StartOf(decls, i + 1) \in Nat
    BY <1>1, <1>2, <1>5
  <2>3. QED
    BY <2>1, <2>2
<1> HIDE DEF list, N
<1>7. ASSUME NEW k \in 1 .. N PROVE p < list[k] <=> i < k
  <2>1. StartOf(decls, k) \in Nat /\ StartOf(decls, i + 1) \in Nat /\ StartOf(decls, i) \in Nat /\ i \in 1 .. N
        /\ list[k] = StartOf(decls, k)
    BY <1>1, <1>2, <1>4, <1>5
  <2>2. CASE i < k
    <3>1. StartOf(decls, i + 1) <= StartOf(decls, k)
      BY <1>1, <2>1, <2>2, StartsInOrder DEF N
    <3>2. QED
      BY <1>6, <2>1, <2>2, <3>1
  <2>3. CASE k = i
    BY <1>6, <2>1, <2>3
  <2>4. CASE k < i
    <3>1. StartOf(decls, k + 1) <= StartOf(decls, i)
      BY <1>1, <2>1, <2>4, StartsInOrder DEF N
    <3>2. StartOf(decls, k) <= StartOf(decls, k + 1) /\ StartOf(decls, k + 1) \in Nat
      BY <1>1, StartRises DEF N
    <3>3. QED
      BY <1>1, <1>6, <2>1, <2>4, <3>1, <3>2
  <2>5. QED
    BY <1>1, <2>1, <2>2, <2>3, <2>4
<1>8. SplitsAt(list, p, i)
  BY <1>1, <1>2, <1>4, <1>5, <1>7 DEF SplitsAt
<1>9. Bisect(list, p) = i
  BY <1>1, <1>4, <1>8, BisectFinds
<1>10. p < spans[i][2] /\ i > 0
  BY <1>1, <1>3, <1>6
<1>11. QED
  BY <1>9, <1>10 DEF SpanIndex, list

\* When declaration i gets another length, those behind it move.
LEMMA StartsMove ==
  ASSUME NEW d \in Seq(Decls), NEW e \in Seq(Decls), Len(e) = Len(d), NEW i \in 1 .. Len(d),
         \A j \in 1 .. Len(d) : j # i => e[j].len = d[j].len
  PROVE  \A j \in 1 .. Len(d) + 1 :
           StartOf(e, j) = StartOf(d, j) + IF j > i THEN e[i].len - d[i].len ELSE 0
<1> DEFINE N == Len(d)
           delta == e[i].len - d[i].len
           New(j) == StartOf(d, j) + IF j > i THEN delta ELSE 0
           T == {m \in Nat : m + 1 <= N + 1 => StartOf(e, m + 1) = New(m + 1)}
<1>1. N \in Nat /\ \A j \in 1 .. N : d[j].len \in Nat /\ e[j].len \in Nat
  BY DeclFields
<1>2. delta \in Int /\ i \in 1 .. N
  BY <1>1
<1>3. StartOf(e, 1) = 0 /\ StartOf(d, 1) = 0
  BY DeclFields, StartAdds
<1>4. \A j \in 1 .. N : /\ StartOf(d, j + 1) = StartOf(d, j) + d[j].len /\ StartOf(d, j) \in Nat
                        /\ StartOf(e, j + 1) = StartOf(e, j) + e[j].len /\ StartOf(e, j) \in Nat
  BY StartRises
<1>5. 0 \in T
  BY <1>1, <1>2, <1>3
<1>6. ASSUME NEW m \in Nat, m \in T PROVE m + 1 \in T
  <2> DEFINE j == m + 1
  <2> SUFFICES ASSUME j + 1 <= N + 1 PROVE StartOf(e, j + 1) = New(j + 1)
    OBVIOUS
  <2>1. j \in 1 .. N /\ StartOf(e, j) = New(j)
    BY <1>1, <1>6
  <2>2. /\ StartOf(d, j + 1) = StartOf(d, j) + d[j].len /\ StartOf(d, j) \in Nat
        /\ StartOf(e, j + 1) = StartOf(e, j) + e[j].len /\ StartOf(e, j) \in Nat
        /\ d[j].len \in Nat /\ e[j].len \in Nat
    BY <1>1, <1>4, <2>1
  <2> HIDE DEF j
  <2>3. CASE j = i
    <3>1. e[j].len = d[j].len + delta /\ j + 1 > i /\ ~ (j > i)
      BY <1>2, <2>1, <2>2, <2>3
    <3> HIDE DEF delta
    <3>2. QED
      BY <1>2, <2>1, <2>2, <2>3, <3>1
  <2>4. CASE j # i
    <3>1. e[j].len = d[j].len /\ (j + 1 > i <=> j > i)
      BY <1>2, <2>1, <2>4
    <3> HIDE DEF delta
    <3>2. QED
      BY <1>2, <2>1, <2>2, <3>1
  <2>5. QED
    BY <2>3, <2>4
<1>7. \A m \in Nat : m \in T
  <2> HIDE DEF T
  <2>1. QED
    BY <1>5, <1>6, AllNumbers
<1>8. \A j \in 1 .. N + 1 : j - 1 \in Nat /\ (j - 1) + 1 = j /\ j <= N + 1
  BY <1>1
<1>9. \A j \in 1 .. N + 1 : StartOf(e, j) = New(j)
  <2> HIDE DEF New
  <2>1. QED
    BY <1>7, <1>8
<1>10. QED
  BY <1>9

\* replace_span keeps the invariant.
LEMMA ReplaceKeeps ==
  ASSUME TextInv, NEW i \in DOMAIN decls, ~ decls[i].taken, NEW len \in Nat \ {0},
         ReplaceSpan(i, len)
  PROVE  TextInv'
<1> DEFINE N == Len(decls)
           end == StartOf(decls, i + 1)
           delta == len - decls[i].len
           By(j) == IF j > i THEN delta ELSE 0
<1>1. decls \in Seq(Decls) /\ N \in Nat /\ DOMAIN decls = 1 .. N /\ i \in 1 .. N
      /\ \A j \in 1 .. N : decls[j] \in Decls
  BY DeclFields, ElementOfSeq DEF TextInv, TextTypeOK
<1>2. /\ \A j \in 1 .. N : decls[j].shape \in Shapes /\ decls[j].len \in Nat \ {0}
      /\ delta \in Int
  BY <1>1, DeclFields
<1>3. /\ DOMAIN spans = 1 .. N
      /\ \A j \in 1 .. N : spans[j][1] = StartOf(decls, j) /\ spans[j][2] = StartOf(decls, j + 1)
  BY <1>1 DEF TextInv, Whole
<1>4. \A j \in 1 .. N :
         /\ StartOf(decls, j) \in Nat /\ StartOf(decls, j + 1) \in Nat
         /\ StartOf(decls, j) < StartOf(decls, j + 1) /\ StartOf(decls, j + 1) = StartOf(decls, j) + decls[j].len
  BY <1>1, StartRises
<1>5. spans[i][2] = end /\ end \in Nat /\ end > 0 /\ len - (end - spans[i][1]) = delta
      /\ spans[i][1] = StartOf(decls, i)
  BY <1>1, <1>2, <1>3, <1>4
<1> HIDE DEF N, delta, end
<1>6. /\ decls' = [decls EXCEPT ![i].len = len, ![i].taken = TRUE]
      /\ spans' = [j \in DOMAIN spans |->
                    IF j = i THEN <<spans[i][1], spans[i][1] + len>>
                    ELSE IF j > i THEN <<Moved(spans[j][1], end, delta), Moved(spans[j][2], end, delta)>>
                    ELSE spans[j]]
      /\ braces' = MovedBraces(end, delta)
      /\ attrs' = [a \in DOMAIN attrs |->
                    [attrs[a] EXCEPT !.at = Moved(@, end, delta), !.body = Moved(@, end, delta),
                                     !.first = Moved(@, end, delta), !.end = Moved(@, end, delta)]]
  BY <1>5 DEF ReplaceSpan
<1>7. /\ decls' \in Seq(Decls) /\ Len(decls') = N /\ DOMAIN decls' = 1 .. N
      /\ \A j \in 1 .. N : j # i => decls'[j] = decls[j]
      /\ decls'[i].len = len /\ decls'[i].taken
  <2> DEFINE x == [decls[i] EXCEPT !.len = len, !.taken = TRUE]
  <2>1. x \in Decls /\ x.len = len /\ x.taken
    BY <1>1 DEF Decls
  <2>2. decls' = [decls EXCEPT ![i] = x]
    BY <1>1, <1>6
  <2> HIDE DEF x
  <2>3. /\ decls' \in Seq(Decls) /\ Len(decls') = N
        /\ \A j \in 1 .. N : decls'[j] = IF j = i THEN x ELSE decls[j]
    BY <1>1, <2>1, <2>2, ExceptSeq DEF N
  <2>4. QED
    BY <1>1, <2>1, <2>3
<1>8. \A j \in 1 .. N + 1 : StartOf(decls', j) = StartOf(decls, j) + By(j)
  <2>1. \A j \in 1 .. N + 1 :
          StartOf(decls', j) = StartOf(decls, j) + IF j > i THEN decls'[i].len - decls[i].len ELSE 0
    BY <1>1, <1>7, StartsMove DEF N
  <2>2. QED
    BY <1>7, <2>1 DEF delta
<1>9. ASSUME NEW j \in 1 .. N, NEW c \in Nat, c < decls[j].len, j # i
      PROVE  Moved(StartOf(decls, j) + c, end, delta) = StartOf(decls', j) + c
  <2>1. j \in 1 .. N + 1 /\ i \in 1 .. N /\ StartOf(decls, j) \in Nat
    BY <1>1, <1>4
  <2>2. StartOf(decls', j) = StartOf(decls, j) + By(j)
    BY <1>8, <2>1
  <2>3. CASE j > i
    <3>1. end <= StartOf(decls, j)
      BY <1>1, <2>1, <2>3, StartsInOrder DEF end, N
    <3>2. QED
      BY <1>2, <1>5, <2>1, <2>2, <2>3, <3>1 DEF Moved
  <2>4. CASE ~ (j > i)
    <3>1. j < i
      BY <1>1, <1>9, <2>4
    <3>2. StartOf(decls, j + 1) <= StartOf(decls, i)
      BY <1>1, <3>1, StartsInOrder DEF N
    <3>3. StartOf(decls, j + 1) = StartOf(decls, j) + decls[j].len /\ decls[j].len \in Nat
          /\ StartOf(decls, i) < end
      BY <1>1, <1>2, <1>4 DEF end
    <3>4. StartOf(decls, i) \in Nat /\ StartOf(decls, j + 1) \in Nat /\ c \in Nat /\ c < decls[j].len
      BY <1>1, <1>4, <1>9
    <3>5. ~ (StartOf(decls, j) + c >= end)
      BY <1>5, <2>1, <3>2, <3>3, <3>4
    <3>6. QED
      BY <2>1, <2>2, <2>4, <3>5 DEF Moved
  <2>5. QED
    BY <2>3, <2>4
<1>10. spans' = Whole'
  <2>1. DOMAIN spans' = 1 .. N /\ Whole' = [j \in 1 .. N |-> <<StartOf(decls', j), StartOf(decls', j + 1)>>]
    BY <1>3, <1>6, <1>7 DEF Whole
  <2>2. spans' = [j \in 1 .. N |-> spans'[j]]
    BY <1>3, <1>6
  <2>3. ASSUME NEW j \in 1 .. N PROVE spans'[j] = <<StartOf(decls', j), StartOf(decls', j + 1)>>
    <3>1. /\ j \in 1 .. N + 1 /\ j + 1 \in 1 .. N + 1 /\ i \in Nat
          /\ StartOf(decls, j) \in Nat /\ StartOf(decls, j + 1) \in Nat
      BY <1>1, <1>4
    <3>2. /\ StartOf(decls', j) = StartOf(decls, j) + By(j)
          /\ StartOf(decls', j + 1) = StartOf(decls, j + 1) + By(j + 1)
      BY <1>8, <3>1
    <3>3. spans[j][1] = StartOf(decls, j) /\ spans[j][2] = StartOf(decls, j + 1)
          /\ spans[j] = <<StartOf(decls, j), StartOf(decls, j + 1)>>
      BY <1>1, <1>3 DEF TextInv, Whole
    <3>4. CASE j = i
      <4>1. StartOf(decls', j) = StartOf(decls, j) /\ StartOf(decls', j + 1) = StartOf(decls, j + 1) + delta
        BY <1>2, <3>1, <3>2, <3>4
      <4>2. StartOf(decls, j + 1) + delta = StartOf(decls, j) + len
        BY <1>2, <1>4, <3>1, <3>4 DEF delta
      <4>3. spans'[j] = <<spans[i][1], spans[i][1] + len>>
        BY <1>3, <1>6, <3>4
      <4>4. QED
        BY <1>5, <3>4, <4>1, <4>2, <4>3
    <3>5. CASE j > i
      <4>1. end <= StartOf(decls, j) /\ StartOf(decls, j) < StartOf(decls, j + 1)
        BY <1>1, <1>4, <3>5, StartsInOrder DEF end, N
      <4>2. /\ Moved(spans[j][1], end, delta) = StartOf(decls, j) + delta
            /\ Moved(spans[j][2], end, delta) = StartOf(decls, j + 1) + delta
        BY <1>5, <3>1, <3>3, <4>1 DEF Moved
      <4>3. By(j) = delta /\ By(j + 1) = delta /\ j # i
        BY <3>1, <3>5
      <4>4. spans'[j] = <<Moved(spans[j][1], end, delta), Moved(spans[j][2], end, delta)>>
        BY <1>3, <1>6, <3>5, <4>3
      <4>5. QED
        BY <3>2, <4>2, <4>3, <4>4
    <3>6. CASE j < i
      <4>1. By(j) = 0 /\ By(j + 1) = 0 /\ j # i /\ ~ (j > i)
        BY <3>1, <3>6
      <4>2. spans'[j] = spans[j]
        BY <1>3, <1>6, <4>1
      <4>3. QED
        BY <3>1, <3>2, <3>3, <4>1, <4>2
    <3>7. QED
      BY <1>1, <3>4, <3>5, <3>6
  <2>4. QED
    BY <2>1, <2>2, <2>3
<1>11. Kept' = Kept \ {i}
  <2>1. \A j \in 1 .. N : ~ decls'[j].taken <=> j # i /\ ~ decls[j].taken
    BY <1>7
  <2>2. QED
    BY <1>1, <1>7, <2>1 DEF Kept
<1>12. KeptWhole'
  <2>1. \A j \in Kept : j \in 1 .. N /\ decls[j].len = decls[j].shape.len
    BY <1>1 DEF TextInv, KeptWhole, Kept
  <2>2. \A j \in Kept' : decls'[j] = decls[j] /\ j \in Kept
    BY <1>7, <1>11, <2>1
  <2>3. QED
    BY <2>1, <2>2 DEF KeptWhole
<1>13. braces' \in Seq([at : Int, inner : Int]) /\ Len(braces') = Len(braces)
       /\ \A n \in 1 .. Len(braces) : /\ braces'[n].at = Moved(braces[n].at, end, delta)
                                      /\ braces'[n].inner = Moved(braces[n].inner, end, delta)
                                      /\ braces'[n] \in [at : Int, inner : Int]
  <2>1. /\ Len(braces) \in Nat /\ DOMAIN braces = 1 .. Len(braces)
        /\ \A n \in 1 .. Len(braces) : braces[n].at \in Int /\ braces[n].inner \in Int
    <3>1. braces \in Seq([at : Int, inner : Int])
      BY DEF TextInv, TextTypeOK
    <3>2. Len(braces) \in Nat /\ DOMAIN braces = 1 .. Len(braces)
      BY <3>1
    <3>3. \A n \in 1 .. Len(braces) : braces[n] \in [at : Int, inner : Int]
      BY <3>1, ElementOfSeq
    <3>4. QED
      BY <3>2, <3>3
  <2>2. \A p \in Int : Moved(p, end, delta) \in Int
    BY <1>2, <1>5 DEF Moved
  <2>3. braces' = [n \in 1 .. Len(braces) |-> [at |-> Moved(braces[n].at, end, delta),
                                              inner |-> Moved(braces[n].inner, end, delta)]]
    BY <1>6, <2>1 DEF MovedBraces
  <2>4. \A n \in 1 .. Len(braces) : /\ braces'[n].at = Moved(braces[n].at, end, delta)
                                     /\ braces'[n].inner = Moved(braces[n].inner, end, delta)
                                     /\ braces'[n] \in [at : Int, inner : Int]
    BY <2>1, <2>2, <2>3
  <2>5. braces' = [n \in 1 .. Len(braces) |-> braces'[n]]
    BY <2>3
  <2> DEFINE B == [at : Int, inner : Int]
  <2> HIDE DEF B
  <2>6. \A n \in 1 .. Len(braces) : braces'[n] \in B
    BY <2>4 DEF B
  <2>7. braces' \in Seq(B) /\ Len(braces') = Len(braces)
    BY <2>1, <2>5, <2>6
  <2>8. QED
    BY <2>4, <2>7 DEF B
<1>14. /\ attrs' \in Seq([kind : {"field", "decl"}, at : Int, body : Int, first : Int, end : Int, of : Nat])
       /\ Len(attrs') = Len(attrs)
       /\ \A n \in 1 .. Len(attrs) :
            attrs'[n] = [kind |-> attrs[n].kind, at |-> Moved(attrs[n].at, end, delta),
                         body |-> Moved(attrs[n].body, end, delta),
                         first |-> Moved(attrs[n].first, end, delta),
                         end |-> Moved(attrs[n].end, end, delta), of |-> attrs[n].of]
  <2> DEFINE A == [kind : {"field", "decl"}, at : Int, body : Int, first : Int, end : Int, of : Nat]
  <2>1. /\ Len(attrs) \in Nat /\ DOMAIN attrs = 1 .. Len(attrs)
        /\ \A n \in 1 .. Len(attrs) : attrs[n] \in A
    <3>1. attrs \in Seq(A)
      BY DEF TextInv, TextTypeOK
    <3> HIDE DEF A
    <3>2. Len(attrs) \in Nat /\ DOMAIN attrs = 1 .. Len(attrs)
      BY <3>1
    <3>3. QED
      BY <3>1, <3>2, ElementOfSeq
  <2>2. \A p \in Int : Moved(p, end, delta) \in Int
    BY <1>2, <1>5 DEF Moved
  <2>3. ASSUME NEW n \in 1 .. Len(attrs)
        PROVE  /\ attrs'[n] = [kind |-> attrs[n].kind, at |-> Moved(attrs[n].at, end, delta),
                         body |-> Moved(attrs[n].body, end, delta),
                         first |-> Moved(attrs[n].first, end, delta),
                         end |-> Moved(attrs[n].end, end, delta), of |-> attrs[n].of]
               /\ attrs'[n] \in A
    <3>1. attrs'[n] = [attrs[n] EXCEPT !.at = Moved(@, end, delta), !.body = Moved(@, end, delta),
                                     !.first = Moved(@, end, delta), !.end = Moved(@, end, delta)]
      BY <1>6, <2>1
    <3>2. attrs[n] \in A
      BY <2>1
    <3>3. QED
      BY <2>2, <3>1, <3>2
  <2>4. attrs' = [n \in 1 .. Len(attrs) |-> attrs'[n]]
    BY <1>6, <2>1
  <2> HIDE DEF A
  <2>5. attrs' \in Seq(A) /\ Len(attrs') = Len(attrs)
    BY <2>1, <2>3, <2>4
  <2>6. QED
    BY <2>3, <2>5 DEF A
<1>15. RecordsFollow'
  <2> SUFFICES ASSUME NEW j \in Kept'
               PROVE  /\ \A b \in ToSet(BracesOf(decls'[j].shape, StartOf(decls', j))) : b \in ToSet(braces')
                      /\ \A a \in ToSet(AttrsOf(decls'[j].shape, StartOf(decls', j), j)) : a \in ToSet(attrs')
    BY DEF RecordsFollow
  <2> DEFINE s == decls[j].shape
             old == StartOf(decls, j)
             new == StartOf(decls', j)
  <2>1. j \in 1 .. N /\ j # i /\ j \in Kept /\ decls'[j] = decls[j] /\ decls[j].len = s.len
    BY <1>1, <1>7, <1>11 DEF Kept, TextInv, KeptWhole
  <2>2. s \in Shapes /\ s.len \in Nat /\ s.len > 5 /\ s.attr \in {"field", "decl", "none"}
    BY <1>2, <2>1, ShapeFields
  <2>3. \A c \in Nat : c < s.len => Moved(old + c, end, delta) = new + c
    BY <1>9, <2>1
  <2>4. /\ \A b \in ToSet(BracesOf(s, old)) : b \in ToSet(braces)
        /\ \A a \in ToSet(AttrsOf(s, old, j)) : a \in ToSet(attrs)
    BY <2>1 DEF TextInv, RecordsFollow
  <2> HIDE DEF s, old, new
  <2>5. old \in Nat /\ new \in Int
    <3>1. j \in 1 .. N + 1 /\ StartOf(decls, j) \in Nat
      BY <1>1, <1>4, <2>1
    <3>2. StartOf(decls', j) = StartOf(decls, j) + By(j)
      BY <1>8, <3>1
    <3>3. QED
      BY <1>2, <3>1, <3>2 DEF old, new
  <2>6. Moved(-1, end, delta) = -1
    BY <1>5 DEF Moved
  <2>7. /\ Moved(old + Open, end, delta) = new + Open
        /\ Moved(old + Open + 1, end, delta) = new + Open + 1
        /\ Moved(old + Attribute, end, delta) = new + Attribute
        /\ Moved(old + Close(s), end, delta) = new + Close(s)
    <3>1. /\ 1 \in Nat /\ 2 \in Nat /\ 3 \in Nat /\ s.len - 2 \in Nat
          /\ 1 < s.len /\ 2 < s.len /\ 3 < s.len /\ s.len - 2 < s.len
      BY <2>2
    <3>2. old + 1 + 1 = old + 2 /\ new + 1 + 1 = new + 2
      BY <2>5
    <3>3. QED
      BY <2>3, <3>1, <3>2 DEF Open, Attribute, Close
  <2>8. ASSUME NEW b \in ToSet(BracesOf(s, new)) PROVE b \in ToSet(braces')
    <3> DEFINE B(at, inner) == [at |-> at, inner |-> inner]
    <3>1. /\ ToSet(BracesOf(s, old)) = {B(old + Open, old + Open), B(old + Close(s), -1)}
          /\ ToSet(BracesOf(s, new)) = {B(new + Open, new + Open), B(new + Close(s), -1)}
      BY SmallSets DEF BracesOf
    <3>2. PICK x \in ToSet(BracesOf(s, old)) :
             b.at = Moved(x.at, end, delta) /\ b.inner = Moved(x.inner, end, delta)
      BY <2>6, <2>7, <3>1
    <3>3. PICK n \in 1 .. Len(braces) : braces[n] = x
      BY <2>4, <3>2, PositionInSet DEF TextInv, TextTypeOK
    <3>4. braces'[n] \in [at : Int, inner : Int] /\ braces'[n].at = b.at /\ braces'[n].inner = b.inner
      BY <1>13, <3>2, <3>3
    <3>5. b = [at |-> b.at, inner |-> b.inner]
      BY <3>1
    <3>6. braces'[n] = b
      BY <3>4, <3>5
    <3>7. n \in 1 .. Len(braces')
      BY <1>13, <3>3
    <3>8. QED
      BY <1>13, <3>6, <3>7, PositionInSet
  <2>9. ASSUME NEW a \in ToSet(AttrsOf(s, new, j)) PROVE a \in ToSet(attrs')
    <3> DEFINE A(p) == [kind |-> s.attr, at |-> p + Attribute, body |-> p + Open,
                        first |-> p + Open + 1, end |-> p + Close(s), of |-> j]
    <3>1. s.attr # "none"
      BY SmallSets DEF AttrsOf
    <3>2. ToSet(AttrsOf(s, old, j)) = {A(old)} /\ a = A(new)
      BY <3>1, SmallSets DEF AttrsOf
    <3>3. PICK n \in 1 .. Len(attrs) : attrs[n] = A(old)
      BY <2>4, <3>2, PositionInSet DEF TextInv, TextTypeOK
    <3>4. /\ attrs[n].kind = s.attr /\ attrs[n].at = old + Attribute /\ attrs[n].body = old + Open
          /\ attrs[n].first = old + Open + 1 /\ attrs[n].end = old + Close(s) /\ attrs[n].of = j
      BY <3>3
    <3>5. attrs'[n] = A(new)
      BY <1>14, <2>7, <3>4
    <3>6. n \in 1 .. Len(attrs')
      BY <1>14, <3>3
    <3>7. QED
      BY <1>14, <3>2, <3>5, <3>6, PositionInSet
  <2>10. QED
    BY <2>1, <2>8, <2>9 DEF s, old, new
<1>16. QED
  BY <1>7, <1>10, <1>12, <1>13, <1>14, <1>15 DEF TextInv, TextTypeOK

\* The first state has the invariant (rewrite).
LEMMA TextStarts == TextInit => TextInv
<1> SUFFICES ASSUME TextInit PROVE TextInv
  OBVIOUS
<1> DEFINE B == [at : Int, inner : Int]
           A == [kind : {"field", "decl"}, at : Int, body : Int, first : Int, end : Int, of : Nat]
<1>1. PICK n \in 1 .. MaxDecls :
        /\ decls \in [1 .. n -> {[shape |-> s, len |-> s.len, taken |-> FALSE] : s \in Shapes}]
        /\ spans = Whole
        /\ braces = FlattenSeq([i \in 1 .. n |-> BracesOf(decls[i].shape, StartOf(decls, i))])
        /\ attrs = FlattenSeq([i \in 1 .. n |-> AttrsOf(decls[i].shape, StartOf(decls, i), i)])
  BY DEF TextInit
<1>2. n \in Nat
  BY TextAssumption
<1>3. ASSUME NEW i \in 1 .. n
      PROVE  decls[i].shape \in Shapes /\ decls[i].len = decls[i].shape.len /\ decls[i] \in Decls
  <2>1. PICK s \in Shapes : decls[i] = [shape |-> s, len |-> s.len, taken |-> FALSE]
    BY <1>1
  <2>2. s.len \in Nat \ {0}
    BY ShapeFields
  <2>3. QED
    BY <2>1, <2>2 DEF Decls
<1>4. decls \in Seq(Decls) /\ Len(decls) = n /\ DOMAIN decls = 1 .. n
  <2>1. decls \in [1 .. n -> Decls]
    BY <1>1, <1>3
  <2>2. QED
    BY <1>2, <2>1
<1>5. \A i \in 1 .. n : StartOf(decls, i) \in Nat
  BY <1>4, StartRises
<1> DEFINE bs == [i \in 1 .. n |-> BracesOf(decls[i].shape, StartOf(decls, i))]
           as == [i \in 1 .. n |-> AttrsOf(decls[i].shape, StartOf(decls, i), i)]
<1>6. ASSUME NEW i \in 1 .. n PROVE bs[i] \in Seq(B) /\ as[i] \in Seq(A)
  <2> DEFINE s == decls[i].shape
             p == StartOf(decls, i)
  <2>1. s.len \in Nat /\ p \in Nat /\ s.attr \in {"field", "decl", "none"} /\ i \in Nat
    BY <1>2, <1>3, <1>5, ShapeFields
  <2> HIDE DEF s, p
  <2>2. BracesOf(s, p) \in Seq(B)
    <3>1. [at |-> p + Open, inner |-> p + Open] \in B /\ [at |-> p + Close(s), inner |-> -1] \in B
      BY <2>1 DEF Open, Close
    <3> HIDE DEF B
    <3>2. QED
      BY <3>1 DEF BracesOf
  <2>3. AttrsOf(s, p, i) \in Seq(A)
    <3> DEFINE a == [kind |-> s.attr, at |-> p + Attribute, body |-> p + Open,
                     first |-> p + Open + 1, end |-> p + Close(s), of |-> i]
    <3>1. s.attr # "none" => a \in A
      BY <2>1 DEF Open, Close, Attribute
    <3>2. AttrsOf(s, p, i) = IF s.attr = "none" THEN <<>> ELSE <<a>>
      BY DEF AttrsOf
    <3> HIDE DEF A, a
    <3>3. QED
      BY <3>1, <3>2
  <2>4. QED
    BY <2>2, <2>3 DEF s, p
<1>7. bs \in Seq(Seq(B)) /\ as \in Seq(Seq(A)) /\ Len(bs) = n /\ Len(as) = n
  <2>1. bs = [i \in 1 .. n |-> bs[i]] /\ as = [i \in 1 .. n |-> as[i]]
    OBVIOUS
  <2> DEFINE SB == Seq(B)
             SA == Seq(A)
  <2>2. \A i \in 1 .. n : bs[i] \in SB /\ as[i] \in SA
    BY <1>6
  <2> HIDE DEF bs, as, SB, SA
  <2>3. bs \in [1 .. n -> SB] /\ as \in [1 .. n -> SA]
    BY <2>1, <2>2
  <2>4. bs \in Seq(SB) /\ Len(bs) = n
    BY <1>2, <2>3, FunctionIsSequence
  <2>5. as \in Seq(SA) /\ Len(as) = n
    BY <1>2, <2>3, FunctionIsSequence
  <2>6. QED
    BY <2>4, <2>5 DEF SB, SA
<1>8. TextTypeOK
  <2>1. braces = FlattenSeq(bs) /\ attrs = FlattenSeq(as)
    BY <1>1
  <2> HIDE DEF bs, as, B, A
  <2>2. braces \in Seq(B) /\ attrs \in Seq(A)
    BY <1>7, <2>1, FlattenJoins
  <2>3. QED
    BY <1>4, <2>2 DEF TextTypeOK, A, B
<1>9. KeptWhole
  BY <1>3, <1>4 DEF KeptWhole, Kept
<1>10. RecordsFollow
  <2> SUFFICES ASSUME NEW i \in 1 .. n
               PROVE  /\ \A b \in ToSet(BracesOf(decls[i].shape, StartOf(decls, i))) : b \in ToSet(braces)
                      /\ \A a \in ToSet(AttrsOf(decls[i].shape, StartOf(decls, i), i)) : a \in ToSet(attrs)
    BY <1>4 DEF RecordsFollow, Kept
  <2>1. braces = FlattenSeq(bs) /\ attrs = FlattenSeq(as)
        /\ bs[i] = BracesOf(decls[i].shape, StartOf(decls, i))
        /\ as[i] = AttrsOf(decls[i].shape, StartOf(decls, i), i)
    BY <1>1
  <2> HIDE DEF bs, as, B, A
  <2>2. \A b \in ToSet(bs[i]) : b \in ToSet(FlattenSeq(bs))
    BY <1>7, FlattenKeeps
  <2>3. \A a \in ToSet(as[i]) : a \in ToSet(FlattenSeq(as))
    BY <1>7, FlattenKeeps
  <2>4. QED
    BY <2>1, <2>2, <2>3
<1>11. QED
  BY <1>1, <1>8, <1>9, <1>10 DEF TextInv

\* Every step keeps it (the loop of parse).
LEMMA TextStep == TextInv /\ [TextNext]_textVars => TextInv'
<1> SUFFICES ASSUME TextInv, [TextNext]_textVars PROVE TextInv'
  OBVIOUS
<1>1. ASSUME NEW i \in DOMAIN decls, Recover(i) PROVE TextInv'
  <2>1. PICK len \in Replacements \cup {decls[i].len} : ReplaceSpan(i, len)
    BY <1>1 DEF Recover
  <2>2. decls[i].len \in Nat \ {0} /\ ~ decls[i].taken
    BY <1>1, DeclFields DEF TextInv, TextTypeOK, Recover
  <2>3. len \in Nat \ {0}
    BY <2>2, TextAssumption
  <2>4. QED
    BY <2>1, <2>2, <2>3, ReplaceKeeps
<1>2. CASE UNCHANGED textVars
  BY <1>2 DEF textVars, TextInv, TextTypeOK, Whole, KeptWhole, Kept, RecordsFollow
<1>3. QED
  BY <1>1, <1>2 DEF TextNext

\* However many declarations the parser takes out, and however much longer or
\* shorter they become, positions lead to their declarations and what is
\* recorded of the others is where it now is (Rewritten.replace_span).
THEOREM RecordsStay == TextSpec => []OffsetsFollow
<1>1. TextInv => OffsetsFollow
  BY SpansFound DEF OffsetsFollow, TextInv
<1>2. QED
  BY <1>1, TextStarts, TextStep, PTL DEF TextSpec

-----------------------------------------------------------------------------
(* Constant expressions: what is recursive over their parts                 *)

NestedTo(n) == UNION {Levels[i] : i \in {j \in DOMAIN Levels : j <= n}}

\* No expression is nested to level 0, all are to some level, and their parts to one less.
LEMMA NestedToLevel ==
  /\ NestedTo(0) = {}
  /\ \E n \in Nat : CExprs = NestedTo(n)
  /\ \A n \in Nat : \A e \in NestedTo(n + 1) :
       e \in CExprs /\ \A p \in SubExprs(e) : p \in CExprs /\ p \in NestedTo(n)
<1>1. Len(Levels) \in Nat /\ DOMAIN Levels = 1 .. Len(Levels)
  BY NestedAssumption
<1> DEFINE top == Len(Levels)
<1> HIDE DEF top
<1>2. top \in Nat /\ DOMAIN Levels = 1 .. top
  BY <1>1 DEF top
<1>3. {j \in DOMAIN Levels : j <= 0} = {} /\ {j \in DOMAIN Levels : j <= top} = DOMAIN Levels
  BY <1>2
<1>4. NestedTo(0) = {} /\ CExprs = NestedTo(top)
  BY <1>3 DEF NestedTo, CExprs
<1>5. ASSUME NEW n \in Nat, NEW e \in NestedTo(n + 1)
      PROVE  e \in CExprs /\ \A p \in SubExprs(e) : p \in CExprs /\ p \in NestedTo(n)
  <2>1. PICK i \in DOMAIN Levels : i <= n + 1 /\ e \in Levels[i]
    BY <1>5 DEF NestedTo
  <2>2. \A p \in SubExprs(e) : \E k \in 1 .. i - 1 : p \in Levels[k]
    BY <2>1, NestedAssumption
  <2>3. ASSUME NEW p \in SubExprs(e) PROVE p \in CExprs /\ p \in NestedTo(n)
    <3>1. PICK k \in 1 .. i - 1 : p \in Levels[k]
      BY <2>2
    <3>2. k \in DOMAIN Levels /\ k <= n
      BY <1>2, <2>1, <3>1
    <3>3. QED
      BY <3>1, <3>2 DEF NestedTo, CExprs
  <2>4. QED
    BY <2>1, <2>3 DEF CExprs
<1>6. QED
  BY <1>2, <1>4, <1>5

\* The kinds of expressions.
LEMMA ExprKinds ==
  ASSUME NEW e \in CExprs
  PROVE  IsExpr(e) /\ e.kind \in {"number", "literal", "unary", "cast", "bool", "binary", "ternary"}
<1>1. IsExpr(e)
  BY NestedAssumption DEF CExprs
<1>2. QED
  BY <1>1 DEF IsExpr

\* The type of an expression depends only on those of its parts,
LEMMA TypeUnfoldsParts ==
  ASSUME NEW x \in CExprs, NEW f, NEW g, \A p \in SubExprs(x) : f[p] = g[p]
  PROVE  TypeBy(f, x) = TypeBy(g, x)
BY ExprKinds DEF TypeBy, SubExprs

\* and so does its value,
LEMMA ValuesUnfoldParts ==
  ASSUME NEW x \in CExprs, NEW f, NEW g, \A p \in SubExprs(x) : f[p] = g[p]
  PROVE  ValuesBy(f, x) = ValuesBy(g, x)
<1>1. x.kind \in {"number", "literal", "unary", "cast", "bool", "binary", "ternary"}
  BY ExprKinds
<1>2. CASE x.kind \in {"number", "literal"}
  BY <1>2 DEF ValuesBy
<1>3. CASE x.kind \in {"cast", "bool", "unary"}
  <2>1. f[x.x] = g[x.x]
    BY <1>3 DEF SubExprs
  <2>2. QED
    BY <1>3, <2>1 DEF ValuesBy
<1>4. CASE x.kind = "ternary"
  <2>1. f[x.c] = g[x.c] /\ f[x.x] = g[x.x] /\ f[x.y] = g[x.y]
    BY <1>4 DEF SubExprs
  <2>2. \A c : f[IF c # 0 THEN x.x ELSE x.y] = g[IF c # 0 THEN x.x ELSE x.y]
    BY <2>1
  <2>3. QED
    BY <1>4, <2>1, <2>2 DEF ValuesBy
<1>5. CASE x.kind = "binary"
  <2>1. f[x.x] = g[x.x] /\ f[x.y] = g[x.y]
    BY <1>5 DEF SubExprs
  <2>2. QED
    BY <1>5, <2>1 DEF ValuesBy
<1>6. QED
  BY <1>1, <1>2, <1>3, <1>4, <1>5

\* whether both operands are needed,
LEMMA NeededUnfoldsParts ==
  ASSUME NEW x \in CExprs, NEW f, NEW g, \A p \in SubExprs(x) : f[p] = g[p]
  PROVE  BothNeededBy(f, x) = BothNeededBy(g, x)
BY ExprKinds DEF BothNeededBy, SubExprs

\* and what const makes of it.
LEMMA ConstUnfoldsParts ==
  ASSUME NEW x \in CExprs, NEW f, NEW g, \A p \in SubExprs(x) : f[p] = g[p]
  PROVE  [dead \in BOOLEAN |-> ConstBy(f, x, dead)] = [dead \in BOOLEAN |-> ConstBy(g, x, dead)]
BY ExprKinds DEF ConstBy, SubExprs

\* The recursion ends: parts are nested less.
LEMMA TypeUnfolds ==
  ASSUME NEW e \in CExprs
  PROVE  TypeOf[e] = TypeBy(TypeOf, e)
<1> DEFINE D == CExprs
           By(f, x) == TypeBy(f, x)
           Makes(f) == [x \in D |-> By(f, x)]
           Near(n) == \E f : f = [x \in D |-> f[x]] /\ \A x \in NestedTo(n) : f[x] = By(f, x)
           T == {n \in Nat : Near(n)}
<1>1. TypeOf = CHOOSE f : f = Makes(f)
  BY DEF TypeOf
<1>2. ASSUME NEW f, NEW g, NEW x \in D, \A p \in SubExprs(x) : f[p] = g[p]
      PROVE  By(f, x) = By(g, x)
  BY <1>2, TypeUnfoldsParts
<1> HIDE DEF By
<1>3. Near(0)
  <2> DEFINE f == [x \in D |-> x]
  <2>1. f = [x \in D |-> f[x]]
    OBVIOUS
  <2> HIDE DEF f
  <2>2. QED
    BY <2>1, NestedToLevel
<1>4. ASSUME NEW n \in Nat, Near(n) PROVE Near(n + 1)
  <2>1. PICK f : f = [x \in D |-> f[x]] /\ \A x \in NestedTo(n) : f[x] = By(f, x)
    BY <1>4
  <2> DEFINE g == [x \in D |-> IF x \in NestedTo(n) THEN f[x] ELSE By(f, x)]
  <2>2. g = [x \in D |-> g[x]]
    OBVIOUS
  <2>3. \A x \in D : g[x] = By(f, x)
    BY <2>1
  <2>4. \A x \in D : x \in NestedTo(n) => g[x] = f[x]
    OBVIOUS
  <2> HIDE DEF g
  <2>5. ASSUME NEW x \in NestedTo(n + 1) PROVE g[x] = By(g, x)
    <3>1. x \in D /\ \A p \in SubExprs(x) : p \in D /\ p \in NestedTo(n)
      BY <2>5, NestedToLevel
    <3>2. \A p \in SubExprs(x) : f[p] = g[p]
      BY <2>4, <3>1
    <3>3. By(f, x) = By(g, x)
      BY <1>2, <3>1, <3>2
    <3>4. QED
      BY <2>3, <3>1, <3>3
  <2>6. QED
    BY <2>2, <2>5
<1> HIDE DEF Near
<1>5. \A n \in Nat : n \in T
  <2>1. 0 \in T /\ \A n \in Nat : n \in T => n + 1 \in T
    BY <1>3, <1>4
  <2> HIDE DEF T
  <2>2. QED
    BY <2>1, AllNumbers
<1>6. PICK n \in Nat : D = NestedTo(n)
  BY NestedToLevel
<1>7. Near(n)
  BY <1>5
<1>8. PICK f : f = [x \in D |-> f[x]] /\ \A x \in D : f[x] = By(f, x)
  BY <1>6, <1>7 DEF Near
<1>9. f = Makes(f)
  <2> DEFINE h == [x \in D |-> f[x]]
  <2>1. h = [x \in D |-> By(f, x)]
    BY <1>8
  <2>2. QED
    BY <1>8, <2>1
<1> HIDE DEF Makes
<1>10. TypeOf = Makes(TypeOf)
  BY <1>1, <1>9
<1>11. QED
  BY <1>10 DEF Makes, By

\* Likewise.
LEMMA ValuesUnfold ==
  ASSUME NEW e \in CExprs
  PROVE  CValues[e] = ValuesBy(CValues, e)
<1> DEFINE D == CExprs
           By(f, x) == ValuesBy(f, x)
           Makes(f) == [x \in D |-> By(f, x)]
           Near(n) == \E f : f = [x \in D |-> f[x]] /\ \A x \in NestedTo(n) : f[x] = By(f, x)
           T == {n \in Nat : Near(n)}
<1>1. CValues = CHOOSE f : f = Makes(f)
  BY DEF CValues
<1>2. ASSUME NEW f, NEW g, NEW x \in D, \A p \in SubExprs(x) : f[p] = g[p]
      PROVE  By(f, x) = By(g, x)
  BY <1>2, ValuesUnfoldParts
<1> HIDE DEF By
<1>3. Near(0)
  <2> DEFINE f == [x \in D |-> x]
  <2>1. f = [x \in D |-> f[x]]
    OBVIOUS
  <2> HIDE DEF f
  <2>2. QED
    BY <2>1, NestedToLevel
<1>4. ASSUME NEW n \in Nat, Near(n) PROVE Near(n + 1)
  <2>1. PICK f : f = [x \in D |-> f[x]] /\ \A x \in NestedTo(n) : f[x] = By(f, x)
    BY <1>4
  <2> DEFINE g == [x \in D |-> IF x \in NestedTo(n) THEN f[x] ELSE By(f, x)]
  <2>2. g = [x \in D |-> g[x]]
    OBVIOUS
  <2>3. \A x \in D : g[x] = By(f, x)
    BY <2>1
  <2>4. \A x \in D : x \in NestedTo(n) => g[x] = f[x]
    OBVIOUS
  <2> HIDE DEF g
  <2>5. ASSUME NEW x \in NestedTo(n + 1) PROVE g[x] = By(g, x)
    <3>1. x \in D /\ \A p \in SubExprs(x) : p \in D /\ p \in NestedTo(n)
      BY <2>5, NestedToLevel
    <3>2. \A p \in SubExprs(x) : f[p] = g[p]
      BY <2>4, <3>1
    <3>3. By(f, x) = By(g, x)
      BY <1>2, <3>1, <3>2
    <3>4. QED
      BY <2>3, <3>1, <3>3
  <2>6. QED
    BY <2>2, <2>5
<1> HIDE DEF Near
<1>5. \A n \in Nat : n \in T
  <2>1. 0 \in T /\ \A n \in Nat : n \in T => n + 1 \in T
    BY <1>3, <1>4
  <2> HIDE DEF T
  <2>2. QED
    BY <2>1, AllNumbers
<1>6. PICK n \in Nat : D = NestedTo(n)
  BY NestedToLevel
<1>7. Near(n)
  BY <1>5
<1>8. PICK f : f = [x \in D |-> f[x]] /\ \A x \in D : f[x] = By(f, x)
  BY <1>6, <1>7 DEF Near
<1>9. f = Makes(f)
  <2> DEFINE h == [x \in D |-> f[x]]
  <2>1. h = [x \in D |-> By(f, x)]
    BY <1>8
  <2>2. QED
    BY <1>8, <2>1
<1> HIDE DEF Makes
<1>10. CValues = Makes(CValues)
  BY <1>1, <1>9
<1>11. QED
  BY <1>10 DEF Makes, By

\* Likewise.
LEMMA NeededUnfolds ==
  ASSUME NEW e \in CExprs
  PROVE  BothNeeded[e] = BothNeededBy(BothNeeded, e)
<1> DEFINE D == CExprs
           By(f, x) == BothNeededBy(f, x)
           Makes(f) == [x \in D |-> By(f, x)]
           Near(n) == \E f : f = [x \in D |-> f[x]] /\ \A x \in NestedTo(n) : f[x] = By(f, x)
           T == {n \in Nat : Near(n)}
<1>1. BothNeeded = CHOOSE f : f = Makes(f)
  BY DEF BothNeeded
<1>2. ASSUME NEW f, NEW g, NEW x \in D, \A p \in SubExprs(x) : f[p] = g[p]
      PROVE  By(f, x) = By(g, x)
  BY <1>2, NeededUnfoldsParts
<1> HIDE DEF By
<1>3. Near(0)
  <2> DEFINE f == [x \in D |-> x]
  <2>1. f = [x \in D |-> f[x]]
    OBVIOUS
  <2> HIDE DEF f
  <2>2. QED
    BY <2>1, NestedToLevel
<1>4. ASSUME NEW n \in Nat, Near(n) PROVE Near(n + 1)
  <2>1. PICK f : f = [x \in D |-> f[x]] /\ \A x \in NestedTo(n) : f[x] = By(f, x)
    BY <1>4
  <2> DEFINE g == [x \in D |-> IF x \in NestedTo(n) THEN f[x] ELSE By(f, x)]
  <2>2. g = [x \in D |-> g[x]]
    OBVIOUS
  <2>3. \A x \in D : g[x] = By(f, x)
    BY <2>1
  <2>4. \A x \in D : x \in NestedTo(n) => g[x] = f[x]
    OBVIOUS
  <2> HIDE DEF g
  <2>5. ASSUME NEW x \in NestedTo(n + 1) PROVE g[x] = By(g, x)
    <3>1. x \in D /\ \A p \in SubExprs(x) : p \in D /\ p \in NestedTo(n)
      BY <2>5, NestedToLevel
    <3>2. \A p \in SubExprs(x) : f[p] = g[p]
      BY <2>4, <3>1
    <3>3. By(f, x) = By(g, x)
      BY <1>2, <3>1, <3>2
    <3>4. QED
      BY <2>3, <3>1, <3>3
  <2>6. QED
    BY <2>2, <2>5
<1> HIDE DEF Near
<1>5. \A n \in Nat : n \in T
  <2>1. 0 \in T /\ \A n \in Nat : n \in T => n + 1 \in T
    BY <1>3, <1>4
  <2> HIDE DEF T
  <2>2. QED
    BY <2>1, AllNumbers
<1>6. PICK n \in Nat : D = NestedTo(n)
  BY NestedToLevel
<1>7. Near(n)
  BY <1>5
<1>8. PICK f : f = [x \in D |-> f[x]] /\ \A x \in D : f[x] = By(f, x)
  BY <1>6, <1>7 DEF Near
<1>9. f = Makes(f)
  <2> DEFINE h == [x \in D |-> f[x]]
  <2>1. h = [x \in D |-> By(f, x)]
    BY <1>8
  <2>2. QED
    BY <1>8, <2>1
<1> HIDE DEF Makes
<1>10. BothNeeded = Makes(BothNeeded)
  BY <1>1, <1>9
<1>11. QED
  BY <1>10 DEF Makes, By

\* Likewise.
LEMMA ConstUnfolds ==
  ASSUME NEW e \in CExprs
  PROVE  Const[e] = [dead \in BOOLEAN |-> ConstBy(Const, e, dead)]
<1> DEFINE D == CExprs
           By(f, x) == [dead \in BOOLEAN |-> ConstBy(f, x, dead)]
           Makes(f) == [x \in D |-> By(f, x)]
           Near(n) == \E f : f = [x \in D |-> f[x]] /\ \A x \in NestedTo(n) : f[x] = By(f, x)
           T == {n \in Nat : Near(n)}
<1>1. Const = CHOOSE f : f = Makes(f)
  BY DEF Const
<1>2. ASSUME NEW f, NEW g, NEW x \in D, \A p \in SubExprs(x) : f[p] = g[p]
      PROVE  By(f, x) = By(g, x)
  BY <1>2, ConstUnfoldsParts
<1> HIDE DEF By
<1>3. Near(0)
  <2> DEFINE f == [x \in D |-> x]
  <2>1. f = [x \in D |-> f[x]]
    OBVIOUS
  <2> HIDE DEF f
  <2>2. QED
    BY <2>1, NestedToLevel
<1>4. ASSUME NEW n \in Nat, Near(n) PROVE Near(n + 1)
  <2>1. PICK f : f = [x \in D |-> f[x]] /\ \A x \in NestedTo(n) : f[x] = By(f, x)
    BY <1>4
  <2> DEFINE g == [x \in D |-> IF x \in NestedTo(n) THEN f[x] ELSE By(f, x)]
  <2>2. g = [x \in D |-> g[x]]
    OBVIOUS
  <2>3. \A x \in D : g[x] = By(f, x)
    BY <2>1
  <2>4. \A x \in D : x \in NestedTo(n) => g[x] = f[x]
    OBVIOUS
  <2> HIDE DEF g
  <2>5. ASSUME NEW x \in NestedTo(n + 1) PROVE g[x] = By(g, x)
    <3>1. x \in D /\ \A p \in SubExprs(x) : p \in D /\ p \in NestedTo(n)
      BY <2>5, NestedToLevel
    <3>2. \A p \in SubExprs(x) : f[p] = g[p]
      BY <2>4, <3>1
    <3>3. By(f, x) = By(g, x)
      BY <1>2, <3>1, <3>2
    <3>4. QED
      BY <2>3, <3>1, <3>3
  <2>6. QED
    BY <2>2, <2>5
<1> HIDE DEF Near
<1>5. \A n \in Nat : n \in T
  <2>1. 0 \in T /\ \A n \in Nat : n \in T => n + 1 \in T
    BY <1>3, <1>4
  <2> HIDE DEF T
  <2>2. QED
    BY <2>1, AllNumbers
<1>6. PICK n \in Nat : D = NestedTo(n)
  BY NestedToLevel
<1>7. Near(n)
  BY <1>5
<1>8. PICK f : f = [x \in D |-> f[x]] /\ \A x \in D : f[x] = By(f, x)
  BY <1>6, <1>7 DEF Near
<1>9. f = Makes(f)
  <2> DEFINE h == [x \in D |-> f[x]]
  <2>1. h = [x \in D |-> By(f, x)]
    BY <1>8
  <2>2. QED
    BY <1>8, <2>1
<1> HIDE DEF Makes
<1>10. Const = Makes(Const)
  BY <1>1, <1>9
<1>11. QED
  BY <1>10 DEF Makes, By

-----------------------------------------------------------------------------
(* Types and conversions                                                    *)

IsType(t) == t \in [bits : 1 .. CWideBits, unsigned : BOOLEAN]
IsPromoted(t) == IsType(t) /\ CIntBits <= t.bits

\* The widths of int, long and long long are in the range that powers are known for.
LEMMA TypesUsed ==
  /\ CIntBits \in Nat /\ CLongBits \in Nat /\ CWideBits \in Nat /\ Widest \in Nat
  /\ 1 < CIntBits /\ CIntBits <= CLongBits /\ CLongBits <= CWideBits
  /\ CWideBits <= Widest /\ Pow(CWideBits) <= Widest
  /\ \A b \in 1 .. CWideBits : IsWidth(b)
<1>1. /\ CIntBits \in Nat /\ CLongBits \in Nat /\ CWideBits \in Nat
      /\ 1 < CIntBits /\ CIntBits <= CLongBits /\ CLongBits <= CWideBits
      /\ CWideBits <= Widest /\ Pow(CWideBits) <= Widest
  BY CConstAssumption DEF Pow
<1>2. Widest \in Nat
  BY PowersAssumption
<1>3. \A b \in 1 .. CWideBits : IsWidth(b)
  BY <1>1, <1>2 DEF IsWidth
<1>4. QED
  BY <1>1, <1>2, <1>3

\* The bounds of a type.
LEMMA TypeBounds ==
  ASSUME NEW t, IsType(t), NEW v \in Int
  PROVE  /\ t.bits \in 1 .. CWideBits /\ IsWidth(t.bits) /\ t.bits \in Nat /\ t.unsigned \in BOOLEAN
         /\ Pow(t.bits) \in Nat \ {0} /\ Pow(t.bits) = 2 * Pow(t.bits - 1) /\ Pow(t.bits - 1) \in Nat \ {0}
         /\ t.unsigned => (IsOfType(v, t) <=> 0 <= v /\ v < Pow(t.bits))
         /\ ~t.unsigned => (IsOfType(v, t) <=> -Pow(t.bits - 1) <= v /\ v < Pow(t.bits - 1))
         /\ ~t.unsigned => (IsOfType(v, t) <=> FitsSigned(v, Pow(t.bits)))
<1>1. t.bits \in 1 .. CWideBits /\ t.unsigned \in BOOLEAN
  BY DEF IsType
<1>2. IsWidth(t.bits) /\ t.bits \in Nat
  BY <1>1, TypesUsed
<1>3. Pow(t.bits) \in Nat \ {0} /\ Pow(t.bits) = 2 * Pow(t.bits - 1) /\ Pow(t.bits - 1) \in Nat \ {0}
  BY <1>2, PowerEven DEF IsWidth
<1> DEFINE P == Pow(t.bits)
           h == Pow(t.bits - 1)
<1>4. t.unsigned => (IsOfType(v, t) <=> v \in 0 .. P - 1)
  BY DEF IsOfType, Pow
<1>5. ~t.unsigned => (IsOfType(v, t) <=> v \in -h .. h - 1)
  BY DEF IsOfType, Pow
<1>6. FitsSigned(v, P) <=> -h <= v /\ v < h
  BY <1>2, FitsBounds
<1>7. P \in Int /\ h \in Int
  BY <1>3
<1> HIDE DEF P, h
<1>8. (v \in 0 .. P - 1 <=> 0 <= v /\ v < P) /\ (v \in -h .. h - 1 <=> -h <= v /\ v < h)
  BY <1>7
<1>9. QED
  BY <1>1, <1>2, <1>3, <1>4, <1>5, <1>6, <1>8 DEF P, h

\* The number of type t with the pattern of v.
Wrap(v, t) == IF t.unsigned THEN Low(v, t.bits) ELSE Sext(v, t.bits)

\* It is of type t and differs from v by a multiple of the size of t.
LEMMA WrapIs ==
  ASSUME NEW t, IsType(t), NEW v \in Int
  PROVE  Wrap(v, t) \in Int /\ IsOfType(Wrap(v, t), t) /\ Alike(Wrap(v, t), v, Pow(t.bits))
<1>1. IsWidth(t.bits) /\ t.unsigned \in BOOLEAN
  BY TypeBounds
<1>2. CASE t.unsigned
  <2>1. Wrap(v, t) = Low(v, t.bits)
    BY <1>2 DEF Wrap
  <2>2. Low(v, t.bits) \in Int /\ 0 <= Low(v, t.bits) /\ Low(v, t.bits) < Pow(t.bits)
        /\ Alike(Low(v, t.bits), v, Pow(t.bits))
    BY <1>1, LowReads
  <2>3. IsOfType(Low(v, t.bits), t)
    BY <1>2, <2>2, TypeBounds
  <2>4. QED
    BY <2>1, <2>2, <2>3
<1>3. CASE ~t.unsigned
  <2>1. Wrap(v, t) = Sext(v, t.bits)
    BY <1>3 DEF Wrap
  <2>2. Sext(v, t.bits) \in Int /\ FitsSigned(Sext(v, t.bits), Pow(t.bits))
        /\ Alike(Sext(v, t.bits), v, Pow(t.bits))
    BY <1>1, SextReads
  <2>3. IsOfType(Sext(v, t.bits), t)
    BY <1>3, <2>2, TypeBounds
  <2>4. QED
    BY <2>1, <2>2, <2>3
<1>4. QED
  BY <1>2, <1>3

\* There is only one.
LEMMA WrapOnly ==
  ASSUME NEW t, IsType(t), NEW v \in Int, NEW w \in Int, IsOfType(w, t), Alike(w, v, Pow(t.bits))
  PROVE  Wrap(v, t) = w
<1>1. /\ IsWidth(t.bits) /\ t.unsigned \in BOOLEAN /\ Pow(t.bits) \in Nat \ {0}
      /\ t.unsigned => 0 <= w /\ w < Pow(t.bits)
      /\ ~t.unsigned => FitsSigned(w, Pow(t.bits))
  BY TypeBounds
<1> DEFINE P == Pow(t.bits)
<1>2. Low(v, t.bits) = v % P
  BY <1>1, LowReads
<1>3. P \in Nat \ {0} /\ P \in Int
  BY <1>1
<1>4. Alike(v, w, P)
  BY <1>3, AlikeBack
<1>5. CASE t.unsigned
  <2>1. 0 <= w /\ w < P
    BY <1>1, <1>5
  <2> HIDE DEF P
  <2>2. v % P = w % P
    BY <1>3, <1>4, AlikeModulo
  <2>3. w % P = w
    <3>1. w = 0 * P + w
      BY <1>3
    <3>2. QED
      BY <1>3, <2>1, <3>1, DivUnique
  <2>4. QED
    BY <1>2, <1>5, <2>2, <2>3 DEF Wrap
<1>6. CASE ~t.unsigned
  <2>1. Sext(v, t.bits) = w
    BY <1>1, <1>4, <1>6, SextIs
  <2>2. QED
    BY <1>6, <2>1 DEF Wrap
<1>7. QED
  BY <1>1, <1>5, <1>6

\* A number of type t is kept.
LEMMA WrapKeeps ==
  ASSUME NEW t, IsType(t), NEW v \in Int, IsOfType(v, t)
  PROVE  Wrap(v, t) = v
<1>1. Pow(t.bits) \in Int
  BY TypeBounds
<1>2. Alike(v, v, Pow(t.bits))
  BY <1>1, AlikeItself
<1>3. QED
  BY <1>2, WrapOnly

\* The conversion of the standard is the one _Int does.
LEMMA ConvertedWraps ==
  ASSUME NEW t, IsType(t), NEW v \in Int
  PROVE  Converted(v, t) = Wrap(v, t)
<1> DEFINE P == Pow(t.bits)
           h == Pow(t.bits - 1)
           w == Wrap(v, t)
<1>1. P \in Nat \ {0} /\ P = 2 * h /\ h \in Nat \ {0} /\ P \in Int
  BY TypeBounds
<1>2. w \in Int /\ IsOfType(w, t) /\ Alike(w, v, P)
  BY WrapIs
<1>3. t.unsigned => 0 <= w /\ w < P
  BY <1>2, TypeBounds
<1>4. ~t.unsigned => -h <= w /\ w < h
  BY <1>2, TypeBounds
<1>5. ASSUME NEW x \in Int PROVE (x - v) % P = 0 <=> Alike(x, v, P)
  <2> HIDE DEF P
  <2>1. ASSUME Alike(x, v, P) PROVE (x - v) % P = 0
    <3>1. PICK k \in Int : x = v + k * P
      BY <2>1 DEF Alike
    <3>2. k * P \in Int
      BY <1>1
    <3>3. x - v = k * P + 0
      BY <3>1, <3>2
    <3>4. QED
      BY <1>1, <3>3, DivUnique
  <2>2. ASSUME (x - v) % P = 0 PROVE Alike(x, v, P)
    <3> DEFINE k == (x - v) \div P
               d == x - v
    <3>1. k \in Int /\ x - v = k * P + 0
      <4>1. d \in Int
        OBVIOUS
      <4> HIDE DEF d
      <4>2. d \div P \in Int /\ d = (d \div P) * P + (d % P)
        BY <1>1, <4>1, DivMod
      <4>3. d % P = 0
        BY <2>2 DEF d
      <4>4. QED
        BY <4>2, <4>3 DEF d
    <3> HIDE DEF k
    <3>2. k * P \in Int
      BY <1>1, <3>1
    <3>3. x = v + k * P
      BY <3>1, <3>2
    <3>4. QED
      BY <3>1, <3>3 DEF Alike
  <2>3. QED
    BY <2>1, <2>2
<1> HIDE DEF P, h, w
<1>6. w \in -P .. P
  BY <1>1, <1>2, <1>3, <1>4
<1>7. \A x \in -P .. P : IsOfType(x, t) /\ (x - v) % P = 0 => x = w
  <2>1. SUFFICES ASSUME NEW x \in Int, IsOfType(x, t), Alike(x, v, P) PROVE x = w
    BY <1>1, <1>5
  <2>2. QED
    BY <2>1, WrapOnly DEF P, w
<1>8. IsOfType(w, t) /\ (w - v) % P = 0
  BY <1>2, <1>5
<1>9. Converted(v, t) = CHOOSE x \in -P .. P : IsOfType(x, t) /\ (x - v) % P = 0
  BY DEF Converted, P, Pow
<1>10. Converted(v, t) = w
  BY <1>6, <1>7, <1>8, <1>9
<1>11. QED
  BY <1>10 DEF w

\* An exact result that fits is what _Int makes of it.
LEMMA ExactlyIs ==
  ASSUME NEW t, IsType(t), NEW v \in Int, NEW w \in Exactly(v, t)
  PROVE  w = Wrap(v, t) /\ w \in Int /\ IsOfType(w, t)
<1>1. CASE t.unsigned
  <2>1. w = Converted(v, t)
    BY <1>1 DEF Exactly
  <2>2. QED
    BY <2>1, ConvertedWraps, WrapIs
<1>2. CASE ~t.unsigned
  <2>1. w = v /\ IsOfType(w, t)
    BY <1>2 DEF Exactly
  <2>2. QED
    BY <2>1, WrapKeeps
<1>3. QED
  BY <1>1, <1>2

\* What _Int makes of a number, and of a truth.
Made(v, t) == [value |-> Wrap(v, t), bits |-> t.bits, unsigned |-> t.unsigned]
IntType == CType(CIntBits, FALSE)

\* int is a promoted type.
LEMMA IntIsPromoted ==
  /\ IsPromoted(IntType) /\ IntType.bits = CIntBits /\ IntType.unsigned = FALSE
  /\ \A t : IsPromoted(t) => IsType(t)
BY TypesUsed DEF IsPromoted, IsType, IntType, CType

\* _Int makes a constant of a promoted type by wrapping its value.
LEMMA CIntMakes ==
  ASSUME NEW t, IsPromoted(t), NEW v
  PROVE  CInt(v, t.bits, t.unsigned) = Made(v, t)
<1>1. ~(t.bits < CIntBits)
  BY TypesUsed DEF IsPromoted, IsType
<1>2. QED
  BY <1>1 DEF CInt, Made, Wrap

\* A truth is 0 or 1, an int.
LEMMA TruthMakes ==
  ASSUME NEW condition \in BOOLEAN
  PROVE  \A v \in Truth(condition) :
           v \in Int /\ IsOfType(v, IntType) /\ CBool(condition) = Made(v, IntType) /\ Wrap(v, IntType) = v
<1> DEFINE v == IF condition THEN 1 ELSE 0
<1>1. v \in Int /\ 0 <= v /\ v <= 1
  OBVIOUS
<1>2. CBool(condition) = CInt(v, CIntBits, FALSE) /\ \A w \in Truth(condition) : w = v
  BY DEF CBool, Truth
<1> HIDE DEF v
<1>3. Pow(CIntBits - 1) \in Nat /\ 2 <= Pow(CIntBits - 1)
  BY TypesUsed, PowerEven
<1>4. IsOfType(v, IntType)
  BY <1>1, <1>3, IntIsPromoted, TypeBounds
<1>5. CInt(v, CIntBits, FALSE) = Made(v, IntType)
  BY IntIsPromoted, CIntMakes
<1>6. QED
  BY <1>1, <1>2, <1>4, <1>5, IntIsPromoted, WrapKeeps

-----------------------------------------------------------------------------
(* The operators                                                            *)

LEMMA CommonIsWider ==
  ASSUME NEW s, IsPromoted(s), NEW t, IsPromoted(t), NEW v, NEW w
  PROVE  /\ Common(Made(v, s), Made(w, t)) = Wider(s, t)
         /\ IsPromoted(Wider(s, t))
<1> DEFINE a == Made(v, s)
           b == Made(w, t)
<1>1. a.bits = s.bits /\ a.unsigned = s.unsigned /\ b.bits = t.bits /\ b.unsigned = t.unsigned
  BY DEF Made
<1>2. /\ s \in [bits : 1 .. CWideBits, unsigned : BOOLEAN] /\ CIntBits <= s.bits
      /\ t \in [bits : 1 .. CWideBits, unsigned : BOOLEAN] /\ CIntBits <= t.bits
  BY DEF IsPromoted, IsType
<1>3. s = [bits |-> s.bits, unsigned |-> s.unsigned] /\ t = [bits |-> t.bits, unsigned |-> t.unsigned]
  BY <1>2
<1>4. s.bits \in 1 .. CWideBits /\ t.bits \in 1 .. CWideBits /\ s.unsigned \in BOOLEAN /\ t.unsigned \in BOOLEAN
  BY <1>2
<1> HIDE DEF a, b
<1>5. Common(a, b) = Wider(s, t)
  <2>1. CASE s.unsigned /\ t.unsigned
    BY <1>1, <1>3, <1>4, <2>1, TypesUsed DEF Common, Wider, CType
  <2>2. CASE s.unsigned /\ ~t.unsigned
    <3>1. s.unsigned = TRUE /\ t.unsigned = FALSE /\ (s.unsigned \/ t.unsigned) = TRUE
      BY <2>2, <1>4
    <3>2. s = [bits |-> s.bits, unsigned |-> TRUE] /\ t = [bits |-> t.bits, unsigned |-> FALSE]
      BY <1>3, <3>1
    <3>3. Common(a, b) = IF s.bits >= t.bits THEN [bits |-> s.bits, unsigned |-> TRUE]
                         ELSE [bits |-> t.bits, unsigned |-> FALSE]
      BY <1>1, <3>1 DEF Common
    <3>4. Wider(s, t) = IF s.bits = t.bits THEN [bits |-> s.bits, unsigned |-> TRUE]
                        ELSE IF s.bits > t.bits THEN s ELSE t
      BY <3>1 DEF Wider, CType
    <3>5. s.bits \in Int /\ t.bits \in Int
      BY <1>4
    <3>6. CASE s.bits = t.bits
      BY <3>3, <3>4, <3>5, <3>6
    <3>7. CASE s.bits > t.bits
      <4>1. Common(a, b) = [bits |-> s.bits, unsigned |-> TRUE]
        BY <3>3, <3>5, <3>7
      <4>2. Wider(s, t) = s
        BY <3>4, <3>5, <3>7
      <4>3. s = [bits |-> s.bits, unsigned |-> TRUE]
        BY <3>2
      <4>4. QED
        BY <4>1, <4>2, <4>3
    <3>8. CASE s.bits < t.bits
      <4>1. Common(a, b) = [bits |-> t.bits, unsigned |-> FALSE]
        BY <3>3, <3>5, <3>8
      <4>2. Wider(s, t) = t
        BY <3>4, <3>5, <3>8
      <4>3. t = [bits |-> t.bits, unsigned |-> FALSE]
        BY <3>2
      <4>4. QED
        BY <4>1, <4>2, <4>3
    <3>9. QED
      BY <3>5, <3>6, <3>7, <3>8
  <2>3. CASE ~s.unsigned /\ t.unsigned
    <3>1. s.unsigned = FALSE /\ t.unsigned = TRUE /\ (s.unsigned \/ t.unsigned) = TRUE
      BY <2>3, <1>4
    <3>2. s = [bits |-> s.bits, unsigned |-> FALSE] /\ t = [bits |-> t.bits, unsigned |-> TRUE]
      BY <1>3, <3>1
    <3>3. Common(a, b) = IF t.bits >= s.bits THEN [bits |-> t.bits, unsigned |-> TRUE]
                         ELSE [bits |-> s.bits, unsigned |-> FALSE]
      BY <1>1, <3>1 DEF Common
    <3>4. Wider(s, t) = IF s.bits = t.bits THEN [bits |-> s.bits, unsigned |-> TRUE]
                        ELSE IF s.bits > t.bits THEN s ELSE t
      BY <3>1 DEF Wider, CType
    <3>5. s.bits \in Int /\ t.bits \in Int
      BY <1>4
    <3>6. CASE s.bits = t.bits
      BY <3>3, <3>4, <3>5, <3>6
    <3>7. CASE s.bits > t.bits
      <4>1. Common(a, b) = [bits |-> s.bits, unsigned |-> FALSE]
        BY <3>3, <3>5, <3>7
      <4>2. Wider(s, t) = s
        BY <3>4, <3>5, <3>7
      <4>3. s = [bits |-> s.bits, unsigned |-> FALSE]
        BY <3>2
      <4>4. QED
        BY <4>1, <4>2, <4>3
    <3>8. CASE s.bits < t.bits
      <4>1. Common(a, b) = [bits |-> t.bits, unsigned |-> TRUE]
        BY <3>3, <3>5, <3>8
      <4>2. Wider(s, t) = t
        BY <3>4, <3>5, <3>8
      <4>3. t = [bits |-> t.bits, unsigned |-> TRUE]
        BY <3>2
      <4>4. QED
        BY <4>1, <4>2, <4>3
    <3>9. QED
      BY <3>5, <3>6, <3>7, <3>8
  <2>4. CASE ~s.unsigned /\ ~t.unsigned
    BY <1>1, <1>3, <1>4, <2>4, TypesUsed DEF Common, Wider, CType
  <2>5. QED
    BY <2>1, <2>2, <2>3, <2>4
<1>6. IsPromoted(Wider(s, t))
  <2>1. IsPromoted(CType(s.bits, s.unsigned \/ t.unsigned))
    BY <1>2, <1>4 DEF CType, IsPromoted, IsType
  <2>2. QED
    BY <2>1 DEF Wider
<1>7. QED
  BY <1>5, <1>6 DEF a, b

\* Division cuts the quotient off: whatever quotient and rest the standard
\* means are those that are computed.
LEMMA QuotientIs ==
  ASSUME NEW x \in Int, NEW y \in Int, NEW k \in Int, NEW r \in Rest(x, y), x = k * y + r
  PROVE  y # 0 /\ Quotient(x, y) = k /\ r = x - Quotient(x, y) * y
<1>1. /\ r \in Int /\ -Abs(y) + 1 <= r /\ r <= Abs(y) - 1
      /\ x < 0 => r <= 0
      /\ x >= 0 => r >= 0
  BY DEF Rest, Abs
<1>2. y # 0
  BY <1>1 DEF Abs
<1>3. -k \in Int /\ -x \in Int /\ -y \in Int /\ -r \in Int /\ k * y \in Int /\ (-k) * y = -(k * y) /\ k * (-y) = -(k * y)
      /\ (-k) * (-y) = k * y
  BY <1>1
<1>4. CASE x >= 0 /\ y > 0
  <2>1. x \div y = k
    BY <1>1, <1>4, DivUnique DEF Abs
  <2>2. QED
    BY <1>1, <1>2, <1>3, <1>4, <2>1 DEF Quotient, Abs
<1>5. CASE x >= 0 /\ y < 0
  <2> DEFINE z == -y
             j == -k
  <2>1. z \in Nat \ {0} /\ j \in Int /\ x = j * z + r /\ 0 <= r /\ r < z
    BY <1>1, <1>3, <1>5 DEF Abs
  <2> HIDE DEF z, j
  <2>2. x \div z = j
    BY <1>1, <2>1, DivUnique
  <2>3. Quotient(x, y) = -j
    BY <1>5, <2>1, <2>2 DEF Quotient, Abs, z
  <2>4. QED
    BY <1>1, <1>2, <1>3, <2>3 DEF j
<1>6. CASE x < 0 /\ y > 0
  <2> DEFINE m == -x
             j == -k
             q == -r
  <2>1. m \in Int /\ j \in Int /\ q \in Int /\ m = j * y + q /\ 0 <= q /\ q < y
    BY <1>1, <1>3, <1>6 DEF Abs
  <2> HIDE DEF m, j, q
  <2>2. m \div y = j
    BY <1>6, <2>1, DivUnique
  <2>3. Quotient(x, y) = -j
    BY <1>6, <2>1, <2>2 DEF Quotient, Abs, m
  <2>4. QED
    BY <1>1, <1>2, <1>3, <2>3 DEF j
<1>7. CASE x < 0 /\ y < 0
  <2> DEFINE m == -x
             z == -y
             q == -r
  <2>1. m \in Int /\ z \in Nat \ {0} /\ q \in Int /\ m = k * z + q /\ 0 <= q /\ q < z
    BY <1>1, <1>3, <1>7 DEF Abs
  <2> HIDE DEF m, z, q
  <2>2. m \div z = k
    BY <2>1, DivUnique
  <2>3. Quotient(x, y) = k
    BY <1>7, <2>1, <2>2 DEF Quotient, Abs, m, z
  <2>4. QED
    BY <1>1, <1>2, <1>3, <2>3
<1>8. QED
  BY <1>2, <1>4, <1>5, <1>6, <1>7

\* A rest belongs to a quotient.
LEMMA RestDivides ==
  ASSUME NEW x \in Int, NEW y \in Int, NEW r \in Rest(x, y)
  PROVE  r \in Int /\ \E k \in Int : x = k * y + r
<1>1. r \in Int /\ (x - r) % Abs(y) = 0 /\ -Abs(y) + 1 <= r /\ r <= Abs(y) - 1
  BY DEF Rest, Abs
<1> DEFINE a == Abs(y)
           d == x - r
           k == d \div a
<1>2. a \in Nat \ {0} /\ d \in Int /\ (y = a \/ y = -a)
  BY <1>1 DEF Abs
<1> HIDE DEF a, d
<1>3. d \div a \in Int /\ d = (d \div a) * a + (d % a)
  BY <1>2, DivMod
<1>4. d % a = 0
  BY <1>1 DEF a, d
<1> HIDE DEF k
<1>5. k \in Int /\ d = k * a
  <2>1. d \div a \in Int /\ (d \div a) * a \in Int
    BY <1>2, <1>3
  <2>2. QED
    BY <1>3, <1>4, <2>1 DEF k
<1>6. -k \in Int /\ (-k) * (-a) = k * a /\ k * a \in Int
  BY <1>2, <1>5
<1>7. CASE y = a
  <2>1. x = k * y + r
    BY <1>1, <1>5, <1>6, <1>7 DEF d
  <2>2. QED
    BY <1>1, <1>5, <2>1
<1>8. CASE y = -a
  <2>1. x = (-k) * y + r
    BY <1>1, <1>5, <1>6, <1>8 DEF d
  <2>2. QED
    BY <1>1, <1>6, <2>1
<1>9. QED
  BY <1>2, <1>7, <1>8

\* The rest has the type of the number that is divided.
LEMMA RestOfType ==
  ASSUME NEW t, IsType(t), NEW x \in Int, IsOfType(x, t), NEW y \in Int, NEW r \in Rest(x, y)
  PROVE  r \in Int /\ IsOfType(r, t)
<1>1. /\ r \in Int /\ (x < 0 => r <= 0) /\ (x >= 0 => r >= 0)
      /\ -Abs(y) + 1 <= r /\ r <= Abs(y) - 1
  BY DEF Rest, Abs
<1>2. \E k \in Int : x = k * y + r
  BY RestDivides
<1>3. x >= 0 => r <= x
  <2>1. SUFFICES ASSUME x >= 0, r > x PROVE FALSE
    BY <1>1
  <2> DEFINE d == r - x
             a == Abs(y)
  <2>2. d \in Int /\ 0 < d /\ d < a /\ a \in Nat \ {0}
    BY <1>1, <2>1 DEF Abs
  <2>3. (x - r) % a = 0
    BY DEF Rest
  <2>4. x - r = (-1) * a + (a - d) /\ a - d \in Int /\ 0 <= a - d /\ a - d < a
    BY <1>1, <2>2
  <2> DEFINE n == x - r
             q == a - d
  <2>5. n \in Int /\ q \in Int /\ n = (-1) * a + q /\ 0 <= q /\ q < a /\ q # 0
    BY <1>1, <2>2, <2>4
  <2>6. n % a = 0
    BY <2>3
  <2> HIDE DEF a, d, n, q
  <2>7. n % a = q
    BY <2>2, <2>5, DivUnique
  <2>8. QED
    BY <2>5, <2>6, <2>7
<1>4. x < 0 => x <= r
  <2>1. SUFFICES ASSUME x < 0, r < x PROVE FALSE
    BY <1>1
  <2> DEFINE d == x - r
             a == Abs(y)
  <2>2. d \in Int /\ 0 < d /\ d < a /\ a \in Nat \ {0}
    BY <1>1, <2>1 DEF Abs
  <2>3. d % a = 0
    BY DEF Rest
  <2>4. d = 0 * a + d
    BY <2>2
  <2> HIDE DEF a, d
  <2>5. d % a = d
    BY <2>2, <2>4, DivUnique
  <2>6. QED
    BY <2>2, <2>3, <2>5
<1>5. CASE t.unsigned
  <2>1. 0 <= x /\ x < Pow(t.bits) /\ Pow(t.bits) \in Int
    BY <1>5, TypeBounds
  <2>2. 0 <= r /\ r < Pow(t.bits)
    BY <1>1, <1>3, <2>1
  <2>3. QED
    BY <1>1, <1>5, <2>2, TypeBounds
<1>6. CASE ~t.unsigned
  <2>1. -Pow(t.bits - 1) <= x /\ x < Pow(t.bits - 1) /\ Pow(t.bits - 1) \in Nat
    BY <1>6, TypeBounds
  <2>2. -Pow(t.bits - 1) <= r /\ r < Pow(t.bits - 1)
    BY <1>1, <1>3, <1>4, <2>1
  <2>3. QED
    BY <1>1, <1>6, <2>2, TypeBounds
<1>7. QED
  BY <1>5, <1>6

\* The constant c has type t, and whatever value the standard means.
Holds(c, t, values) ==
  \E w \in Int : IsOfType(w, t) /\ c = Made(w, t) /\ \A v \in values : v = w

\* What _Int makes of y holds for values that y is wrapped to.
LEMMA MadeHolds ==
  ASSUME NEW t, IsPromoted(t), NEW y \in Int, NEW values, \A v \in values : v = Wrap(y, t)
  PROVE  Holds(Made(y, t), t, values)
<1> DEFINE w == Wrap(y, t)
<1>1. IsType(t)
  BY DEF IsPromoted
<1>2. w \in Int /\ IsOfType(w, t)
  BY <1>1, WrapIs
<1>3. Wrap(w, t) = w
  BY <1>1, <1>2, WrapKeeps
<1>4. Made(w, t) = Made(y, t)
  BY <1>3 DEF Made
<1> HIDE DEF w
<1>5. \A v \in values : v = w
  BY DEF w
<1>6. QED
  BY <1>2, <1>4, <1>5 DEF Holds

\* The parts of a constant whose value is of its type.
LEMMA MadeValue ==
  ASSUME NEW t, IsPromoted(t), NEW w \in Int, IsOfType(w, t)
  PROVE  /\ Made(w, t).value = w /\ Made(w, t).bits = t.bits /\ Made(w, t).unsigned = t.unsigned
         /\ Made(w, t) # Unsupported
<1>1. IsType(t) /\ t.bits \in Nat /\ t.unsigned \in BOOLEAN
  BY TypesUsed DEF IsPromoted, IsType
<1>2. Wrap(w, t) = w
  BY <1>1, WrapKeeps
<1>3. Made(w, t) \in [value : Int, bits : Nat, unsigned : BOOLEAN]
  BY <1>1, <1>2 DEF Made
<1>4. QED
  BY <1>2, <1>3, CConstAssumption DEF Made

\* What holds for some values holds for fewer.
LEMMA FewerHold ==
  ASSUME NEW c, NEW t, NEW values, NEW fewer, Holds(c, t, values), fewer \subseteq values
  PROVE  Holds(c, t, fewer)
BY DEF Holds

\* The truth of a condition.
LEMMA TruthHolds ==
  ASSUME NEW condition \in BOOLEAN
  PROVE  Holds(CBool(condition), IntType, Truth(condition))
<1>1. PICK v : Truth(condition) = {v}
  BY DEF Truth
<1>2. v \in Int /\ CBool(condition) = Made(v, IntType) /\ Wrap(v, IntType) = v
  BY <1>1, TruthMakes
<1>3. \A w \in Truth(condition) : w = Wrap(v, IntType)
  BY <1>1, <1>2
<1>4. QED
  BY <1>2, <1>3, IntIsPromoted, MadeHolds

\* The exact result and the one that is wrapped.
LEMMA ExactHolds ==
  ASSUME NEW t, IsPromoted(t), NEW y \in Int
  PROVE  Holds(CInt(y, t.bits, t.unsigned), t, Exactly(y, t))
<1>1. IsType(t)
  BY DEF IsPromoted
<1>2. \A v \in Exactly(y, t) : v = Wrap(y, t)
  BY <1>1, ExactlyIs
<1>3. QED
  BY <1>2, CIntMakes, MadeHolds

\* A conversion,
LEMMA ConvertedHolds ==
  ASSUME NEW t, IsPromoted(t), NEW y \in Int
  PROVE  Holds(CInt(y, t.bits, t.unsigned), t, {Converted(y, t)})
<1>1. IsType(t)
  BY DEF IsPromoted
<1>2. \A v \in {Converted(y, t)} : v = Wrap(y, t)
  BY <1>1, ConvertedWraps
<1>3. QED
  BY <1>2, CIntMakes, MadeHolds

\* and a number that is of the type already.
LEMMA SameHolds ==
  ASSUME NEW t, IsPromoted(t), NEW y \in Int, IsOfType(y, t)
  PROVE  Holds(CInt(y, t.bits, t.unsigned), t, {y})
<1>1. IsType(t)
  BY DEF IsPromoted
<1>2. \A v \in {y} : v = Wrap(y, t)
  BY <1>1, WrapKeeps
<1>3. QED
  BY <1>2, CIntMakes, MadeHolds

Signs == {"-", "+", "~", "!"}
UnaryType(op, s) == IF op = "!" THEN IntType ELSE s

\* The unary operators.
LEMMA UnaryHolds ==
  ASSUME NEW op \in Signs, NEW s, IsPromoted(s), NEW x \in Int, IsOfType(x, s)
  PROVE  Holds(UnaryInt(op, Made(x, s)), UnaryType(op, s), UnaryValues(op, x, UnaryType(op, s)))
<1> DEFINE a == Made(x, s)
<1>1. a.value = x /\ a.bits = s.bits /\ a.unsigned = s.unsigned
  BY MadeValue
<1>2. -x \in Int /\ -1 - x \in Int /\ -x - 1 = -1 - x
  OBVIOUS
<1>3. CASE op = "-"
  <2>1. UnaryInt(op, a) = CInt(-x, s.bits, s.unsigned) /\ UnaryType(op, s) = s
        /\ UnaryValues(op, x, s) = Exactly(-x, s)
    BY <1>1, <1>3 DEF UnaryInt, UnaryValues, UnaryType
  <2>2. QED
    BY <1>2, <2>1, ExactHolds
<1>4. CASE op = "~"
  <2> DEFINE y == -1 - x
  <2>1. UnaryInt(op, a) = CInt(-x - 1, s.bits, s.unsigned) /\ UnaryType(op, s) = s
        /\ UnaryValues(op, x, s) = Exactly(-1 - x, s)
    BY <1>1, <1>4 DEF UnaryInt, UnaryValues, UnaryType
  <2>2. UnaryInt(op, a) = CInt(y, s.bits, s.unsigned) /\ UnaryValues(op, x, s) = Exactly(y, s) /\ y \in Int
    BY <1>2, <2>1
  <2> HIDE DEF y
  <2>3. QED
    BY <2>1, <2>2, ExactHolds
<1>5. CASE op = "+"
  <2>1. UnaryInt(op, a) = a /\ UnaryType(op, s) = s /\ UnaryValues(op, x, s) = {x}
    BY <1>5 DEF UnaryInt, UnaryValues, UnaryType
  <2>2. Holds(a, s, {x})
    BY DEF Holds
  <2>3. QED
    BY <2>1, <2>2
<1>6. CASE op = "!"
  <2>1. UnaryInt(op, a) = CBool(x = 0) /\ UnaryType(op, s) = IntType /\ UnaryValues(op, x, IntType) = Truth(x = 0)
    BY <1>1, <1>6 DEF UnaryInt, UnaryValues, UnaryType
  <2> DEFINE zero == x = 0
  <2>2. Holds(CBool(zero), IntType, Truth(zero))
    BY TruthHolds
  <2>3. QED
    BY <2>1, <2>2
<1>7. QED
  BY <1>3, <1>4, <1>5, <1>6 DEF Signs

\* What an operator refuses: nothing in a branch that is not taken, and only
\* what has no value.
Refuses(c, dead, values) == c = Unsupported /\ ~dead /\ values = {}

\* An error is refused in a branch that is taken, and is a 0 in one that is not.
LEMMA WrongIs ==
  ASSUME NEW t, IsPromoted(t), NEW dead \in BOOLEAN, NEW c,
         c = IF dead THEN CInt(0, t.bits, t.unsigned) ELSE Unsupported
  PROVE  Refuses(c, dead, {}) \/ Holds(c, t, {})
<1>1. CASE ~dead
  BY <1>1 DEF Refuses
<1>2. CASE dead
  <2>1. c = CInt(0, t.bits, t.unsigned)
    BY <1>2
  <2>2. Holds(c, t, Exactly(0, t))
    BY <2>1, ExactHolds
  <2>3. QED
    BY <2>2, FewerHold
<1>3. QED
  BY <1>1, <1>2

\* A shift to the right stays in its type.
LEMMA ShiftedOfType ==
  ASSUME NEW t, IsType(t), NEW x \in Int, IsOfType(x, t), NEW P \in Nat \ {0}
  PROVE  x \div P \in Int /\ IsOfType(x \div P, t)
<1> DEFINE q == x \div P
           r == x % P
<1>1. q \in Int /\ r \in Int /\ 0 <= r /\ r < P /\ x = q * P + r
  BY DivMod
<1> HIDE DEF q, r
<1>2. x >= 0 => 0 <= q /\ q <= x
  BY <1>1, SMT
<1>3. x < 0 => x <= q /\ q < 0
  BY <1>1, SMT
<1>4. CASE t.unsigned
  <2>1. 0 <= x /\ x < Pow(t.bits) /\ Pow(t.bits) \in Int
    BY <1>4, TypeBounds
  <2>2. 0 <= q /\ q < Pow(t.bits)
    BY <1>1, <1>2, <2>1
  <2>3. IsOfType(q, t)
    BY <1>1, <1>4, <2>2, TypeBounds
  <2>4. QED
    BY <1>1, <2>3 DEF q
<1>5. CASE ~t.unsigned
  <2>1. -Pow(t.bits - 1) <= x /\ x < Pow(t.bits - 1) /\ Pow(t.bits - 1) \in Nat
    BY <1>5, TypeBounds
  <2>2. -Pow(t.bits - 1) <= q /\ q < Pow(t.bits - 1)
    BY <1>1, <1>2, <1>3, <2>1
  <2>3. IsOfType(q, t)
    BY <1>1, <1>5, <2>2, TypeBounds
  <2>4. QED
    BY <1>1, <2>3 DEF q
<1>6. QED
  BY <1>4, <1>5

\* A shift count is smaller than the numbers of its type.
LEMMA ShiftHolds ==
  ASSUME NEW op \in Shifts, NEW s, IsPromoted(s), NEW r, IsPromoted(r), NEW dead \in BOOLEAN,
         NEW x \in Int, IsOfType(x, s), NEW n \in Int, IsOfType(n, r)
  PROVE  LET c == BinaryInt(op, Made(x, s), Made(n, r), dead)
             values == ShiftValues(op, x, n, s)
         IN  Refuses(c, dead, values) \/ Holds(c, s, values)
<1> DEFINE a == Made(x, s)
           b == Made(n, r)
           c == BinaryInt(op, a, b, dead)
           values == ShiftValues(op, x, n, s)
<1>1. a.value = x /\ a.bits = s.bits /\ a.unsigned = s.unsigned /\ b.value = n
  BY MadeValue
<1>2. op \notin Logical /\ (op = "<<" \/ op = ">>") /\ ~(op = "&&") /\ ~(op = "||")
  BY DEF Shifts, Logical
<1>3. c = IF n < 0 THEN (IF dead THEN CInt(0, s.bits, s.unsigned) ELSE Unsupported)
          ELSE CInt(IF op = "<<" THEN x * 2^n ELSE x \div 2^n, s.bits, s.unsigned)
  <2> HIDE DEF a, b
  <2>1. BinaryInt(op, a, b, dead) = ShiftInt(op, a, b, dead)
    BY <1>2 DEF BinaryInt
  <2>2. QED
    BY <1>1, <2>1 DEF ShiftInt, WrongInt
<1>4. IsType(s) /\ IsType(r) /\ s.bits \in Nat
  BY TypesUsed DEF IsPromoted, IsType
<1> HIDE DEF c
<1>5. CASE n < 0
  <2>1. c = IF dead THEN CInt(0, s.bits, s.unsigned) ELSE Unsupported
    BY <1>3, <1>5
  <2>2. values = {}
    BY <1>4, <1>5 DEF ShiftValues
  <2>3. Refuses(c, dead, {}) \/ Holds(c, s, {})
    BY <2>1, WrongIs
  <2> HIDE DEF values
  <2>4. Refuses(c, dead, values) \/ Holds(c, s, values)
    BY <2>2, <2>3
  <2>5. QED
    BY <2>4 DEF values, c
<1>6. CASE n >= 0
  <2> DEFINE P == Pow(n)
  <2>1. P \in Nat \ {0}
    <3>1. n < Pow(r.bits)
      BY <1>4, <1>6, TypeBounds
    <3>2. r.bits \in Nat /\ r.bits <= CWideBits
      BY <1>4, TypesUsed DEF IsType
    <3>3. Pow(r.bits) <= Pow(CWideBits) /\ Pow(r.bits) \in Int /\ Pow(CWideBits) \in Int
      BY <3>2, TypesUsed, PowerPositive, PowerUnderstood
    <3>4. n \in Nat /\ n <= Widest
      BY <1>6, <3>1, <3>3, TypesUsed
    <3>5. QED
      BY <3>4, PowerPositive
  <2>2. x * P \in Int /\ x \div P \in Int /\ IsOfType(x \div P, s)
    <3> HIDE DEF P
    <3>1. x * P \in Int
      BY <2>1
    <3>2. QED
      BY <1>4, <2>1, <3>1, ShiftedOfType
  <2>3. CASE op = "<<"
    <3> DEFINE y == x * P
    <3>1. c = CInt(y, s.bits, s.unsigned)
      BY <1>3, <1>6, <2>3 DEF Pow
    <3>2. values \subseteq Exactly(y, s)
      BY <2>3 DEF ShiftValues, Pow
    <3>3. y \in Int
      BY <2>2
    <3> HIDE DEF y, values
    <3>4. Holds(c, s, Exactly(y, s))
      BY <3>1, <3>3, ExactHolds
    <3>5. Holds(c, s, values)
      BY <3>2, <3>4, FewerHold
    <3>6. QED
      BY <3>5 DEF values, c
  <2>4. CASE op = ">>"
    <3> DEFINE y == x \div P
    <3>1. c = CInt(y, s.bits, s.unsigned)
      BY <1>3, <1>6, <2>4 DEF Pow
    <3>2. values \subseteq {y}
      BY <2>4 DEF ShiftValues, Pow
    <3>3. y \in Int /\ IsOfType(y, s)
      BY <2>2
    <3> HIDE DEF y, values
    <3>4. Holds(c, s, {y})
      BY <3>1, <3>3, SameHolds
    <3>5. Holds(c, s, values)
      BY <3>2, <3>4, FewerHold
    <3>6. QED
      BY <3>5 DEF values, c
  <2>5. QED
    BY <1>2, <2>3, <2>4
<1>7. QED
  BY <1>5, <1>6

\* The bits of two numbers are combined to a number.
LEMMA FromBitsInt ==
  ASSUME NEW bit \in [0 .. CWideBits - 1 -> Int]
  PROVE  FromBits(bit) \in Int
<1> DEFINE N == CWideBits
           step == [k \in 1 .. N |-> [n \in Int |-> n + bit[k - 1] * Pow(k - 1)]]
           By(f, k) == IF k = 0 THEN 0 ELSE f[k - 1] + bit[k - 1] * Pow(k - 1)
           Sums(f) == [k \in 0 .. N |-> By(f, k)]
           sum == CHOOSE f : f = Sums(f)
<1>1. N \in Nat /\ \A k \in 1 .. N : k - 1 \in Nat /\ k - 1 \in 0 .. N - 1 /\ k - 1 <= Widest
  BY TypesUsed
<1>2. \A k \in 1 .. N : bit[k - 1] \in Int /\ Pow(k - 1) \in Int
  BY <1>1, PowerPositive
<1>3. \A k \in 1 .. N : bit[k - 1] * Pow(k - 1) \in Int
  BY <1>2
<1>4. step \in [1 .. N -> [Int -> Int]]
  BY <1>3
<1>5. PICK f \in [0 .. N -> Int] : Recurs(f, N, 0, step)
  <2> HIDE DEF N, step
  <2>1. 0 \in Int
    OBVIOUS
  <2>2. QED
    BY <1>1, <1>4, <2>1, RecursionTo, Zenon
<1>6. \A k \in 0 .. N : f[k] = By(f, k)
  <2>1. f[0] = 0 /\ \A k \in 1 .. N : f[k] = step[k][f[k - 1]]
    BY <1>5 DEF Recurs
  <2>2. ASSUME NEW k \in 0 .. N, k # 0 PROVE f[k] = f[k - 1] + bit[k - 1] * Pow(k - 1)
    <3>1. k \in 1 .. N /\ k - 1 \in 0 .. N
      BY <1>1, <2>2
    <3>2. f[k] = step[k][f[k - 1]] /\ f[k - 1] \in Int
      BY <1>5, <2>1, <3>1
    <3>3. QED
      BY <3>1, <3>2
  <2>3. QED
    BY <2>1, <2>2
<1>7. f = Sums(f)
  <2>1. f = [k \in 0 .. N |-> f[k]]
    OBVIOUS
  <2>2. QED
    BY <1>6, <2>1
<1>8. FromBits(bit) = sum[N]
  BY DEF FromBits, Pow
<1>9. sum = Sums(sum)
  <2> HIDE DEF Sums
  <2>1. QED
    BY <1>7
<1> HIDE DEF sum
<1>10. \A k \in 0 .. N : sum[k] = By(sum, k)
  BY <1>9
<1> DEFINE T == {k \in Nat : k <= N => sum[k] \in Int}
<1>11. 0 \in T
  BY <1>1, <1>10
<1>12. ASSUME NEW k \in Nat, k \in T PROVE k + 1 \in T
  <2>1. SUFFICES ASSUME k + 1 <= N PROVE sum[k + 1] \in Int
    OBVIOUS
  <2>2. k <= N /\ k + 1 \in 0 .. N /\ k + 1 \in 1 .. N /\ (k + 1) - 1 = k /\ k + 1 # 0
    BY <1>1, <2>1
  <2>3. sum[k + 1] = sum[k] + bit[k] * Pow(k)
    BY <1>10, <2>2
  <2>4. bit[k] * Pow(k) \in Int
    BY <1>3, <2>2
  <2>5. sum[k] \in Int
    BY <1>12, <2>2
  <2>6. QED
    BY <2>3, <2>4, <2>5
<1> HIDE DEF T
<1>13. \A k \in Nat : k \in T
  BY <1>11, <1>12, AllNumbers
<1>14. sum[N] \in Int
  BY <1>1, <1>13 DEF T
<1>15. QED
  BY <1>8, <1>14

\* What the operators on two operands compute are integers: bits,
LEMMA BitIsInt ==
  ASSUME NEW x \in Int, NEW i \in 0 .. CWideBits - 1
  PROVE  Bit(x, i) \in Int
<1> DEFINE P == Pow(i)
<1>1. P \in Nat \ {0}
  BY TypesUsed, PowerPositive
<1>2. Bit(x, i) = (x \div P) % 2
  BY DEF Bit, Pow
<1> HIDE DEF P
<1>3. x \div P \in Int
  BY <1>1, DivMod
<1>4. QED
  BY <1>2, <1>3

\* quotients,
LEMMA QuotientInt ==
  ASSUME NEW x \in Int, NEW y \in Int, y # 0
  PROVE  Quotient(x, y) \in Int /\ Quotient(x, y) * y \in Int /\ x - Quotient(x, y) * y \in Int
<1> DEFINE a == Abs(x)
           b == Abs(y)
           q == Quotient(x, y)
<1>1. a \in Int /\ b \in Nat \ {0}
  BY DEF Abs
<1>2. q = a \div b \/ q = -(a \div b)
  BY DEF Quotient
<1> HIDE DEF a, b, q
<1>3. a \div b \in Int
  BY <1>1, DivMod
<1>4. q \in Int
  BY <1>2, <1>3
<1>5. q * y \in Int
  BY <1>4
<1>6. x - q * y \in Int
  BY <1>5
<1>7. QED
  BY <1>4, <1>5, <1>6 DEF q

\* and all others.
LEMMA CombineInt ==
  ASSUME NEW op \in Arithmetic, NEW x \in Int, NEW y \in Int, op \in {"/", "%"} => y # 0
  PROVE  Combine(op, x, y) \in Int
<1> DEFINE And == [i \in 0 .. CWideBits - 1 |-> Bit(x, i) * Bit(y, i)]
           Or == [i \in 0 .. CWideBits - 1 |-> Larger(Bit(x, i), Bit(y, i))]
           Xor == [i \in 0 .. CWideBits - 1 |-> (Bit(x, i) + Bit(y, i)) % 2]
<1>1. \A i \in 0 .. CWideBits - 1 : Bit(x, i) \in Int /\ Bit(y, i) \in Int
  BY BitIsInt
<1>2. \A m \in Int, n \in Int : m * n \in Int /\ Larger(m, n) \in Int /\ (m + n) % 2 \in Int
  BY DEF Larger
<1>3. And \in [0 .. CWideBits - 1 -> Int] /\ Or \in [0 .. CWideBits - 1 -> Int]
      /\ Xor \in [0 .. CWideBits - 1 -> Int]
  BY <1>1, <1>2
<1> HIDE DEF And, Or, Xor
<1>4. FromBits(And) \in Int /\ FromBits(Or) \in Int /\ FromBits(Xor) \in Int
  BY <1>3, FromBitsInt
<1>5. CASE op \in {"&", "|", "^"}
  <2>1. Combine(op, x, y) \in {FromBits(And), FromBits(Or), FromBits(Xor)}
    BY <1>5 DEF Combine, And, Or, Xor
  <2>2. QED
    BY <1>4, <2>1
<1>6. CASE op \in {"+", "-", "*"}
  <2>1. x + y \in Int /\ x - y \in Int /\ x * y \in Int
    OBVIOUS
  <2>2. Combine(op, x, y) \in {x + y, x - y, x * y}
    BY <1>6 DEF Combine
  <2>3. QED
    BY <2>1, <2>2
<1>7. CASE op \in {"/", "%"}
  <2>1. Combine(op, x, y) \in {Quotient(x, y), x - Quotient(x, y) * y}
    BY <1>7 DEF Combine
  <2>2. QED
    BY <1>7, <2>1, QuotientInt
<1>8. QED
  BY <1>5, <1>6, <1>7 DEF Arithmetic

CommonType(op, t) == IF op \in Comparisons THEN IntType ELSE t

\* Nothing is divided by 0, and otherwise only the quotient and the rest that are cut off.
LEMMA NothingDivided ==
  ASSUME NEW x \in Int, NEW y \in Int
  PROVE  /\ y = 0 => Rest(x, y) = {} /\ Divided(x, y) = {}
         /\ \A q \in Divided(x, y) : q = Quotient(x, y)
         /\ \A r \in Rest(x, y) : r = x - Quotient(x, y) * y
<1>1. ASSUME NEW r \in Rest(x, y) PROVE y # 0 /\ r = x - Quotient(x, y) * y
  <2>1. PICK k \in Int : x = k * y + r
    BY <1>1, RestDivides
  <2>2. QED
    BY <1>1, <2>1, QuotientIs
<1>2. ASSUME NEW q \in Divided(x, y) PROVE y # 0 /\ q = Quotient(x, y)
  <2>1. q \in -Abs(x) .. Abs(x) /\ \E r \in Rest(x, y) : x = q * y + r
    BY <1>2 DEF Divided
  <2>2. Abs(x) \in Int
    BY DEF Abs
  <2>3. q \in Int
    BY <2>1, <2>2
  <2>4. QED
    BY <2>1, <2>3, QuotientIs
<1>3. QED
  BY <1>1, <1>2

\* An operator on operands of a common type.
LEMMA CommonHolds ==
  ASSUME NEW op \in Comparisons \cup Arithmetic, NEW t, IsPromoted(t), NEW dead \in BOOLEAN,
         NEW x \in Int, IsOfType(x, t), NEW y \in Int, IsOfType(y, t)
  PROVE  LET c == CommonInt(op, x, y, t, dead)
             values == BinaryValues(op, x, y, CommonType(op, t))
         IN  Refuses(c, dead, values) \/ Holds(c, CommonType(op, t), values)
<1> DEFINE c == CommonInt(op, x, y, t, dead)
           values == BinaryValues(op, x, y, CommonType(op, t))
           q == Quotient(x, y)
<1>1. IsType(t)
  BY DEF IsPromoted
<1>2. CASE op \in Comparisons
  <2> DEFINE truth == Compare(op, x, y)
  <2>2. truth \in BOOLEAN
    BY DEF Compare
  <2> HIDE DEF truth, c
  <2>1. c = CBool(truth) /\ CommonType(op, t) = IntType /\ BinaryValues(op, x, y, IntType) = Truth(truth)
    <3>1. c = CBool(truth)
      BY <1>2 DEF CommonInt, c, truth
    <3>2. CommonType(op, t) = IntType
      BY <1>2 DEF CommonType
    <3>3. BinaryValues(op, x, y, IntType) = Truth(truth)
      <4>1. op # "/" /\ op # "%" /\ op \notin {"&", "|", "^"}
        BY <1>2 DEF Comparisons
      <4>2. QED
        BY <1>2, <4>1 DEF BinaryValues, truth
    <3>4. QED
      BY <3>1, <3>2, <3>3
  <2>3. Holds(c, IntType, Truth(truth))
    BY <2>1, <2>2, TruthHolds
  <2>4. Holds(c, CommonType(op, t), values)
    BY <2>1, <2>3
  <2>5. QED
    BY <2>4 DEF c
<1>3. CASE op \in Arithmetic
  <2>1. op \notin Comparisons /\ CommonType(op, t) = t
    BY <1>3 DEF Arithmetic, Comparisons, CommonType
  <2>2. c = IF op \in {"/", "%"} /\ y = 0 THEN (IF dead THEN CInt(0, t.bits, t.unsigned) ELSE Unsupported)
            ELSE CInt(Combine(op, x, y), t.bits, t.unsigned)
    BY <2>1 DEF CommonInt, WrongInt
  <2>3. values = BinaryValues(op, x, y, t)
    BY <2>1
  <2> HIDE DEF c, values
  <2>4. CASE op \in {"/", "%"} /\ y = 0
    <3>1. c = IF dead THEN CInt(0, t.bits, t.unsigned) ELSE Unsupported
      BY <2>2, <2>4
    <3>2. Rest(x, y) = {} /\ Divided(x, y) = {}
      BY <2>4, NothingDivided
    <3>3. values = {}
      <4>1. CASE op = "/"
        BY <2>1, <2>3, <3>2, <4>1 DEF BinaryValues
      <4>2. CASE op = "%"
        BY <2>1, <2>3, <3>2, <4>2 DEF BinaryValues
      <4>3. QED
        BY <2>4, <4>1, <4>2
    <3>4. Refuses(c, dead, values) \/ Holds(c, t, values)
      BY <3>1, <3>3, WrongIs
    <3>5. QED
      BY <2>1, <3>4 DEF c, values
  <2>5. CASE op \in {"/", "%"} => y # 0
    <3> DEFINE z == Combine(op, x, y)
    <3>1. c = CInt(z, t.bits, t.unsigned) /\ z \in Int
      BY <1>3, <2>2, <2>5, CombineInt
    <3>2. CASE op = "/"
      <4>1. z = q /\ values = UNION {Exactly(k, t) : k \in Divided(x, y)}
        BY <2>1, <2>3, <3>2 DEF BinaryValues, Combine
      <4>2. values \subseteq Exactly(z, t)
        BY <4>1, NothingDivided
      <4> HIDE DEF z
      <4>3. Holds(c, t, values)
        BY <3>1, <4>2, ExactHolds, FewerHold
      <4>4. QED
        BY <2>1, <4>3 DEF c, values
    <3>3. CASE op = "%"
      <4>1. z = x - q * y
        BY <3>3 DEF Combine
      <4>2. values \subseteq Rest(x, y)
        BY <2>1, <2>3, <3>3 DEF BinaryValues
      <4>3. ASSUME NEW v \in values PROVE v = Wrap(z, t)
        <5>1. v = z
          BY <4>1, <4>2, <4>3, NothingDivided
        <5>2. v \in Int /\ IsOfType(v, t)
          BY <1>1, <4>2, <4>3, RestOfType
        <5>3. QED
          BY <1>1, <5>1, <5>2, WrapKeeps
      <4> HIDE DEF z
      <4>4. Holds(Made(z, t), t, values)
        BY <3>1, <4>3, MadeHolds
      <4>5. c = Made(z, t)
        BY <3>1, CIntMakes
      <4>6. QED
        BY <2>1, <4>4, <4>5 DEF c, values
    <3>4. CASE op \in {"&", "|", "^"}
      <4>1. values = {Converted(z, t)}
        BY <2>1, <2>3, <3>4 DEF BinaryValues
      <4> HIDE DEF z
      <4>2. Holds(c, t, values)
        BY <3>1, <4>1, ConvertedHolds
      <4>3. QED
        BY <2>1, <4>2 DEF c, values
    <3>5. CASE op \in {"+", "-", "*"}
      <4>1. values = Exactly(z, t)
        BY <2>1, <2>3, <3>5 DEF BinaryValues
      <4> HIDE DEF z
      <4>2. Holds(c, t, values)
        BY <3>1, <4>1, ExactHolds
      <4>3. QED
        BY <2>1, <4>2 DEF c, values
    <3>6. QED
      BY <1>3, <3>2, <3>3, <3>4, <3>5 DEF Arithmetic
  <2>6. QED
    BY <2>4, <2>5
<1>4. QED
  BY <1>2, <1>3

\* The operands are converted to their common type.
LEMMA BinaryHolds ==
  ASSUME NEW op \in Comparisons \cup Arithmetic, NEW s, IsPromoted(s), NEW r, IsPromoted(r),
         NEW dead \in BOOLEAN,
         NEW x \in Int, IsOfType(x, s), NEW y \in Int, IsOfType(y, r)
  PROVE  LET common == Wider(s, r)
             c == BinaryInt(op, Made(x, s), Made(y, r), dead)
             values == BinaryValues(op, Converted(x, common), Converted(y, common), CommonType(op, common))
         IN  Refuses(c, dead, values) \/ Holds(c, CommonType(op, common), values)
<1> DEFINE a == Made(x, s)
           b == Made(y, r)
           t == Wider(s, r)
           v == Wrap(x, t)
           w == Wrap(y, t)
<1>1. a.value = x /\ b.value = y
  BY MadeValue
<1>2. Common(a, b) = t /\ IsPromoted(t)
  BY CommonIsWider
<1>3. op \notin Shifts /\ op # "&&" /\ op # "||"
  BY DEF Comparisons, Arithmetic, Shifts
<1> HIDE DEF a, b, t
<1>4. IsType(t)
  BY <1>2 DEF IsPromoted
<1>5. v \in Int /\ IsOfType(v, t) /\ w \in Int /\ IsOfType(w, t)
      /\ Converted(x, t) = v /\ Converted(y, t) = w
  BY <1>4, WrapIs, ConvertedWraps
<1>6. CInt(x, t.bits, t.unsigned).value = v /\ CInt(y, t.bits, t.unsigned).value = w
  <2>1. CInt(x, t.bits, t.unsigned) = Made(x, t) /\ CInt(y, t.bits, t.unsigned) = Made(y, t)
    BY <1>2, CIntMakes
  <2>2. Made(x, t).value = v /\ Made(y, t).value = w
    BY DEF Made
  <2>3. QED
    BY <2>1, <2>2
<1>7. BinaryInt(op, a, b, dead) =
        CommonInt(op, CInt(a.value, t.bits, t.unsigned).value, CInt(b.value, t.bits, t.unsigned).value, t, dead)
  BY <1>2, <1>3 DEF BinaryInt
<1> HIDE DEF v, w
<1>8. BinaryInt(op, a, b, dead) = CommonInt(op, v, w, t, dead)
  BY <1>1, <1>6, <1>7
<1>9. \/ Refuses(CommonInt(op, v, w, t, dead), dead, BinaryValues(op, v, w, CommonType(op, t)))
      \/ Holds(CommonInt(op, v, w, t, dead), CommonType(op, t), BinaryValues(op, v, w, CommonType(op, t)))
  BY <1>2, <1>5, CommonHolds
<1>10. QED
  BY <1>5, <1>8, <1>9 DEF a, b, t

AndValues(xs, ys) == UNION {IF v = 0 THEN {0} ELSE UNION {Truth(w # 0) : w \in ys} : v \in xs}
OrValues(xs, ys) == UNION {IF v # 0 THEN {1} ELSE UNION {Truth(w # 0) : w \in ys} : v \in xs}

\* && and ||, of which the second operand may not count.
LEMMA LogicalHolds ==
  ASSUME NEW x \in Int, NEW y \in Int, NEW xs, \A v \in xs : v = x, NEW ys, \A w \in ys : w = y
  PROVE  /\ Holds(CBool(x # 0 /\ y # 0), IntType, AndValues(xs, ys))
         /\ Holds(CBool(x # 0 \/ y # 0), IntType, OrValues(xs, ys))
<1>1. AndValues(xs, ys) \subseteq Truth(x # 0 /\ y # 0)
  BY DEF AndValues, Truth
<1>2. OrValues(xs, ys) \subseteq Truth(x # 0 \/ y # 0)
  BY DEF OrValues, Truth
<1> DEFINE both == x # 0 /\ y # 0
           one == x # 0 \/ y # 0
<1>3. both \in BOOLEAN /\ one \in BOOLEAN
  OBVIOUS
<1>4. AndValues(xs, ys) \subseteq Truth(both) /\ OrValues(xs, ys) \subseteq Truth(one)
  BY <1>1, <1>2
<1> HIDE DEF both, one
<1>5. Holds(CBool(both), IntType, Truth(both)) /\ Holds(CBool(one), IntType, Truth(one))
  BY <1>3, TruthHolds
<1>6. Holds(CBool(both), IntType, AndValues(xs, ys)) /\ Holds(CBool(one), IntType, OrValues(xs, ys))
  BY <1>4, <1>5, FewerHold
<1>7. QED
  BY <1>6 DEF both, one

CastType(b, u) == IF b < CIntBits THEN IntType ELSE CType(b, u)

\* The high bit of a number of twice h values.
LEMMA HighBit ==
  ASSUME NEW h \in Nat \ {0}, NEW p \in Int, 0 <= p, p < 2 * h
  PROVE  (p \div h) % 2 = IF p >= h THEN 1 ELSE 0
<1>1. CASE p >= h
  <2>1. p = 1 * h + (p - h) /\ 0 <= p - h /\ p - h < h /\ p - h \in Int
    BY <1>1
  <2> DEFINE r == p - h
  <2> HIDE DEF r
  <2>2. r \in Int /\ p = 1 * h + r /\ 0 <= r /\ r < h
    BY <2>1 DEF r
  <2>3. p \div h = 1
    BY <2>2, DivUnique
  <2>4. QED
    BY <1>1, <2>3
<1>2. CASE p < h
  <2>1. p = 0 * h + p
    OBVIOUS
  <2>2. p \div h = 0
    BY <1>2, <2>1, DivUnique
  <2>3. QED
    BY <1>2, <2>2
<1>3. QED
  BY <1>1, <1>2

\* A narrow type is converted to first, then promoted.
LEMMA CastHolds ==
  ASSUME NEW b \in 1 .. CWideBits, NEW u \in BOOLEAN, NEW s, IsPromoted(s), NEW x \in Int, IsOfType(x, s)
  PROVE  Holds(CastInt(b, u, Made(x, s)), CastType(b, u), {Converted(x, CType(b, u))})
<1> DEFINE a == Made(x, s)
           t == CType(b, u)
<1>1. a.value = x
  BY MadeValue
<1>2. IsType(t) /\ t.bits = b /\ t.unsigned = u /\ b \in Nat
  BY TypesUsed DEF IsType, CType
<1> HIDE DEF a, t
<1>3. CASE b >= CIntBits
  <2>1. ~(b < CIntBits)
    BY <1>2, <1>3, TypesUsed
  <2>2. IsPromoted(t) /\ CastType(b, u) = t
    BY <1>2, <1>3, <2>1 DEF IsPromoted, CastType, t
  <2>3. CastInt(b, u, a) = CInt(x, t.bits, t.unsigned)
    BY <1>1, <1>2, <1>3 DEF CastInt
  <2>4. Holds(CastInt(b, u, a), t, {Converted(x, t)})
    BY <2>2, <2>3, ConvertedHolds
  <2>5. QED
    BY <2>2, <2>4 DEF a, t
<1>4. CASE b < CIntBits
  <2> DEFINE p == Low(x, b)
             h == Pow(b - 1)
             P == Pow(b)
             H == Pow(CIntBits - 1)
             n == CInt(p, CIntBits, FALSE)
  <2>1. CastType(b, u) = IntType /\ ~(b >= CIntBits)
    BY <1>2, <1>4, TypesUsed DEF CastType
  <2>2. p \in Int /\ 0 <= p /\ p < P
    BY <1>2, TypesUsed, LowReads
  <2>3. P = 2 * h /\ h \in Nat \ {0} /\ P \in Nat
    BY <1>2, TypeBounds
  <2>4. P <= H /\ H \in Nat
    <3>1. CIntBits - 1 \in Nat /\ CIntBits - 1 <= Widest /\ b <= CIntBits - 1 /\ b <= Widest
      BY <1>2, <1>4, TypesUsed
    <3>2. QED
      BY <1>2, <3>1, PowerPositive, PowerUnderstood
  <2>5. IsPromoted(IntType) /\ IntType.bits = CIntBits /\ IntType.unsigned = FALSE /\ IsType(IntType)
    BY IntIsPromoted
  <2>6. \A y \in Int : -H <= y /\ y < H => IsOfType(y, IntType)
    BY <2>5, TypeBounds
  <2>7. n = Made(p, IntType) /\ n.value = p /\ IsOfType(p, IntType)
    <3> HIDE DEF p, H, P
    <3>1. IsOfType(p, IntType)
      BY <2>2, <2>3, <2>4, <2>6
    <3>2. n = Made(p, IntType)
      BY <2>5, CIntMakes
    <3>3. QED
      BY <2>2, <2>5, <3>1, <3>2, MadeValue
  <2>8. CastInt(b, u, a) = IF ~u /\ Bit(p, b - 1) = 1 THEN CInt(p - P, CIntBits, FALSE) ELSE n
    <3>1. CastInt(b, u, a) = IF ~u /\ Bit(n.value, b - 1) = 1 THEN CInt(n.value - P, CIntBits, FALSE) ELSE n
      BY <1>1, <2>1 DEF CastInt, Pow
    <3>2. QED
      BY <2>7, <3>1
  <2>9. Converted(x, t) = IF u THEN p ELSE Sext(x, b)
    BY <1>2, ConvertedWraps DEF Wrap
  <2>10. Bit(p, b - 1) = (p \div h) % 2
    BY DEF Bit, Pow
  <2>11. Sext(x, b) = IF p >= h THEN p - P ELSE p
    BY DEF Sext, Pow
  <2> HIDE DEF p, h, P, H, n
  <2>12. Bit(p, b - 1) = IF p >= h THEN 1 ELSE 0
    BY <2>2, <2>3, <2>10, HighBit
  <2> DEFINE y == IF ~u /\ p >= h THEN p - P ELSE p
  <2>13. y \in Int /\ -H <= y /\ y < H
    BY <2>2, <2>3, <2>4
  <2>14. Converted(x, t) = y
    BY <2>9, <2>11
  <2>15. CastInt(b, u, a) = CInt(y, CIntBits, FALSE)
    <3>1. CASE ~u /\ p >= h
      BY <2>8, <2>12, <3>1
    <3>2. CASE ~(~u /\ p >= h)
      <4>1. CastInt(b, u, a) = n
        <5>1. CASE u
          BY <2>8, <5>1
        <5>2. CASE ~(p >= h)
          <6>1. Bit(p, b - 1) # 1
            BY <2>12, <5>2
          <6>2. QED
            BY <2>8, <6>1
        <5>3. QED
          BY <3>2, <5>1, <5>2
      <4>2. n = CInt(p, CIntBits, FALSE) /\ y = p
        BY <3>2 DEF n
      <4>3. QED
        BY <4>1, <4>2
    <3>3. QED
      BY <3>1, <3>2
  <2> HIDE DEF y
  <2>16. IsOfType(y, IntType)
    BY <2>6, <2>13
  <2>17. Holds(CInt(y, IntType.bits, IntType.unsigned), IntType, {y})
    BY <2>5, <2>13, <2>16, SameHolds
  <2>18. QED
    BY <2>1, <2>5, <2>14, <2>15, <2>17 DEF a, t
<1>5. QED
  BY <1>2, <1>3, <1>4, TypesUsed

-----------------------------------------------------------------------------
(* Literals                                                                 *)

WidthAt(k) == <<CIntBits, CLongBits, CWideBits>>[k]
FitsAt(e, k, u) ==
  /\ IF u THEN ~e.decimal \/ e.u ELSE ~e.u
  /\ e.value < 2^(WidthAt(k) - (IF u THEN 0 ELSE 1))
FittingOf(e) == {k \in e.longs + 1 .. 3 : FitsAt(e, k, FALSE) \/ FitsAt(e, k, TRUE)}
IsLiteral(e) ==
  e.value \in Nat /\ e.longs \in 0 .. 2 /\ e.decimal \in BOOLEAN /\ e.u \in BOOLEAN
TypeOfLiteral(e) ==
  IF LiteralTypes(e) = {} THEN CType(CWideBits, TRUE)
  ELSE CHOOSE t \in LiteralTypes(e) :
         \A s \in LiteralTypes(e) : t.bits < s.bits \/ (t.bits = s.bits /\ (t.unsigned => s.unsigned))

\* The widths that are tried for a literal grow.
LEMMA WidthsGrow ==
  /\ \A k \in 1 .. 3 : WidthAt(k) \in 1 .. CWideBits /\ CIntBits <= WidthAt(k) /\ WidthAt(k) \in Nat
  /\ \A j, k \in 1 .. 3 : j <= k => WidthAt(j) <= WidthAt(k)
  /\ WidthAt(1) = CIntBits /\ WidthAt(2) = CLongBits /\ WidthAt(3) = CWideBits
BY TypesUsed DEF WidthAt

\* The widths that a literal may have by the standard are those that are tried.
LEMMA LiteralWidths ==
  ASSUME NEW e, IsLiteral(e)
  PROVE  {CIntBits, CLongBits, CWideBits}
           \ (CASE e.longs = 0 -> {} [] e.longs = 1 -> {CIntBits} \ {CLongBits}
                [] e.longs = 2 -> {CIntBits, CLongBits} \ {CWideBits})
         = {WidthAt(k) : k \in e.longs + 1 .. 3}
<1>1. CASE e.longs = 0
  <2>1. e.longs + 1 .. 3 = {1, 2, 3}
    BY <1>1
  <2>2. QED
    BY <1>1, <2>1, WidthsGrow
<1>2. CASE e.longs = 1
  <2>1. e.longs + 1 .. 3 = {2, 3}
    BY <1>2
  <2>2. {CIntBits, CLongBits, CWideBits} \ ({CIntBits} \ {CLongBits}) = {CLongBits, CWideBits}
    BY TypesUsed
  <2>3. QED
    BY <1>2, <2>1, <2>2, WidthsGrow
<1>3. CASE e.longs = 2
  <2>1. e.longs + 1 .. 3 = {3}
    BY <1>3
  <2>2. {CIntBits, CLongBits, CWideBits} \ ({CIntBits, CLongBits} \ {CWideBits}) = {CWideBits}
    BY TypesUsed
  <2>3. QED
    BY <1>3, <2>1, <2>2, WidthsGrow
<1>4. QED
  BY <1>1, <1>2, <1>3 DEF IsLiteral

\* A literal fits in the types the standard allows.
LEMMA LiteralFits ==
  ASSUME NEW e, IsLiteral(e), NEW k \in e.longs + 1 .. 3
  PROVE  /\ FitsAt(e, k, TRUE) <=> (e.decimal => e.u) /\ IsOfType(e.value, CType(WidthAt(k), TRUE))
         /\ FitsAt(e, k, FALSE) <=> ~e.u /\ IsOfType(e.value, CType(WidthAt(k), FALSE))
<1> DEFINE b == WidthAt(k)
           P == Pow(b)
           h == Pow(b - 1)
           v == e.value
<1>1. k \in 1 .. 3 /\ v \in Nat
  BY DEF IsLiteral
<1>2. b \in 1 .. CWideBits
  BY <1>1, WidthsGrow
<1> HIDE DEF b
<1> DEFINE t == CType(b, TRUE)
           f == CType(b, FALSE)
<1>3. IsType(t) /\ t.bits = b /\ t.unsigned = TRUE
  BY <1>2 DEF IsType, CType
<1>4. IsType(f) /\ f.bits = b /\ f.unsigned = FALSE
  BY <1>2 DEF IsType, CType
<1> HIDE DEF t, f
<1>5. t.unsigned => (IsOfType(v, t) <=> 0 <= v /\ v < Pow(t.bits))
  BY <1>1, <1>3, TypeBounds
<1>6. /\ Pow(f.bits - 1) \in Nat \ {0}
      /\ ~f.unsigned => (IsOfType(v, f) <=> -Pow(f.bits - 1) <= v /\ v < Pow(f.bits - 1))
  BY <1>1, <1>4, TypeBounds
<1>7. b - 0 = b
  BY <1>2
<1> HIDE DEF v
<1>12. IsOfType(v, t) <=> v < P
  <2>1. IsOfType(v, t) <=> 0 <= v /\ v < P
    BY <1>3, <1>5
  <2>2. QED
    BY <1>1, <2>1
<1>13. IsOfType(v, f) <=> v < h
  <2>1. h \in Nat /\ (IsOfType(v, f) <=> -h <= v /\ v < h)
    BY <1>4, <1>6
  <2> HIDE DEF h
  <2>2. -h <= v
    BY <1>1, <2>1
  <2>3. QED
    BY <2>1, <2>2
<1>8. (IsOfType(v, CType(b, TRUE)) <=> v < P) /\ (IsOfType(v, CType(b, FALSE)) <=> v < h)
  BY <1>12, <1>13 DEF t, f
<1>9. FitsAt(e, k, TRUE) <=> (~e.decimal \/ e.u) /\ v < P
  BY <1>7 DEF FitsAt, b, v, Pow
<1>10. FitsAt(e, k, FALSE) <=> ~e.u /\ v < h
  BY DEF FitsAt, b, v, Pow
<1>11. QED
  BY <1>8, <1>9, <1>10 DEF b, v, IsLiteral

\* So the types that the standard allows are those that are tried,
LEMMA LiteralTypesAre ==
  ASSUME NEW e, IsLiteral(e)
  PROVE  /\ \A t \in LiteralTypes(e) : \E k \in e.longs + 1 .. 3 :
              \/ t = CType(WidthAt(k), TRUE) /\ FitsAt(e, k, TRUE)
              \/ t = CType(WidthAt(k), FALSE) /\ FitsAt(e, k, FALSE)
         /\ \A k \in e.longs + 1 .. 3 :
              /\ FitsAt(e, k, TRUE) => CType(WidthAt(k), TRUE) \in LiteralTypes(e)
              /\ FitsAt(e, k, FALSE) => CType(WidthAt(k), FALSE) \in LiteralTypes(e)
<1> DEFINE Ks == e.longs + 1 .. 3
           Could(t) == (e.u => t.unsigned) /\ (t.unsigned /\ e.decimal => e.u) /\ IsOfType(e.value, t)
           all == [bits : {WidthAt(k) : k \in Ks}, unsigned : BOOLEAN]
<1>1. LiteralTypes(e) = {t \in all : Could(t)}
  <2> DEFINE some == {CIntBits, CLongBits, CWideBits}
                       \ (CASE e.longs = 0 -> {} [] e.longs = 1 -> {CIntBits} \ {CLongBits}
                            [] e.longs = 2 -> {CIntBits, CLongBits} \ {CWideBits})
  <2>1. LiteralTypes(e) = {t \in [bits : some, unsigned : BOOLEAN] : Could(t)}
    BY DEF LiteralTypes
  <2>2. some = {WidthAt(k) : k \in Ks}
    BY LiteralWidths
  <2> HIDE DEF some, Could
  <2>3. QED
    BY <2>1, <2>2
<1>2. \A b : CType(b, TRUE).unsigned = TRUE /\ CType(b, FALSE).unsigned = FALSE
  BY DEF CType
<1>3. \A k \in Ks : FitsAt(e, k, TRUE) <=> Could(CType(WidthAt(k), TRUE))
  <2> TAKE k \in Ks
  <2>1. FitsAt(e, k, TRUE) <=> (e.decimal => e.u) /\ IsOfType(e.value, CType(WidthAt(k), TRUE))
    BY LiteralFits
  <2>2. QED
    BY <1>2, <2>1
<1>4. \A k \in Ks : FitsAt(e, k, FALSE) <=> Could(CType(WidthAt(k), FALSE))
  <2> TAKE k \in Ks
  <2>1. FitsAt(e, k, FALSE) <=> ~e.u /\ IsOfType(e.value, CType(WidthAt(k), FALSE))
    BY LiteralFits
  <2>2. QED
    BY <1>2, <2>1
<1> HIDE DEF Could
<1>5. ASSUME NEW t \in LiteralTypes(e)
      PROVE  \E k \in Ks : \/ t = CType(WidthAt(k), TRUE) /\ FitsAt(e, k, TRUE)
                           \/ t = CType(WidthAt(k), FALSE) /\ FitsAt(e, k, FALSE)
  <2>1. t \in all /\ Could(t)
    BY <1>1
  <2>2. PICK k \in Ks : t.bits = WidthAt(k)
    BY <2>1
  <2>3. t = CType(WidthAt(k), TRUE) \/ t = CType(WidthAt(k), FALSE)
    BY <2>1, <2>2 DEF CType
  <2>4. CASE t = CType(WidthAt(k), TRUE)
    <3>1. Could(CType(WidthAt(k), TRUE))
      <4>1. CType(WidthAt(k), TRUE) \in LiteralTypes(e)
        BY <2>4
      <4>2. QED
        BY <1>1, <4>1
    <3>2. QED
      BY <1>3, <2>4, <3>1
  <2>5. CASE t = CType(WidthAt(k), FALSE)
    <3>1. Could(CType(WidthAt(k), FALSE))
      <4>1. CType(WidthAt(k), FALSE) \in LiteralTypes(e)
        BY <2>5
      <4>2. QED
        BY <1>1, <4>1
    <3>2. QED
      BY <1>4, <2>5, <3>1
  <2>6. QED
    BY <2>3, <2>4, <2>5
<1>6. ASSUME NEW k \in Ks
      PROVE  CType(WidthAt(k), TRUE) \in all /\ CType(WidthAt(k), FALSE) \in all
  BY DEF CType
<1> HIDE DEF all
<1>7. \A k \in Ks : /\ FitsAt(e, k, TRUE) => CType(WidthAt(k), TRUE) \in LiteralTypes(e)
                    /\ FitsAt(e, k, FALSE) => CType(WidthAt(k), FALSE) \in LiteralTypes(e)
  BY <1>1, <1>3, <1>4, <1>6
<1>8. QED
  BY <1>5, <1>7

\* and a literal is of the first of them.
LEMMA LiteralHolds ==
  ASSUME NEW e, IsLiteral(e)
  PROVE  /\ IsPromoted(TypeOfLiteral(e))
         /\ Holds(LiteralInt(e), TypeOfLiteral(e), IF LiteralTypes(e) = {} THEN {} ELSE {e.value})
<1> DEFINE v == e.value
           Ks == e.longs + 1 .. 3
           types == LiteralTypes(e)
           fitting == FittingOf(e)
           first == CHOOSE k \in fitting : \A j \in fitting : k <= j
           Narrowest(t) == \A s \in types : t.bits < s.bits \/ (t.bits = s.bits /\ (t.unsigned => s.unsigned))
<1>1. v \in Nat /\ v \in Int /\ Ks \subseteq 1 .. 3
  BY DEF IsLiteral
<1>2. LiteralInt(e) = IF fitting = {} THEN CInt(v, CWideBits, TRUE)
                      ELSE CInt(v, WidthAt(first), ~FitsAt(e, first, FALSE))
  BY DEF LiteralInt, FittingOf, FitsAt, WidthAt
<1>3. \A b, u : CType(b, u).bits = b /\ CType(b, u).unsigned = u
  BY DEF CType
<1>4. \A k \in fitting : k \in Ks /\ (FitsAt(e, k, FALSE) \/ FitsAt(e, k, TRUE))
  BY DEF FittingOf
<1>5. \A k \in Ks : FitsAt(e, k, FALSE) \/ FitsAt(e, k, TRUE) => k \in fitting
  BY DEF FittingOf
<1>6. \A k \in Ks : IsPromoted(CType(WidthAt(k), TRUE)) /\ IsPromoted(CType(WidthAt(k), FALSE))
  <2> TAKE k \in Ks
  <2>1. WidthAt(k) \in 1 .. CWideBits /\ CIntBits <= WidthAt(k)
    BY <1>1, WidthsGrow
  <2>2. QED
    BY <2>1 DEF IsPromoted, IsType, CType
<1>7. fitting = {} <=> types = {}
  BY <1>4, <1>5, LiteralTypesAre
<1> HIDE DEF v, Ks, types, fitting
<1>8. CASE fitting = {}
  <2> DEFINE t == CType(CWideBits, TRUE)
  <2>1. IsPromoted(t)
    BY TypesUsed DEF IsPromoted, IsType, CType
  <2>2. TypeOfLiteral(e) = t
    BY <1>7, <1>8 DEF TypeOfLiteral, types
  <2>3. LiteralInt(e) = CInt(v, t.bits, t.unsigned)
    BY <1>2, <1>3, <1>8
  <2> HIDE DEF t
  <2>4. Holds(LiteralInt(e), t, Exactly(v, t))
    BY <1>1, <2>1, <2>3, ExactHolds
  <2>5. Holds(LiteralInt(e), t, {})
    BY <2>4, FewerHold
  <2>6. QED
    BY <1>7, <1>8, <2>1, <2>2, <2>5 DEF types
<1>9. CASE fitting # {}
  <2>1. first \in fitting /\ \A j \in fitting : first <= j
    <3>1. fitting \subseteq 1 .. 3
      BY <1>1, <1>4
    <3>2. \E k \in fitting : \A j \in fitting : k <= j
      <4>1. CASE 1 \in fitting
        BY <3>1, <4>1
      <4>2. CASE 1 \notin fitting /\ 2 \in fitting
        BY <3>1, <4>2
      <4>3. CASE 1 \notin fitting /\ 2 \notin fitting
        <5>1. PICK k : k \in fitting
          BY <1>9
        <5>2. \A j \in fitting : j = 3
          BY <3>1, <4>3
        <5>3. QED
          BY <5>1, <5>2
      <4>4. QED
        BY <4>1, <4>2, <4>3
    <3>3. QED
      BY <3>2
  <2>2. first \in Ks
    BY <1>4, <2>1
  <2> DEFINE W == WidthAt(first)
             t == IF FitsAt(e, first, FALSE) THEN CType(W, FALSE) ELSE CType(W, TRUE)
  <2>3. LiteralInt(e) = CInt(v, W, ~FitsAt(e, first, FALSE))
    BY <1>2, <1>9
  <2> HIDE DEF first
  <2>4. W \in Nat
    BY <1>1, <2>2, WidthsGrow
  <2>5. t.bits = W /\ t.unsigned \in BOOLEAN /\ IsPromoted(t) /\ (t.unsigned <=> ~FitsAt(e, first, FALSE))
    BY <1>3, <1>6, <2>2
  <2>6. t \in types
    BY <1>4, <2>1, <2>2, LiteralTypesAre DEF types, Ks
  <2>7. LiteralInt(e) = CInt(v, t.bits, t.unsigned)
    <3>1. CASE FitsAt(e, first, FALSE)
      <4>1. t.unsigned = FALSE
        BY <1>3, <3>1
      <4>2. (~FitsAt(e, first, FALSE)) = FALSE
        BY <3>1
      <4>3. QED
        BY <2>3, <2>5, <4>1, <4>2
    <3>2. CASE ~FitsAt(e, first, FALSE)
      <4>1. t.unsigned = TRUE
        BY <1>3, <3>2
      <4>2. (~FitsAt(e, first, FALSE)) = TRUE
        BY <3>2
      <4>3. QED
        BY <2>3, <2>5, <4>1, <4>2
    <3>3. QED
      BY <3>1, <3>2
  <2> HIDE DEF t
  <2>8. ASSUME NEW s \in types
        PROVE  t.bits < s.bits \/ (t.bits = s.bits /\ (t.unsigned => s.unsigned))
    <3>1. PICK k \in Ks : \/ s = CType(WidthAt(k), TRUE) /\ FitsAt(e, k, TRUE)
                          \/ s = CType(WidthAt(k), FALSE) /\ FitsAt(e, k, FALSE)
      BY LiteralTypesAre DEF types, Ks
    <3>2. k \in fitting /\ s.bits = WidthAt(k)
      BY <1>3, <1>5, <3>1
    <3>3. W <= WidthAt(k) /\ WidthAt(k) \in Nat
      BY <1>1, <2>1, <2>2, <3>2, WidthsGrow
    <3>4. CASE s.unsigned
      BY <2>4, <2>5, <3>2, <3>3, <3>4
    <3>5. CASE ~s.unsigned /\ W = WidthAt(k)
      <4>1. FitsAt(e, k, FALSE)
        BY <1>3, <3>1, <3>5
      <4>2. FitsAt(e, first, FALSE)
        BY <3>5, <4>1 DEF FitsAt
      <4>3. QED
        BY <2>5, <3>2, <3>5, <4>2
    <3>6. CASE W # WidthAt(k)
      BY <2>4, <2>5, <3>2, <3>3, <3>6
    <3>7. QED
      BY <3>4, <3>5, <3>6
  <2>9. ASSUME NEW s \in types, Narrowest(s) PROVE s = t
    <3>1. PICK k \in Ks : s = CType(WidthAt(k), TRUE) \/ s = CType(WidthAt(k), FALSE)
      BY LiteralTypesAre DEF types, Ks
    <3>2. s.bits \in Nat /\ s.unsigned \in BOOLEAN /\ s = CType(s.bits, s.unsigned)
      <4>1. WidthAt(k) \in Nat
        BY <1>1, WidthsGrow
      <4>2. QED
        BY <1>3, <3>1, <4>1
    <3>3. t = CType(t.bits, t.unsigned)
      BY <1>3 DEF t
    <3>4. t.bits < s.bits \/ (t.bits = s.bits /\ (t.unsigned => s.unsigned))
      BY <2>8
    <3>5. s.bits < t.bits \/ (s.bits = t.bits /\ (s.unsigned => t.unsigned))
      BY <2>6, <2>9
    <3>6. s.bits = t.bits /\ s.unsigned = t.unsigned
      BY <2>4, <2>5, <3>2, <3>4, <3>5
    <3>7. QED
      BY <3>2, <3>3, <3>6
  <2>10. Narrowest(t)
    BY <2>8
  <2>11. TypeOfLiteral(e) = CHOOSE s \in types : Narrowest(s)
    BY <1>7, <1>9 DEF TypeOfLiteral, types
  <2> HIDE DEF Narrowest
  <2>12. TypeOfLiteral(e) = t
    BY <2>6, <2>9, <2>10, <2>11
  <2>13. IsOfType(v, t)
    BY <2>6 DEF types, LiteralTypes, v
  <2>14. Holds(LiteralInt(e), t, {v})
    BY <1>1, <2>5, <2>7, <2>13, SameHolds
  <2>15. QED
    BY <1>7, <1>9, <2>5, <2>12, <2>14 DEF types, v
<1>10. QED
  BY <1>8, <1>9

-----------------------------------------------------------------------------
(* Expressions                                                              *)

\* An expression is refused with a reason, or it holds; a sound one does in a
\* branch that is taken or not.
Fails(e, dead) == Const[e][dead] = Unsupported /\ ~dead /\ (CValues[e] = {} \/ BothNeeded[e])
Fares(e, dead) == Fails(e, dead) \/ Holds(Const[e][dead], TypeOf[e], CValues[e])
Sound(e) == IsPromoted(TypeOf[e]) /\ \A dead \in BOOLEAN : Fares(e, dead)

\* const of an expression, in a branch that is taken or not.
LEMMA ConstIs ==
  ASSUME NEW e \in CExprs, NEW dead \in BOOLEAN
  PROVE  Const[e][dead] = ConstBy(Const, e, dead)
<1>1. Const[e] = [d \in BOOLEAN |-> ConstBy(Const, e, d)]
  BY ConstUnfolds
<1>2. QED
  BY <1>1

\* A part is refused, or it has a value of its type.
LEMMA SoundPart ==
  ASSUME NEW p, Sound(p), NEW dead \in BOOLEAN
  PROVE  \/ Fails(p, dead)
         \/ \E w \in Int : /\ IsOfType(w, TypeOf[p]) /\ Const[p][dead] = Made(w, TypeOf[p])
                           /\ Const[p][dead] # Unsupported
                           /\ Const[p][dead].value = w
                           /\ \A v \in CValues[p] : v = w
<1>1. IsPromoted(TypeOf[p]) /\ (Fails(p, dead) \/ Holds(Const[p][dead], TypeOf[p], CValues[p]))
  BY DEF Sound, Fares
<1>2. CASE Holds(Const[p][dead], TypeOf[p], CValues[p])
  <2>1. PICK w \in Int : /\ IsOfType(w, TypeOf[p]) /\ Const[p][dead] = Made(w, TypeOf[p])
                         /\ \A v \in CValues[p] : v = w
    BY <1>2 DEF Holds
  <2>2. Made(w, TypeOf[p]).value = w /\ Made(w, TypeOf[p]) # Unsupported
    BY <1>1, <2>1, MadeValue
  <2>3. QED
    BY <2>1, <2>2
<1>3. QED
  BY <1>1, <1>2

\* In a branch that is not taken nothing is refused.
LEMMA DeadPart ==
  ASSUME NEW p, Sound(p)
  PROVE  \E w \in Int : IsOfType(w, TypeOf[p]) /\ Const[p][TRUE] = Made(w, TypeOf[p]) /\ Const[p][TRUE] # Unsupported
<1>1. ~Fails(p, TRUE)
  BY DEF Fails
<1>2. TRUE \in BOOLEAN
  OBVIOUS
<1>3. QED
  BY <1>1, <1>2, SoundPart

\* What a part needs the expression needs.
LEMMA NeededByPart ==
  ASSUME NEW e \in CExprs, NEW p \in SubExprs(e), BothNeeded[p]
  PROVE  BothNeeded[e]
<1>1. BothNeeded[e] = BothNeededBy(BothNeeded, e)
  BY NeededUnfolds
<1>2. BothNeededBy(BothNeeded, e)
  BY ExprKinds DEF BothNeededBy, SubExprs
<1>3. QED
  BY <1>1, <1>2

\* Each kind of expression is sound if its parts are: numbers,
LEMMA NumberSound ==
  ASSUME NEW e \in CExprs, e.kind = "number"
  PROVE  Sound(e)
<1> DEFINE t == CType(e.bits, e.unsigned)
<1>1. e.bits \in CIntBits .. CWideBits /\ e.unsigned \in BOOLEAN /\ e.value \in Int /\ IsOfType(e.value, t)
  BY ExprKinds DEF IsExpr
<1>2. t.bits = e.bits /\ t.unsigned = e.unsigned
  BY DEF CType
<1>3. IsPromoted(t)
  BY <1>1, TypesUsed DEF IsPromoted, IsType, CType
<1>4. TypeOf[e] = t /\ CValues[e] = {e.value}
  BY TypeUnfolds, ValuesUnfold DEF TypeBy, ValuesBy
<1>5. ASSUME NEW dead \in BOOLEAN PROVE Const[e][dead] = CInt(e.value, t.bits, t.unsigned)
  BY <1>2, ConstIs DEF ConstBy
<1> HIDE DEF t
<1>6. Holds(CInt(e.value, t.bits, t.unsigned), t, {e.value})
  BY <1>1, <1>3, SameHolds
<1>7. QED
  BY <1>3, <1>4, <1>5, <1>6 DEF Sound, Fares

\* literals,
LEMMA LiteralSound ==
  ASSUME NEW e \in CExprs, e.kind = "literal"
  PROVE  Sound(e)
<1>1. IsLiteral(e)
  BY ExprKinds DEF IsExpr, IsLiteral
<1>2. TypeOf[e] = TypeOfLiteral(e)
  <2>1. TypeBy(TypeOf, e) = TypeOfLiteral(e)
    BY DEF TypeBy, TypeOfLiteral
  <2>2. QED
    BY <2>1, TypeUnfolds
<1>3. CValues[e] = IF LiteralTypes(e) = {} THEN {} ELSE {e.value}
  BY ValuesUnfold DEF ValuesBy
<1>4. ASSUME NEW dead \in BOOLEAN PROVE Const[e][dead] = LiteralInt(e)
  BY ConstIs DEF ConstBy
<1>5. QED
  BY <1>1, <1>2, <1>3, <1>4, LiteralHolds DEF Sound, Fares

\* What is refused because a part is.
LEMMA FailsWithPart ==
  ASSUME NEW e \in CExprs, NEW p \in SubExprs(e), NEW dead \in BOOLEAN, Fails(p, dead),
         Const[e][dead] = Unsupported, CValues[p] = {} => CValues[e] = {}
  PROVE  Fails(e, dead)
BY NeededByPart DEF Fails

\* unary operators,
LEMMA UnarySound ==
  ASSUME NEW e \in CExprs, e.kind = "unary", Sound(e.x)
  PROVE  Sound(e)
<1> DEFINE t == UnaryType(e.op, TypeOf[e.x])
<1>1. e.op \in Signs /\ e.x \in SubExprs(e) /\ IsPromoted(TypeOf[e.x])
  BY ExprKinds DEF IsExpr, Signs, SubExprs, Sound
<1>2. TypeOf[e] = t
  BY TypeUnfolds DEF TypeBy, UnaryType, IntType
<1>3. IsPromoted(t)
  BY <1>1, IntIsPromoted DEF UnaryType
<1>4. CValues[e] = UNION {UnaryValues(e.op, v, t) : v \in CValues[e.x]}
  <2>1. ValuesBy(CValues, e) = UNION {UnaryValues(e.op, v, TypeOf[e]) : v \in CValues[e.x]}
    BY DEF ValuesBy
  <2> HIDE DEF t
  <2>2. QED
    BY <1>2, <2>1, ValuesUnfold
<1> HIDE DEF t
<1>5. ASSUME NEW dead \in BOOLEAN PROVE Fares(e, dead)
  <2>1. Const[e][dead] = IF Const[e.x][dead] = Unsupported THEN Const[e.x][dead]
                         ELSE UnaryInt(e.op, Const[e.x][dead])
    BY ConstIs DEF ConstBy
  <2>2. CASE Fails(e.x, dead)
    <3>1. Const[e][dead] = Unsupported
      BY <2>1, <2>2 DEF Fails
    <3>2. QED
      BY <1>1, <1>4, <2>2, <3>1, FailsWithPart DEF Fares
  <2>3. CASE ~Fails(e.x, dead)
    <3>1. PICK w \in Int : /\ IsOfType(w, TypeOf[e.x]) /\ Const[e.x][dead] = Made(w, TypeOf[e.x])
                           /\ Const[e.x][dead] # Unsupported /\ \A v \in CValues[e.x] : v = w
      BY <2>3, SoundPart
    <3>2. Const[e][dead] = UnaryInt(e.op, Made(w, TypeOf[e.x]))
      BY <2>1, <3>1
    <3>3. Holds(Const[e][dead], t, UnaryValues(e.op, w, t))
      BY <1>1, <3>1, <3>2, UnaryHolds DEF t
    <3>4. CValues[e] \subseteq UnaryValues(e.op, w, t)
      BY <1>4, <3>1
    <3>5. QED
      BY <1>2, <3>3, <3>4, FewerHold DEF Fares
  <2>4. QED
    BY <2>2, <2>3
<1>6. QED
  BY <1>2, <1>3, <1>5 DEF Sound

\* casts,
LEMMA CastSound ==
  ASSUME NEW e \in CExprs, e.kind = "cast", Sound(e.x)
  PROVE  Sound(e)
<1> DEFINE t == CastType(e.bits, e.unsigned)
           r == CType(e.bits, e.unsigned)
<1>1. e.bits \in 1 .. CWideBits /\ e.unsigned \in BOOLEAN /\ e.x \in SubExprs(e) /\ IsPromoted(TypeOf[e.x])
  BY ExprKinds DEF IsExpr, SubExprs, Sound
<1>2. TypeOf[e] = t
  BY TypeUnfolds DEF TypeBy, CastType, IntType
<1>3. IsPromoted(t)
  <2>1. CASE e.bits < CIntBits
    BY <2>1, IntIsPromoted DEF CastType
  <2>2. CASE ~(e.bits < CIntBits)
    <3>1. t = r
      BY <2>2 DEF CastType
    <3>2. CIntBits <= e.bits
      BY <1>1, <2>2, TypesUsed
    <3>3. QED
      BY <1>1, <3>1, <3>2 DEF IsPromoted, IsType, CType
  <2>3. QED
    BY <2>1, <2>2
<1>4. CValues[e] = {Converted(v, r) : v \in CValues[e.x]}
  BY ValuesUnfold DEF ValuesBy
<1> HIDE DEF t, r
<1>5. ASSUME NEW dead \in BOOLEAN PROVE Fares(e, dead)
  <2>1. Const[e][dead] = IF Const[e.x][dead] = Unsupported THEN Const[e.x][dead]
                         ELSE CastInt(e.bits, e.unsigned, Const[e.x][dead])
    BY ConstIs DEF ConstBy
  <2>2. CASE Fails(e.x, dead)
    <3>1. Const[e][dead] = Unsupported
      BY <2>1, <2>2 DEF Fails
    <3>2. QED
      BY <1>1, <1>4, <2>2, <3>1, FailsWithPart DEF Fares
  <2>3. CASE ~Fails(e.x, dead)
    <3>1. PICK w \in Int : /\ IsOfType(w, TypeOf[e.x]) /\ Const[e.x][dead] = Made(w, TypeOf[e.x])
                           /\ Const[e.x][dead] # Unsupported /\ \A v \in CValues[e.x] : v = w
      BY <2>3, SoundPart
    <3>2. Const[e][dead] = CastInt(e.bits, e.unsigned, Made(w, TypeOf[e.x]))
      BY <2>1, <3>1
    <3>3. Holds(Const[e][dead], t, {Converted(w, r)})
      BY <1>1, <3>1, <3>2, CastHolds DEF t, r
    <3>4. CValues[e] \subseteq {Converted(w, r)}
      BY <1>4, <3>1
    <3>5. QED
      BY <1>2, <3>3, <3>4, FewerHold DEF Fares
  <2>4. QED
    BY <2>2, <2>3
<1>6. QED
  BY <1>2, <1>3, <1>5 DEF Sound

\* casts to _Bool,
LEMMA BoolSound ==
  ASSUME NEW e \in CExprs, e.kind = "bool", Sound(e.x)
  PROVE  Sound(e)
<1>1. e.x \in SubExprs(e) /\ IsPromoted(TypeOf[e.x])
  BY DEF SubExprs, Sound
<1>2. TypeOf[e] = IntType
  BY TypeUnfolds DEF TypeBy, IntType
<1>3. CValues[e] = UNION {Truth(v # 0) : v \in CValues[e.x]}
  BY ValuesUnfold DEF ValuesBy
<1>4. ASSUME NEW dead \in BOOLEAN PROVE Fares(e, dead)
  <2>1. Const[e][dead] = IF Const[e.x][dead] = Unsupported THEN Const[e.x][dead]
                         ELSE CBool(Const[e.x][dead].value # 0)
    BY ConstIs DEF ConstBy
  <2>2. CASE Fails(e.x, dead)
    <3>1. Const[e][dead] = Unsupported
      BY <2>1, <2>2 DEF Fails
    <3>2. QED
      BY <1>1, <1>3, <2>2, <3>1, FailsWithPart DEF Fares
  <2>3. CASE ~Fails(e.x, dead)
    <3>1. PICK w \in Int : /\ Const[e.x][dead] # Unsupported /\ Const[e.x][dead].value = w
                           /\ \A v \in CValues[e.x] : v = w
      BY <2>3, SoundPart
    <3> DEFINE so == w # 0
    <3>2. Const[e][dead] = CBool(so)
      BY <2>1, <3>1
    <3>3. CValues[e] \subseteq Truth(so)
      BY <1>3, <3>1
    <3>4. so \in BOOLEAN
      OBVIOUS
    <3> HIDE DEF so
    <3>5. Holds(CBool(so), IntType, Truth(so))
      BY <3>4, TruthHolds
    <3>6. Holds(CBool(so), IntType, CValues[e])
      BY <3>3, <3>5, FewerHold
    <3>7. QED
      BY <1>2, <3>2, <3>6 DEF Fares
  <2>4. QED
    BY <2>2, <2>3
<1>5. QED
  BY <1>2, <1>4, IntIsPromoted DEF Sound

\* The order does not matter.
LEMMA WiderEither ==
  ASSUME NEW s, IsPromoted(s), NEW t, IsPromoted(t)
  PROVE  Wider(s, t) = Wider(t, s)
<1>1. s.bits \in Nat /\ t.bits \in Nat /\ s.unsigned \in BOOLEAN /\ t.unsigned \in BOOLEAN
  BY TypesUsed DEF IsPromoted, IsType
<1>2. CASE s.bits = t.bits
  <2>1. (s.unsigned \/ t.unsigned) = (t.unsigned \/ s.unsigned)
    BY <1>1
  <2>2. Wider(s, t) = CType(s.bits, s.unsigned \/ t.unsigned) /\ Wider(t, s) = CType(s.bits, t.unsigned \/ s.unsigned)
    BY <1>2 DEF Wider
  <2>3. QED
    BY <2>1, <2>2
<1>3. CASE s.bits > t.bits
  BY <1>1, <1>3 DEF Wider
<1>4. CASE t.bits > s.bits
  BY <1>1, <1>4 DEF Wider
<1>5. QED
  BY <1>1, <1>2, <1>3, <1>4

\* conditionals,
LEMMA TernarySound ==
  ASSUME NEW e \in CExprs, e.kind = "ternary", Sound(e.c), Sound(e.x), Sound(e.y)
  PROVE  Sound(e)
<1> DEFINE t == Wider(TypeOf[e.x], TypeOf[e.y])
<1>1. SubExprs(e) = {e.c, e.x, e.y}
  BY DEF SubExprs
<1>2. IsPromoted(TypeOf[e.x]) /\ IsPromoted(TypeOf[e.y])
  BY DEF Sound
<1>3. TypeOf[e] = t
  BY TypeUnfolds DEF TypeBy
<1>4. IsPromoted(t) /\ t = Wider(TypeOf[e.y], TypeOf[e.x])
  BY <1>2, CommonIsWider, WiderEither
<1>5. CValues[e] = UNION {{Converted(v, t) : v \in CValues[IF c # 0 THEN e.x ELSE e.y]} : c \in CValues[e.c]}
  <2>1. ValuesBy(CValues, e) = UNION {{Converted(v, TypeOf[e]) : v \in CValues[IF c # 0 THEN e.x ELSE e.y]} : c \in CValues[e.c]}
    BY DEF ValuesBy
  <2> HIDE DEF t
  <2>2. QED
    BY <1>3, <2>1, ValuesUnfold
<1>6. ASSUME NEW dead \in BOOLEAN PROVE Fares(e, dead)
  <2> DEFINE c == Const[e.c][dead]
             one == IF c.value # 0 THEN e.x ELSE e.y
             two == IF c.value # 0 THEN e.y ELSE e.x
             chosen == Const[one][dead]
             other == Const[two][TRUE]
             common == Common(chosen, other)
  <2>1. Const[e][dead] = IF c = Unsupported \/ Unsupported \in {chosen, other} THEN Unsupported
                         ELSE CInt(chosen.value, common.bits, common.unsigned)
    <3>1. Const[e][dead] = ConstBy(Const, e, dead)
      BY ConstIs
    <3>2. ConstBy(Const, e, dead) = IF c = Unsupported \/ Unsupported \in {chosen, other} THEN Unsupported
                                    ELSE CInt(chosen.value, common.bits, common.unsigned)
      BY DEF ConstBy, NotTaken
    <3>3. QED
      BY <3>1, <3>2
  <2>2. Sound(one) /\ Sound(two) /\ one \in SubExprs(e) /\ e.c \in SubExprs(e)
    BY <1>1
  <2>3. t = Wider(TypeOf[one], TypeOf[two]) /\ IsPromoted(TypeOf[one]) /\ IsPromoted(TypeOf[two])
    BY <1>2, <1>4
  <2> HIDE DEF t, common
  <2>4. CASE Fails(e.c, dead)
    <3>1. Const[e][dead] = Unsupported
      BY <2>1, <2>4 DEF Fails
    <3>2. CValues[e.c] = {} => CValues[e] = {}
      BY <1>5
    <3>3. QED
      BY <2>2, <2>4, <3>1, <3>2, FailsWithPart DEF Fares
  <2>5. CASE ~Fails(e.c, dead)
    <3>1. PICK w \in Int : c # Unsupported /\ c.value = w /\ \A v \in CValues[e.c] : v = w
      BY <2>5, SoundPart
    <3>2. CValues[e] \subseteq {Converted(v, t) : v \in CValues[one]}
      <4>1. \A v \in CValues[e.c] : (IF v # 0 THEN e.x ELSE e.y) = one
        BY <3>1
      <4> HIDE DEF one
      <4>2. QED
        BY <1>5, <4>1
    <3> HIDE DEF c, one, two
    <3>3. CASE Fails(one, dead)
      <4>1. Const[e][dead] = Unsupported
        BY <2>1, <3>3 DEF Fails
      <4>2. CValues[one] = {} => CValues[e] = {}
        BY <3>2
      <4>3. QED
        BY <2>2, <3>3, <4>1, <4>2, FailsWithPart DEF Fares
    <3>4. CASE ~Fails(one, dead)
      <4>1. PICK v \in Int : /\ IsOfType(v, TypeOf[one]) /\ chosen = Made(v, TypeOf[one])
                             /\ chosen # Unsupported /\ chosen.value = v
                             /\ \A z \in CValues[one] : z = v
        BY <2>2, <3>4, SoundPart
      <4>2. PICK u \in Int : /\ IsOfType(u, TypeOf[two]) /\ other = Made(u, TypeOf[two])
                             /\ other # Unsupported
        BY <2>2, DeadPart
      <4>3. common = t
        BY <2>3, <4>1, <4>2, CommonIsWider DEF common
      <4>4. Const[e][dead] = CInt(v, t.bits, t.unsigned)
        BY <2>1, <3>1, <4>1, <4>2, <4>3
      <4>5. Holds(Const[e][dead], t, {Converted(v, t)})
        BY <1>4, <4>4, ConvertedHolds
      <4>6. CValues[e] \subseteq {Converted(v, t)}
        BY <3>2, <4>1
      <4>7. QED
        BY <1>3, <4>5, <4>6, FewerHold DEF Fares
    <3>5. QED
      BY <3>3, <3>4
  <2>6. QED
    BY <2>4, <2>5
<1>7. QED
  BY <1>3, <1>4, <1>6 DEF Sound

\* What a binary operator makes of operands that hold.
LEMMA BinaryFares ==
  ASSUME NEW e \in CExprs, e.kind = "binary", Sound(e.x), Sound(e.y), NEW dead \in BOOLEAN,
         NEW x \in Int, IsOfType(x, TypeOf[e.x]), NEW y \in Int, IsOfType(y, TypeOf[e.y]),
         \A v \in CValues[e.x] : v = x, \A w \in CValues[e.y] : w = y,
         Const[e][dead] = BinaryInt(e.op, Made(x, TypeOf[e.x]), Made(y, TypeOf[e.y]), dead)
  PROVE  Fares(e, dead)
<1> DEFINE s == TypeOf[e.x]
           r == TypeOf[e.y]
           t == Wider(s, r)
<1>1. IsPromoted(s) /\ IsPromoted(r)
  BY DEF Sound
<1>2. e.op \in Logical \cup Shifts \cup Comparisons \cup Arithmetic
  BY ExprKinds DEF IsExpr
<1>3. Made(x, s).value = x /\ Made(y, r).value = y
  BY <1>1, MadeValue
<1>4. CASE e.op = "&&"
  <2>1. TypeOf[e] = IntType
    BY <1>4, TypeUnfolds DEF TypeBy, Logical, IntType
  <2>2. CValues[e] = AndValues(CValues[e.x], CValues[e.y])
    <3>1. ValuesBy(CValues, e) = AndValues(CValues[e.x], CValues[e.y])
      BY <1>4 DEF ValuesBy, AndValues, Shifts
    <3>2. QED
      BY <3>1, ValuesUnfold
  <2>3. Const[e][dead] = CBool(x # 0 /\ y # 0)
    <3> DEFINE a == Made(x, s)
               b == Made(y, r)
    <3>1. a.value = x /\ b.value = y /\ Const[e][dead] = BinaryInt(e.op, a, b, dead)
      BY <1>3
    <3> HIDE DEF a, b
    <3>2. BinaryInt(e.op, a, b, dead) = CBool(a.value # 0 /\ b.value # 0)
      BY <1>4 DEF BinaryInt, Shifts
    <3>3. QED
      BY <3>1, <3>2
  <2>4. Holds(Const[e][dead], IntType, CValues[e])
    BY <2>2, <2>3, LogicalHolds
  <2>5. QED
    BY <2>1, <2>4 DEF Fares
<1>5. CASE e.op = "||"
  <2>1. TypeOf[e] = IntType
    BY <1>5, TypeUnfolds DEF TypeBy, Logical, IntType
  <2>2. CValues[e] = OrValues(CValues[e.x], CValues[e.y])
    <3>1. ValuesBy(CValues, e) = OrValues(CValues[e.x], CValues[e.y])
      BY <1>5 DEF ValuesBy, OrValues, Shifts
    <3>2. QED
      BY <3>1, ValuesUnfold
  <2>3. Const[e][dead] = CBool(x # 0 \/ y # 0)
    <3> DEFINE a == Made(x, s)
               b == Made(y, r)
    <3>1. a.value = x /\ b.value = y /\ Const[e][dead] = BinaryInt(e.op, a, b, dead)
      BY <1>3
    <3> HIDE DEF a, b
    <3>2. BinaryInt(e.op, a, b, dead) = CBool(a.value # 0 \/ b.value # 0)
      BY <1>5 DEF BinaryInt, Shifts
    <3>3. QED
      BY <3>1, <3>2
  <2>4. Holds(Const[e][dead], IntType, CValues[e])
    <3>1. Holds(CBool(x # 0 \/ y # 0), IntType, OrValues(CValues[e.x], CValues[e.y]))
      BY LogicalHolds
    <3>2. QED
      BY <2>2, <2>3, <3>1
  <2>5. QED
    BY <2>1, <2>4 DEF Fares
<1>6. CASE e.op \in Shifts
  <2>1. e.op # "&&" /\ e.op # "||" /\ e.op \notin Comparisons \cup Logical
    BY <1>6 DEF Shifts, Comparisons, Logical
  <2>2. TypeOf[e] = s
    BY <1>6, <2>1, TypeUnfolds DEF TypeBy
  <2> DEFINE values == ShiftValues(e.op, x, y, s)
  <2>3. CValues[e] = UNION {UNION {ShiftValues(e.op, v, n, s) : n \in CValues[e.y]} : v \in CValues[e.x]}
    <3>1. ValuesBy(CValues, e) =
            UNION {UNION {ShiftValues(e.op, v, n, TypeOf[e]) : n \in CValues[e.y]} : v \in CValues[e.x]}
      BY <1>6, <2>1 DEF ValuesBy
    <3> HIDE DEF s
    <3>2. QED
      BY <2>2, <3>1, ValuesUnfold
  <2>4. CValues[e] \subseteq values
    BY <2>3
  <2>5. Refuses(Const[e][dead], dead, values) \/ Holds(Const[e][dead], s, values)
    BY <1>1, <1>6, ShiftHolds
  <2> HIDE DEF values, s
  <2>6. CASE Refuses(Const[e][dead], dead, values)
    BY <2>4, <2>6 DEF Refuses, Fares, Fails
  <2>7. CASE Holds(Const[e][dead], s, values)
    BY <2>2, <2>4, <2>7, FewerHold DEF Fares
  <2>8. QED
    BY <2>5, <2>6, <2>7
<1>7. CASE e.op \in Comparisons \cup Arithmetic
  <2> DEFINE values == BinaryValues(e.op, Converted(x, t), Converted(y, t), CommonType(e.op, t))
  <2>1. e.op # "&&" /\ e.op # "||" /\ e.op \notin Shifts /\ e.op \notin Logical
    BY <1>7 DEF Shifts, Comparisons, Arithmetic, Logical
  <2>2. TypeOf[e] = CommonType(e.op, t)
    BY <2>1, TypeUnfolds DEF TypeBy, CommonType, IntType
  <2>3. CValues[e] = UNION {UNION {BinaryValues(e.op, Converted(v, t), Converted(w, t), CommonType(e.op, t))
                                   : w \in CValues[e.y]} : v \in CValues[e.x]}
    <3>1. ValuesBy(CValues, e) =
            UNION {UNION {BinaryValues(e.op, Converted(v, t), Converted(w, t), TypeOf[e])
                          : w \in CValues[e.y]} : v \in CValues[e.x]}
      BY <2>1 DEF ValuesBy
    <3> HIDE DEF t
    <3>2. QED
      BY <2>2, <3>1, ValuesUnfold
  <2>4. CValues[e] \subseteq values
    <3> HIDE DEF t
    <3>1. QED
      BY <2>3
  <2>5. Refuses(Const[e][dead], dead, values) \/ Holds(Const[e][dead], CommonType(e.op, t), values)
    BY <1>1, <1>7, BinaryHolds
  <2> HIDE DEF values, t
  <2>6. CASE Refuses(Const[e][dead], dead, values)
    BY <2>4, <2>6 DEF Refuses, Fares, Fails
  <2>7. CASE Holds(Const[e][dead], CommonType(e.op, t), values)
    BY <2>2, <2>4, <2>7, FewerHold DEF Fares
  <2>8. QED
    BY <2>5, <2>6, <2>7
<1>8. QED
  BY <1>2, <1>4, <1>5, <1>6, <1>7 DEF Logical

\* Binary operators, whether their operands are refused or hold.
LEMMA BinarySound ==
  ASSUME NEW e \in CExprs, e.kind = "binary", Sound(e.x), Sound(e.y)
  PROVE  Sound(e)
<1> DEFINE s == TypeOf[e.x]
           r == TypeOf[e.y]
<1>1. IsPromoted(s) /\ IsPromoted(r) /\ e.x \in SubExprs(e) /\ e.y \in SubExprs(e)
  BY DEF Sound, SubExprs
<1>2. IsPromoted(TypeOf[e])
  <2>1. TypeOf[e] \in {IntType, s, Wider(s, r)}
    BY TypeUnfolds DEF TypeBy, IntType
  <2>2. IsPromoted(Wider(s, r))
    BY <1>1, CommonIsWider
  <2>3. QED
    BY <1>1, <2>1, <2>2, IntIsPromoted
<1>3. CValues[e.x] = {} => CValues[e] = {}
  BY ValuesUnfold DEF ValuesBy
<1>4. e.op \notin Logical /\ CValues[e.y] = {} => CValues[e] = {}
  <2> HAVE e.op \notin Logical /\ CValues[e.y] = {}
  <2>1. e.op # "&&" /\ e.op # "||"
    BY DEF Logical
  <2>2. CASE e.op \in Shifts
    <3>1. ValuesBy(CValues, e) =
            UNION {UNION {ShiftValues(e.op, v, n, TypeOf[e]) : n \in CValues[e.y]} : v \in CValues[e.x]}
      BY <2>1, <2>2 DEF ValuesBy
    <3>2. QED
      BY <3>1, ValuesUnfold
  <2>3. CASE e.op \notin Shifts
    <3> DEFINE t == Wider(TypeOf[e.x], TypeOf[e.y])
    <3>1. ValuesBy(CValues, e) =
            UNION {UNION {BinaryValues(e.op, Converted(v, t), Converted(w, t), TypeOf[e])
                          : w \in CValues[e.y]} : v \in CValues[e.x]}
      BY <2>1, <2>3 DEF ValuesBy
    <3> HIDE DEF t
    <3>2. QED
      BY <3>1, ValuesUnfold
  <2>4. QED
    BY <2>2, <2>3
<1>5. e.op \in Logical /\ CValues[e.y] = {} => BothNeeded[e]
  BY NeededUnfolds DEF BothNeededBy
<1>6. ASSUME NEW dead \in BOOLEAN PROVE Fares(e, dead)
  <2> DEFINE a == Const[e.x][dead]
             b == Const[e.y][dead]
  <2>1. Const[e][dead] = IF Unsupported \in {a, b} THEN Unsupported ELSE BinaryInt(e.op, a, b, dead)
    <3>1. ConstBy(Const, e, dead) = IF Unsupported \in {a, b} THEN Unsupported ELSE BinaryInt(e.op, a, b, dead)
      BY DEF ConstBy
    <3>2. QED
      BY <3>1, ConstIs
  <2>2. CASE Fails(e.x, dead)
    <3>1. Const[e][dead] = Unsupported
      BY <2>1, <2>2 DEF Fails
    <3>2. QED
      BY <1>1, <1>3, <2>2, <3>1, FailsWithPart DEF Fares
  <2>3. CASE Fails(e.y, dead)
    <3>1. Const[e][dead] = Unsupported
      BY <2>1, <2>3 DEF Fails
    <3>2. CASE e.op \in Logical /\ CValues[e.y] = {}
      BY <1>5, <2>3, <3>1, <3>2 DEF Fails, Fares
    <3>3. CASE ~(e.op \in Logical /\ CValues[e.y] = {})
      BY <1>1, <1>4, <2>3, <3>1, <3>3, FailsWithPart DEF Fares
    <3>4. QED
      BY <3>2, <3>3
  <2>4. CASE ~Fails(e.x, dead) /\ ~Fails(e.y, dead)
    <3>1. PICK x \in Int : /\ IsOfType(x, s) /\ a = Made(x, s) /\ a # Unsupported
                           /\ \A v \in CValues[e.x] : v = x
      BY <2>4, SoundPart
    <3>2. PICK y \in Int : /\ IsOfType(y, r) /\ b = Made(y, r) /\ b # Unsupported
                           /\ \A w \in CValues[e.y] : w = y
      BY <2>4, SoundPart
    <3>3. Const[e][dead] = BinaryInt(e.op, Made(x, s), Made(y, r), dead)
      BY <2>1, <3>1, <3>2
    <3>4. QED
      BY <3>1, <3>2, <3>3, BinaryFares
  <2>5. QED
    BY <2>2, <2>3, <2>4
<1>7. QED
  BY <1>2, <1>6 DEF Sound

\* An expression whose parts are sound is sound.
LEMMA PartsSound ==
  ASSUME NEW e \in CExprs, \A p \in SubExprs(e) : Sound(p)
  PROVE  Sound(e)
<1>1. CASE e.kind \in {"unary", "cast", "bool"}
  <2>1. Sound(e.x)
    BY <1>1 DEF SubExprs
  <2>2. QED
    BY <1>1, <2>1, UnarySound, CastSound, BoolSound
<1>2. CASE e.kind = "binary"
  <2>1. Sound(e.x) /\ Sound(e.y)
    BY <1>2 DEF SubExprs
  <2>2. QED
    BY <1>2, <2>1, BinarySound
<1>3. CASE e.kind = "ternary"
  <2>1. Sound(e.c) /\ Sound(e.x) /\ Sound(e.y)
    BY <1>3 DEF SubExprs
  <2>2. QED
    BY <1>3, <2>1, TernarySound
<1>4. QED
  BY <1>1, <1>2, <1>3, ExprKinds, NumberSound, LiteralSound

\* By induction over the nesting.
LEMMA AllSound ==
  \A e \in CExprs : Sound(e)
<1> DEFINE S == {n \in Nat : \A e \in NestedTo(n) : Sound(e)}
<1>1. 0 \in S
  BY NestedToLevel
<1>2. ASSUME NEW n \in S PROVE n + 1 \in S
  <2>1. n \in Nat /\ n + 1 \in Nat /\ \A e \in NestedTo(n) : Sound(e)
    OBVIOUS
  <2>2. ASSUME NEW e \in NestedTo(n + 1) PROVE Sound(e)
    <3>1. e \in CExprs /\ \A p \in SubExprs(e) : p \in NestedTo(n)
      BY <2>1, NestedToLevel
    <3>2. QED
      BY <2>1, <3>1, PartsSound
  <2>3. QED
    BY <2>1, <2>2
<1> HIDE DEF S
<1>3. \A n \in Nat : n \in S
  BY <1>1, <1>2, AllNumbers
<1>4. QED
  BY <1>3, NestedToLevel DEF S

EvaluatedOnce == cexpr \in CExprs /\ cvalue \in {NotEvaluated, Const[cexpr][FALSE]}

\* An expression that was evaluated as const does is right.
LEMMA EvaluatedRight ==
  EvaluatedOnce => ConstantsRight
<1> HAVE EvaluatedOnce
<1> DEFINE e == cexpr
           c == Const[e][FALSE]
<1>1. e \in CExprs /\ (cvalue = NotEvaluated \/ cvalue = c)
  BY DEF EvaluatedOnce
<1>2. Sound(e) /\ FALSE \in BOOLEAN
  BY <1>1, AllSound
<1>3. IsPromoted(TypeOf[e])
  BY <1>2 DEF Sound
<1> HIDE DEF e, c
<1>4. ConstantsAgree
  <2> SUFFICES ASSUME cvalue \notin {NotEvaluated, Unsupported}, NEW v \in CValues[e]
      PROVE  cvalue.value = v /\ cvalue.bits = TypeOf[e].bits /\ cvalue.unsigned = TypeOf[e].unsigned
    BY DEF ConstantsAgree, e
  <2>1. cvalue = c /\ ~Fails(e, FALSE)
    BY <1>1 DEF Fails, c
  <2>2. PICK w \in Int : IsOfType(w, TypeOf[e]) /\ c = Made(w, TypeOf[e]) /\ \A x \in CValues[e] : x = w
    BY <1>2, <2>1, SoundPart DEF c
  <2>3. QED
    BY <1>3, <2>1, <2>2, MadeValue
<1>5. ConstantsRefused
  <2> SUFFICES ASSUME cvalue = Unsupported PROVE CValues[e] = {} \/ BothNeeded[e]
    BY DEF ConstantsRefused, e
  <2>1. c = Unsupported
    BY <1>1, CConstAssumption
  <2>2. Fails(e, FALSE)
    BY <1>2, <2>1, SoundPart DEF c
  <2>3. QED
    BY <2>2 DEF Fails
<1>6. QED
  BY <1>4, <1>5 DEF ConstantsRight

\* An integer constant expression of a header, of any operators, nesting and
\* widths of int, long and long long, has the type and the value the C standard
\* gives it, or is refused because it has none or because an operand of && or
\* || that C would not evaluate has none (convert.py: const, unary, binary, cast).
THEOREM ConstantsAreRight ==
  CSpec => []ConstantsRight
<1>1. CInit => EvaluatedOnce
  BY DEF CInit, EvaluatedOnce
<1>2. EvaluatedOnce /\ [EvaluateConst]_cVars => EvaluatedOnce'
  BY DEF EvaluatedOnce, EvaluateConst, cVars
<1>3. QED
  BY <1>1, <1>2, EvaluatedRight, PTL DEF CSpec
=============================================================================
