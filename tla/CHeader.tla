------------------------------ MODULE CHeader -------------------------------
(***************************************************************************)
(* The converter of C headers (cheader/convert.py): declarations in source  *)
(* order to ctypes classes, and which of them are skipped.                  *)
(*                                                                          *)
(* The header is chosen while it is converted: an action is the next thing  *)
(* the text says.  `stack` holds the struct bodies that are open, `exc` the *)
(* Unsupported that is on its way out of them.  A field whose type has no   *)
(* effect (int, a bit field) is no step.                                    *)
(***************************************************************************)
EXTENDS Naturals, Sequences, FiniteSets

CONSTANTS
  Tags,          \* of structs and unions
  EnumTags,
  TypedefNames,
  FuncNames,
  Nameless,      \* a struct inside another, without tag
  MaxDepth,      \* bound: open bodies
  Fine, Own,     \* no exception; an Unsupported without a cause
  Unset

Names == Tags \cup EnumTags \cup TypedefNames \cup FuncNames
\* Of a declaration with a body.
Forms == {"tag", "typedef", "array", "pointer", "object", "function"}

ASSUME HeaderAssumption ==
  /\ Fine # Own /\ Nameless \notin {Fine, Own}
  /\ {Unset, Fine, Own, Nameless} \cap Names = {}
  /\ Unset \notin {Nameless, Fine, Own}
  /\ Tags \cap TypedefNames = {} /\ FuncNames \cap (Tags \cup TypedefNames) = {}
  /\ EnumTags \cap (Tags \cup TypedefNames \cup FuncNames) = {}
  /\ Unset \notin {"int", "wide"}
  /\ Unset \notin [kind : {"plain", "class", "bad"}, of : Names \cup {Nameless, Unset}]
  /\ Unset \notin [form : Forms, name : Names \cup {Unset}, def : Names \cup {Unset, Nameless}]
  /\ MaxDepth \in Nat

\* A class has a tag, or the name of the typedef it is the target of.
Classes == Tags \cup TypedefNames

VARIABLES
  definitions,   \* classes with a body
  completed,     \* classes with fields
  failed,        \* class -> the declaration that is to blame, or Unset
  enums,         \* tag -> its type, or Unset
  failedEnums,   \* tag -> the declaration that is to blame, or Unset
  typedefs,      \* name -> Plain, ClassOf(c), Bad(blamed), or Unset
  ns,            \* the names that are bound
  skipped,       \* the names with a skip diagnostic
  lost,          \* classes whose definition could not be parsed
  ext,           \* the declaration that is converted, or Unset
  stack, exc,
  \* History: what the header says of its enums, which classes use which by
  \* value, in which a field of which enum has another type than that, and
  \* which functions the header declares.
  meant, uses, wrong, functions

headerVars == <<definitions, completed, failed, enums, failedEnums, typedefs, ns,
                skipped, lost, ext, stack, exc, meant, uses, wrong, functions>>
enumVars == <<enums, failedEnums, meant>>
useVars == <<uses, wrong>>

Plain == [kind |-> "plain", of |-> Unset]
ClassOf(c) == [kind |-> "class", of |-> c]
Bad(root) == [kind |-> "bad", of |-> root]

\* A declaration: what it declares, and the definition on its type chain.
Decl(form, name, def) == [form |-> form, name |-> name, def |-> def]
Frame(cls, via) == [cls |-> cls, via |-> via]

HeaderTypeOK ==
  /\ definitions \subseteq Classes /\ completed \subseteq Classes
  /\ failed \in [Classes -> Names \cup {Nameless, Unset}]
  /\ enums \in [EnumTags -> {"int", "wide", Unset}]
  /\ failedEnums \in [EnumTags -> Names \cup {Unset}]
  /\ typedefs \in [TypedefNames -> [kind : {"plain", "class", "bad"}, of : Names \cup {Nameless, Unset}]
                                   \cup {Unset}]
  /\ ns \subseteq Names /\ skipped \subseteq Names /\ lost \subseteq Tags
  /\ ext \in [form : Forms, name : Names \cup {Unset}, def : Names \cup {Unset, Nameless}]
             \cup {Unset}
  /\ stack \in Seq([cls : Classes \cup {Nameless}, via : {"value", "pointer", "tag"}])
  /\ exc \in Names \cup {Nameless, Fine, Own}
  /\ meant \in [EnumTags -> {"int", "wide", Unset}]
  /\ uses \in [Classes -> SUBSET Classes] /\ wrong \in [Classes -> SUBSET EnumTags]
  /\ functions \subseteq FuncNames

HeaderInit ==
  /\ definitions = {} /\ completed = {}
  /\ failed = [c \in Classes |-> Unset]
  /\ enums = [e \in EnumTags |-> Unset] /\ failedEnums = [e \in EnumTags |-> Unset]
  /\ typedefs = [n \in TypedefNames |-> Unset]
  /\ ns = {} /\ skipped = {}
  /\ lost \in SUBSET Tags
  /\ ext = Unset /\ stack = <<>> /\ exc = Fine
  /\ meant = [e \in EnumTags |-> Unset]
  /\ uses = [c \in Classes |-> {}] /\ wrong = [c \in Classes |-> {}]
  /\ functions = {}

-----------------------------------------------------------------------------
(* Exceptions and completeness                                              *)

Idle == ext = Unset /\ stack = <<>> /\ exc = Fine
InBody == stack # <<>> /\ exc = Fine
Top == stack[Len(stack)]
Below == SubSeq(stack, 1, Len(stack) - 1)

\* cause_for: what is to blame for x, when exc is why x fails.
\* Faulty: a failure without a cause has none.
BlameRaw(x) == exc
Blame(x) == IF exc = Own THEN x ELSE exc

\* require_complete: what a use of class c by value raises.
\* Faulty: whatever is not known to have failed may be used.
UnlessFailed(c) == IF failed[c] # Unset THEN failed[c] ELSE Fine
CompletenessOf(c) ==
  IF c \in completed THEN Fine
  ELSE IF failed[c] # Unset THEN failed[c]
  ELSE IF c \in lost THEN c ELSE Own

\* Faulty: an enum that failed is an int.
NeverRaises(e) == Fine
EnumRaises(e) == IF failedEnums[e] # Unset THEN failedEnums[e] ELSE Fine

\* The class that what is in the innermost body becomes a part of.
OwnerIn(s) ==
  LET named == {i \in DOMAIN s : s[i].cls # Nameless}
      owning == {i \in named : \A j \in i + 1 .. Len(s) : s[j].cls = Nameless /\ s[j].via = "value"}
  IN  {s[i].cls : i \in owning}

\* A member of class c, when the exception it raises is Fine.
UseIn(s, c, raises) ==
  LET owners == IF raises = Fine THEN OwnerIn(s) ELSE {} IN
  /\ uses' = [o \in Classes |-> IF o \in owners THEN uses[o] \cup {c} ELSE uses[o]]
  /\ wrong' = [o \in Classes |-> IF o \in owners THEN wrong[o] \cup wrong[c] ELSE wrong[o]]

\* Enums that are defined in text the converter does not get to.
Unread(es) ==
  /\ es \subseteq {e \in EnumTags : meant[e] = Unset}
  /\ meant' = [e \in EnumTags |-> IF e \in es THEN "wide" ELSE meant[e]]

-----------------------------------------------------------------------------
(* Struct bodies                                                            *)

\* aggregate, of a definition: its body is converted, the first time.
\* Faulty: whenever the class has no fields yet.
OpenUnlessComplete(c) == c \notin completed
FirstSight(c) == c \notin definitions
OpenBody(c, via) ==
  /\ Len(stack) < MaxDepth
  /\ c = Nameless \/ FirstSight(c)
  /\ definitions' = definitions \cup ({c} \ {Nameless})
  /\ stack' = Append(stack, Frame(c, via))
  /\ ns' = ns \cup ({c} \cap Tags)

\* redefinition, with a body that is or is not the same.
Redefine(c, same) ==
  /\ c \in definitions /\ exc = Fine
  /\ \A i \in DOMAIN stack : stack[i].cls # c
  /\ IF same THEN UNCHANGED <<failed, skipped>>
     ELSE /\ failed' = [failed EXCEPT ![c] = IF @ = Unset THEN c ELSE @]
          /\ skipped' = skipped \cup {c}
  /\ UNCHANGED <<definitions, completed, enumVars, typedefs, ns, lost, functions, ext, stack, exc,
                 useVars>>

\* struct c; or a pointer to it: the class is created on first sight.
Mention(c) ==
  /\ Idle \/ InBody
  /\ ns' = ns \cup {c}
  /\ UNCHANGED <<definitions, completed, failed, enumVars, typedefs, skipped, lost, functions, ext,
                 stack, exc, useVars>>

FieldOfClass(c) ==
  /\ InBody
  /\ ns' = ns \cup {c}
  /\ exc' = CompletenessOf(c)
  /\ UseIn(stack, c, exc')
  /\ UNCHANGED <<definitions, completed, failed, enumVars, typedefs, skipped, lost, functions, ext,
                 stack>>

FieldOfTypedef(n) ==
  /\ InBody
  /\ typedefs[n] # Unset /\ typedefs[n] # Plain
  /\ LET c == typedefs[n].of IN
     IF typedefs[n].kind = "bad" THEN exc' = c /\ UNCHANGED useVars
     ELSE exc' = CompletenessOf(c) /\ UseIn(stack, c, exc')
  /\ UNCHANGED <<definitions, completed, failed, enumVars, typedefs, ns, skipped, lost, functions,
                 ext, stack>>

\* An enum without a body and without a class is an int.
FieldOfEnum(e) ==
  /\ InBody
  /\ meant[e] # Unset
  /\ exc' = EnumRaises(e)
  /\ wrong' = [c \in Classes |->
                 IF exc' = Fine /\ meant[e] = "wide" /\ enums[e] # "wide" /\ c \in OwnerIn(stack)
                 THEN wrong[c] \cup {e} ELSE wrong[c]]
  /\ UNCHANGED <<definitions, completed, failed, enumVars, typedefs, ns, skipped, lost, functions,
                 ext, stack, uses>>

\* A member that ctypes has nothing for.
FieldUnsupported ==
  /\ InBody
  /\ exc' = Own
  /\ UNCHANGED <<definitions, completed, failed, enumVars, typedefs, ns, skipped, lost, functions,
                 ext, stack, useVars>>

\* via says if the member is of the struct, a pointer to it, or if there
\* is no member.
FieldBody(c, via) ==
  /\ InBody
  /\ c = Nameless => via # "tag"
  /\ OpenBody(c, via)
  /\ UNCHANGED <<completed, failed, enumVars, typedefs, skipped, lost, functions, ext, exc,
                 useVars>>

FieldEnumBody(e, width, ok) ==
  /\ InBody
  /\ meant[e] = Unset
  /\ meant' = [meant EXCEPT ![e] = width]
  /\ IF ok THEN enums' = [enums EXCEPT ![e] = width] /\ ns' = ns \cup {e} /\ exc' = Fine
           ELSE exc' = Own /\ UNCHANGED <<enums, ns>>
  /\ UNCHANGED <<definitions, completed, failed, failedEnums, typedefs, skipped, lost, functions,
                 ext, stack, useVars>>

\* complete, when fields returns: ctypes takes the layout.
CloseBody ==
  /\ InBody
  /\ completed' = completed \cup ({Top.cls} \ {Nameless})
  /\ stack' = Below
  /\ IF Top.cls # Nameless /\ Top.via = "value" THEN UseIn(Below, Top.cls, Fine)
                                               ELSE UNCHANGED useVars
  /\ UNCHANGED <<definitions, failed, enumVars, typedefs, ns, skipped, lost, functions, ext, exc>>

\* Or it rejects it.
CloseRejected ==
  /\ InBody
  /\ IF Top.cls = Nameless THEN UNCHANGED <<failed, skipped>>
     ELSE failed' = [failed EXCEPT ![Top.cls] = Top.cls] /\ skipped' = skipped \cup {Top.cls}
  /\ exc' = IF Top.via = "value" THEN Top.cls ELSE Fine
  /\ stack' = Below
  /\ UNCHANGED <<definitions, completed, enumVars, typedefs, ns, lost, functions, ext, useVars>>

\* complete, when fields raises: the rest of the body is not looked at.  A
\* nameless struct leaves the report to what it is in, unless a pointer to
\* it stops the exception.
\* Faulty: the one that failed last is blamed.
BlameInner(f) == f.cls
Blamed(f) == Blame(f.cls)
LeaveBody(es) ==
  /\ stack # <<>> /\ exc # Fine
  /\ Unread(es)
  /\ IF Top.cls = Nameless
     THEN /\ exc' = IF Top.via = "pointer" THEN Fine ELSE exc
          /\ UNCHANGED <<failed, skipped>>
     ELSE /\ failed' = [failed EXCEPT ![Top.cls] = Blame(Top.cls)]
          /\ skipped' = skipped \cup {Top.cls}
          /\ exc' = IF Top.via = "value" THEN Blamed(Top) ELSE Fine
  /\ stack' = Below
  /\ UNCHANGED <<definitions, completed, enums, failedEnums, typedefs, ns, lost, functions, ext,
                 useVars>>

-----------------------------------------------------------------------------
(* Declarations                                                             *)

\* What a typedef of n without a body does when resolving its target raises.
BindTypedef(n, value, raises) ==
  IF raises = Fine
  THEN /\ typedefs' = [typedefs EXCEPT ![n] = value]
       /\ ns' = ns \cup {n}
       /\ UNCHANGED skipped
  ELSE /\ typedefs' = [typedefs EXCEPT ![n] = Bad(IF raises = Own THEN n ELSE raises)]
       /\ skipped' = skipped \cup {n}
       /\ UNCHANGED ns
\* A failed class makes a typedef of it fail, an incomplete one does not.
FailureOf(c) == IF failed[c] # Unset THEN failed[c] ELSE Fine

UnchangedByName ==
  UNCHANGED <<definitions, completed, failed, enumVars, lost, functions, ext, stack, exc, useVars>>

TypedefOfClass(n, c) ==
  /\ Idle /\ typedefs[n] = Unset
  /\ c \in ns
  /\ BindTypedef(n, ClassOf(c), FailureOf(c))
  /\ UnchangedByName
TypedefOfArray(n, c) ==
  /\ Idle /\ typedefs[n] = Unset
  /\ c \in ns
  /\ BindTypedef(n, Plain, CompletenessOf(c))
  /\ UnchangedByName
TypedefOfTypedef(n, m) ==
  /\ Idle /\ typedefs[n] = Unset /\ typedefs[m] # Unset
  /\ BindTypedef(n, typedefs[m], CASE typedefs[m].kind = "bad" -> typedefs[m].of
                                   [] typedefs[m].kind = "class" -> FailureOf(typedefs[m].of)
                                   [] OTHER -> Fine)
  /\ UnchangedByName
TypedefOfEnum(n, e) ==
  /\ Idle /\ typedefs[n] = Unset /\ meant[e] # Unset
  /\ BindTypedef(n, Plain, EnumRaises(e))
  /\ UnchangedByName
\* Of a type ctypes does not have, or taken out by the parser.
TypedefUnsupported(n) ==
  /\ Idle /\ typedefs[n] = Unset
  /\ BindTypedef(n, Plain, Own)
  /\ UnchangedByName

\* A prototype that takes or returns c by value.
Function(f, c) ==
  /\ Idle /\ f \notin ns \cup skipped
  /\ c \in ns
  /\ IF CompletenessOf(c) = Fine THEN ns' = ns \cup {f} /\ UNCHANGED skipped
                                 ELSE skipped' = skipped \cup {f} /\ UNCHANGED ns
  /\ functions' = functions \cup {f}
  /\ UNCHANGED <<definitions, completed, failed, enumVars, typedefs, lost, ext, stack, exc, useVars>>

\* An enum, on its own or as the target of typedef n.
EnumBody(e, width, ok, n) ==
  /\ Idle /\ meant[e] = Unset
  /\ n # Unset => typedefs[n] = Unset
  /\ meant' = [meant EXCEPT ![e] = width]
  /\ IF ok THEN /\ enums' = [enums EXCEPT ![e] = width]
                /\ ns' = ns \cup {e} \cup ({n} \ {Unset})
                /\ UNCHANGED <<failedEnums, skipped>>
           ELSE /\ failedEnums' = [failedEnums EXCEPT ![e] = e]
                /\ skipped' = skipped \cup {IF n = Unset THEN e ELSE n}
                /\ UNCHANGED <<enums, ns>>
  /\ typedefs' = [m \in TypedefNames |->
                    IF m # n THEN typedefs[m] ELSE IF ok THEN Plain ELSE Bad(n)]
  /\ UNCHANGED <<definitions, completed, failed, lost, functions, ext, stack, exc, useVars>>
\* In text the parser has taken out.
EnumLost(e) ==
  /\ Idle /\ meant[e] = Unset
  /\ meant' = [meant EXCEPT ![e] = "wide"]
  /\ UNCHANGED <<definitions, completed, failed, enums, failedEnums, typedefs, ns, skipped, lost,
                 functions, ext, stack, exc, useVars>>

\* A declaration with a body.  How its type uses the body: the target of a
\* typedef has no completeness to require, that of an array or the result
\* of a function has.  An object binds nothing, its definitions are converted
\* as if they stood alone.
ViaOf(form) == CASE form \in {"array", "function"} -> "value"
                 [] form = "pointer" -> "pointer"
                 [] OTHER -> "tag"
MayDeclare(form, name, c) ==
  CASE form = "tag" -> name = Unset /\ c \in Tags
    [] form = "object" -> name = Unset /\ c = Nameless
    [] form = "function" -> name \in FuncNames \ (ns \cup skipped) /\ c \in Tags
    [] form = "typedef" -> name \in TypedefNames /\ typedefs[name] = Unset /\ c \in Tags \cup {name}
    [] OTHER -> name \in TypedefNames /\ typedefs[name] = Unset /\ c \in Tags \cup {Nameless}

DeclareBody(form, name, c) ==
  /\ Idle
  /\ MayDeclare(form, name, c)
  /\ c \notin lost
  /\ OpenBody(c, ViaOf(form))
  /\ ext' = Decl(form, name, c)
  /\ functions' = functions \cup ({name} \cap FuncNames)
  /\ UNCHANGED <<completed, failed, enumVars, typedefs, skipped, lost, exc, useVars>>

\* An attribute, or a parameter of a function, makes it fail before its
\* body is looked at.
DeclareUnsupported(form, name, c, es) ==
  /\ Idle
  /\ MayDeclare(form, name, c)
  /\ c \notin lost /\ FirstSight(c)
  /\ Unread(es)
  /\ ext' = Decl(form, name, c)
  /\ exc' = Own
  /\ functions' = functions \cup ({name} \cap FuncNames)
  /\ UNCHANGED <<definitions, completed, failed, enums, failedEnums, typedefs, ns, skipped, lost,
                 stack, useVars>>

\* The end of typedef and decl.
EndDeclaration ==
  /\ ext # Unset /\ stack = <<>> /\ exc = Fine
  /\ IF ext.form = "typedef" /\ failed[ext.def] # Unset
     THEN exc' = failed[ext.def] /\ UNCHANGED <<typedefs, ns, ext>>
     ELSE /\ typedefs' = [n \in TypedefNames |->
                            IF n # ext.name THEN typedefs[n]
                            ELSE IF ext.form = "typedef" THEN ClassOf(ext.def) ELSE Plain]
          /\ ns' = ns \cup ({ext.name} \ {Unset})
          /\ ext' = Unset
          /\ UNCHANGED exc
  /\ UNCHANGED <<definitions, completed, failed, enumVars, skipped, lost, functions, stack,
                 useVars>>

\* declaration_failed
\* Faulty: the report names the declaration only.
NamesDeclaration == {ext.name} \ {Unset}
Reported == ({ext.name} \ {Unset}) \cup ({ext.def} \ (completed \cup {Nameless}))
DeclarationFailed ==
  /\ ext # Unset /\ stack = <<>> /\ exc # Fine
  /\ definitions' = definitions \cup ({ext.def} \ {Nameless})
  /\ failed' = [c \in Classes |->
                  IF c = ext.def /\ c \notin completed /\ failed[c] = Unset THEN Blame(c) ELSE failed[c]]
  /\ skipped' = skipped \cup Reported
  /\ typedefs' = [n \in TypedefNames |-> IF n = ext.name THEN Bad(Blame(n)) ELSE typedefs[n]]
  /\ ns' = ns \cup ({ext.def} \cap Tags)
  /\ ext' = Unset /\ exc' = Fine
  /\ UNCHANGED <<completed, enumVars, lost, functions, stack, useVars>>

-----------------------------------------------------------------------------
Body ==
  \/ \E c \in Tags : FieldOfClass(c)
  \/ \E n \in TypedefNames : FieldOfTypedef(n)
  \/ \E e \in EnumTags : FieldOfEnum(e)
  \/ FieldUnsupported
  \/ \E c \in Tags \cup {Nameless}, via \in {"value", "pointer", "tag"} : FieldBody(c, via)
  \/ \E e \in EnumTags, width \in {"int", "wide"}, ok \in BOOLEAN : FieldEnumBody(e, width, ok)
  \/ CloseBody
  \/ CloseRejected
  \/ \E es \in SUBSET EnumTags : LeaveBody(es)

Typedef ==
  \/ \E n \in TypedefNames, c \in Tags : TypedefOfClass(n, c) \/ TypedefOfArray(n, c)
  \/ \E n, m \in TypedefNames : TypedefOfTypedef(n, m)
  \/ \E n \in TypedefNames, e \in EnumTags : TypedefOfEnum(n, e)
  \/ \E n \in TypedefNames : TypedefUnsupported(n)

Declaration ==
  \/ Typedef
  \/ \E f \in FuncNames, c \in Tags : Function(f, c)
  \/ \E e \in EnumTags, width \in {"int", "wide"}, ok \in BOOLEAN, n \in TypedefNames \cup {Unset} :
       EnumBody(e, width, ok, n)
  \/ \E e \in EnumTags : EnumLost(e)
  \/ \E form \in Forms, name \in TypedefNames \cup FuncNames \cup {Unset},
        c \in Classes \cup {Nameless} :
       \/ DeclareBody(form, name, c)
       \/ \E es \in SUBSET EnumTags : DeclareUnsupported(form, name, c, es)
  \/ EndDeclaration
  \/ DeclarationFailed

HeaderNext ==
  \/ \E c \in Tags : Mention(c)
  \/ \E c \in Tags, same \in BOOLEAN : Redefine(c, same)
  \/ Body
  \/ Declaration

HeaderSpec == HeaderInit /\ [][HeaderNext]_headerVars

-----------------------------------------------------------------------------
(* Correctness                                                              *)

\* The class a name is bound to, and whether load exposes it.
ClassOfName(x) ==
  IF x \in Tags THEN {x}
  ELSE IF x \in TypedefNames /\ typedefs[x] # Unset /\ typedefs[x].kind = "class"
       THEN {typedefs[x].of} ELSE {}
Exposed(x) == x \in ns /\ \A c \in ClassOfName(x) : failed[c] = Unset

\* A class has fields only when every class it contains by value had them
\* first: ctypes takes a class without fields for one of size 0.
ByValueComplete == \A c \in completed : uses[c] \subseteq completed

\* What is blamed for a failure is at fault itself: the reason a user reads
\* is the one to do something about.
AtFault(x) ==
  \/ x = Nameless
  \/ x \in Classes /\ failed[x] = x
  \/ x \in lost
  \/ x \in EnumTags /\ failedEnums[x] = x
  \/ x \in TypedefNames /\ typedefs[x] = Bad(x)
BlamesTheRoot ==
  ext = Unset =>
    /\ \A c \in Classes : failed[c] # Unset => AtFault(failed[c])
    /\ \A n \in TypedefNames : typedefs[n] # Unset /\ typedefs[n].kind = "bad" => AtFault(typedefs[n].of)

\* Between declarations, every class that was defined and every typedef and
\* function that was declared is exposed, or has a diagnostic that says why
\* not.
Explained ==
  Idle =>
    /\ \A c \in definitions : c \in skipped \/ (c \in completed /\ failed[c] = Unset)
    /\ \A n \in TypedefNames :
         typedefs[n] # Unset => Exposed(n) \/ n \in skipped \/ ClassOfName(n) \cap skipped # {}
    /\ \A f \in functions : Exposed(f) \/ f \in skipped

\* No class that load exposes has a field of another type than the header
\* gives it.
NeverWrongLayout == \A c \in completed : failed[c] = Unset => wrong[c] = {}

\* Nor has one a field of the wrong type for an enum whose definition was
\* converted or failed at top level: a failure is never an int.
EnumNeverGuessed ==
  \A c \in completed : failed[c] = Unset =>
    \A e \in wrong[c] : enums[e] = Unset /\ failedEnums[e] = Unset

\* What was skipped for lack of a class stays right: one that failed without
\* fields never gets any.
FailedForGood ==
  [][\A c \in Classes : failed[c] # Unset /\ c \notin completed => c \notin completed']_headerVars
=============================================================================
