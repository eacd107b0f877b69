----------------------------- MODULE HeaderText -----------------------------
(***************************************************************************)
(* The text of a header while it is parsed (cheader/rewrite.py's Rewritten   *)
(* and the loop of cheader/parse.py): top level declarations, the braces     *)
(* and attributes recorded at offsets, and the recovery that takes out a     *)
(* declaration and moves what comes after.                                   *)
(*                                                                          *)
(* The text is `decls`: how long each declaration is and where in it its     *)
(* body and attribute are.  Where something really is, is computed from it   *)
(* and compared with what is recorded.                                       *)
(***************************************************************************)
EXTENDS Naturals, Integers, Sequences, SequencesExt, FiniteSets

CONSTANTS
  Lengths,        \* of declarations
  MaxDecls,       \* bound: how many
  Replacements    \* how long a typedef of unknown size may be

ASSUME TextAssumption ==
  /\ \A n \in Lengths : n \in Nat /\ n > 5
  /\ MaxDecls \in Nat
  /\ Replacements \subseteq Nat \ {0}

\* A declaration is a body with a member and an attribute of that member
\* ("field"), of the whole ("decl"), or none: this far from its start.
Shapes == {[len |-> n, attr |-> k] : n \in Lengths, k \in {"field", "decl", "none"}}
Open == 1
Member == 2
Attribute == 3
Close(s) == s.len - 2

VARIABLES
  decls,     \* the text: [shape, len, taken], taken if the parser took it out
  spans,     \* <<start, end>> of each declaration
  braces,    \* [at, inner]: a brace, and the innermost `{` open after it
  attrs      \* [kind, at, body, first, end, of]; of is history

textVars == <<decls, spans, braces, attrs>>

\* Where declaration i starts: behind those before it.
StartOf(d, i) ==
  LET end[k \in 0 .. Len(d)] == IF k = 0 THEN 0 ELSE end[k - 1] + d[k].len
  IN  end[i - 1]
Whole == [i \in DOMAIN decls |-> <<StartOf(decls, i), StartOf(decls, i + 1)>>]

\* What rewrite records.
BracesOf(s, start) ==
  <<[at |-> start + Open, inner |-> start + Open], [at |-> start + Close(s), inner |-> -1]>>
AttrsOf(s, start, i) ==
  IF s.attr = "none" THEN <<>>
  ELSE <<[kind |-> s.attr, at |-> start + Attribute, body |-> start + Open,
          first |-> start + Open + 1, end |-> start + Close(s), of |-> i]>>
TextInit ==
  \E n \in 1 .. MaxDecls :
    /\ decls \in [1 .. n -> {[shape |-> s, len |-> s.len, taken |-> FALSE] : s \in Shapes}]
    /\ spans = Whole
    /\ braces = FlattenSeq([i \in 1 .. n |-> BracesOf(decls[i].shape, StartOf(decls, i))])
    /\ attrs = FlattenSeq([i \in 1 .. n |-> AttrsOf(decls[i].shape, StartOf(decls, i), i)])

\* replace_span: only what lies behind the old end moves.
\* Faulty: the end itself does not count as behind.
MovedIfPast(p, end, delta) == IF p > end THEN p + delta ELSE p
Moved(p, end, delta) == IF p >= end THEN p + delta ELSE p
\* Faulty: the braces stay where they were.
SameBraces(end, delta) == braces
MovedBraces(end, delta) ==
  [b \in DOMAIN braces |-> [at |-> Moved(braces[b].at, end, delta),
                            inner |-> Moved(braces[b].inner, end, delta)]]
ReplaceSpan(i, len) ==
  LET start == spans[i][1]
      end == spans[i][2]
      delta == len - (end - start)
  IN
  /\ decls' = [decls EXCEPT ![i].len = len, ![i].taken = TRUE]
  /\ spans' = [j \in DOMAIN spans |->
                IF j = i THEN <<start, start + len>>
                ELSE IF j > i THEN <<Moved(spans[j][1], end, delta), Moved(spans[j][2], end, delta)>>
                ELSE spans[j]]
  /\ braces' = MovedBraces(end, delta)
  /\ attrs' = [a \in DOMAIN attrs |->
                [attrs[a] EXCEPT !.at = Moved(@, end, delta), !.body = Moved(@, end, delta),
                                 !.first = Moved(@, end, delta), !.end = Moved(@, end, delta)]]

\* parse: a declaration is blanked, a typedef is replaced by one of unknown
\* size; each at most once.
Recover(i) ==
  /\ ~decls[i].taken
  /\ \E len \in Replacements \cup {decls[i].len} : ReplaceSpan(i, len)

TextNext == \E i \in DOMAIN decls : Recover(i)
TextSpec == TextInit /\ [][TextNext]_textVars

-----------------------------------------------------------------------------
(* What the converter asks                                                  *)

\* bisect_right, which presumes that the list is sorted.
Bisect(list, x) ==
  LET search[range \in (0 .. Len(list)) \X (0 .. Len(list))] ==
        LET lo == range[1]
            hi == range[2]
            mid == (lo + hi) \div 2
        IN  IF lo >= hi THEN lo
            ELSE IF x < list[mid + 1] THEN search[<<lo, mid>>] ELSE search[<<mid + 1, hi>>]
  IN  search[<<0, Len(list)>>]

SpanIndex(p) ==
  LET i == Bisect([j \in DOMAIN spans |-> spans[j][1]], p)
  IN  IF i > 0 /\ p < spans[i][2] THEN i ELSE 0
BodyOf(p) ==
  LET i == Bisect([b \in DOMAIN braces |-> braces[b].at], p)
  IN  IF i > 0 THEN braces[i].inner ELSE -1

\* The attributes that apply to the member of declaration i (owners).
MemberAt(i) == StartOf(decls, i) + Member
FieldAttrs(i) ==
  {a \in DOMAIN attrs : /\ attrs[a].kind = "field"
                        /\ attrs[a].body = BodyOf(MemberAt(i))
                        /\ MemberAt(i) \in attrs[a].first .. attrs[a].end - 1}

-----------------------------------------------------------------------------
(* Correctness                                                              *)

Kept == {i \in DOMAIN decls : ~decls[i].taken}
WrittenFor(i) == {a \in DOMAIN attrs : attrs[a].kind = "field" /\ attrs[a].of = i}

\* Positions in the text.
SpansFollow ==
  \A i \in DOMAIN decls : \A p \in Whole[i][1] .. Whole[i][2] - 1 : SpanIndex(p) = i
\* What is recorded of a declaration that was kept.
RecordsFollow ==
  \A i \in Kept :
    LET start == StartOf(decls, i) IN
    /\ \A b \in ToSet(BracesOf(decls[i].shape, start)) : b \in ToSet(braces)
    /\ \A a \in ToSet(AttrsOf(decls[i].shape, start, i)) : a \in ToSet(attrs)

\* However many declarations were taken out and became longer or shorter, a
\* position leads to the declaration it is in, and the braces and attributes
\* of one that was kept are recorded where they now are.
OffsetsFollow == SpansFollow /\ RecordsFollow

\* The attribute of a member of a declaration that was kept applies to it: it
\* says that the member is packed, or how it is aligned.
MembersKeepAttributes == \A i \in Kept : WrittenFor(i) \subseteq FieldAttrs(i)
=============================================================================
