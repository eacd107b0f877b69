----------------------------- MODULE HeaderScan ------------------------------
(***************************************************************************)
(* The scan of a header that takes its attributes out (the _Scanner of       *)
(* cheader/rewrite.py): `packed` and `aligned` become marker fields at the   *)
(* head or the end of a struct body, or are kept beside the member they      *)
(* belong to; any other attribute makes its declaration unsupported.         *)
(*                                                                           *)
(* The text is a sequence of tokens chosen step by step, with balanced       *)
(* braces and parentheses and, to a declaration, at most one `=` and, outside*)
(* parentheses, one struct or enum keyword.  An attribute is known by its    *)
(* number, a brace by how many were opened before.                           *)
(***************************************************************************)
EXTENDS Integers, Sequences, SequencesExt

CONSTANTS MaxAttrs, MaxBraces, MaxBoth, MaxDeclarations   \* bounds on the text

ASSUME ScanAssumption == {MaxAttrs, MaxBraces, MaxBoth, MaxDeclarations} \subseteq Nat

VARIABLES
  stack,        \* open braces: [kind, id, waiting]
  parens,       \* whether a parenthesis is open
  prev,         \* the last token
  prev2,        \* the one before, where it matters: a keyword before a word
  closed,       \* the brace closed last, where it matters: at a `}`
  assigns,      \* an `=` in this declaration
  pending,      \* markers waiting for a `{`
  expect,       \* what must come next, or "" for anything
  span,         \* the number of this top level declaration
  opened,       \* history: braces opened
  scanned,      \* history: the attributes and what became of them
  reported,     \* declarations with an unsupported attribute
  bodies,       \* history: declarations that are function definitions
  ended,        \* the text is over
  mayName       \* of the text: a struct, union or enum keyword may follow

scanVars == <<stack, parens, prev, prev2, closed, assigns, pending, expect, span, opened,
              scanned, reported, bodies, ended, mayName>>

NoBrace == [kind |-> "none", id |-> 0]

ScanInit ==
  /\ stack = <<>> /\ parens = FALSE /\ prev = "semicolon" /\ prev2 = "" /\ closed = NoBrace
  /\ assigns = FALSE /\ pending = {} /\ expect = "" /\ span = 1 /\ opened = 0
  /\ scanned = <<>> /\ reported = {} /\ bodies = {} /\ ended = FALSE
  /\ mayName = TRUE

Innermost == IF stack = <<>> THEN [kind |-> "none", id |-> 0, waiting |-> {}] ELSE Last(stack)
AtTopLevel == stack = <<>> /\ ~parens

\* struct or union, alone or with a tag, is what was just read.
AfterKeyword(keyword) == prev = keyword \/ (prev = "word" /\ prev2 = keyword)

-----------------------------------------------------------------------------
(* What becomes of attributes                                               *)

Becomes(table, some, to, on) ==
  [i \in DOMAIN table |->
     IF i \notin some THEN table[i]
     ELSE IF to = "failed"
     THEN [table[i] EXCEPT !.to = to, !.landed = span, !.since = <<>>, !.parens = FALSE]
     ELSE [table[i] EXCEPT !.to = to, !.on = on, !.landed = span]]

\* The tokens after an attribute that still waits for a brace, at most three.
SeenAfter(t) ==
  [i \in DOMAIN scanned |->
     IF i \in pending
     THEN [scanned[i] EXCEPT !.since = IF Len(@) < 3 THEN Append(@, t) ELSE Append(SubSeq(@, 1, 2), "more"),
                             !.parens = @ \/ t = "("]
     ELSE scanned[i]]

\* fail_pending names the marker placed last, so only its declaration fails.
Reports(some) ==
  IF some = {} THEN {}
  ELSE {scanned[CHOOSE i \in some : \A j \in some : j <= i].span}

-----------------------------------------------------------------------------
(* attribute() and place()                                                  *)

New(to, on) ==
  scanned' = Append(scanned,
    [to |-> to, on |-> on, landed |-> span, span |-> span, inner |-> Innermost.id,
     since |-> <<>>, parens |-> to = "pending" /\ parens])

Placed ==
  LET i == Len(scanned) + 1 IN
  IF prev = "rbrace" /\ closed.kind = "aggregate"
  THEN New("aggregate", closed.id) /\ UNCHANGED <<pending, expect, stack, reported>>
  ELSE IF AfterKeyword("struct")
  THEN /\ New("pending", 0) /\ pending' = pending \cup {i}
       /\ expect' = IF prev = "struct" THEN "" ELSE "lbrace"
       /\ UNCHANGED <<stack, reported>>
  ELSE IF prev # "rbrace" /\ AtTopLevel
  THEN /\ New("pending", 0) /\ pending' = pending \cup {i} /\ expect' = "struct"
       /\ UNCHANGED <<stack, reported>>
  ELSE IF prev # "rbrace" /\ Innermost.kind = "aggregate"
  THEN /\ New("waiting", Innermost.id)
       /\ stack' = [stack EXCEPT ![Len(stack)].waiting = @ \cup {i}]
       /\ UNCHANGED <<pending, expect, reported>>
  ELSE /\ New("failed", 0) /\ reported' = reported \cup {span}
       /\ UNCHANGED <<pending, expect, stack>>

Attribute(layout) ==
  /\ ~ended /\ Len(scanned) < MaxAttrs /\ Len(scanned) + opened < MaxBoth
  /\ IF layout THEN Placed
     ELSE /\ New("failed", 0) /\ reported' = reported \cup {span}
          /\ UNCHANGED <<pending, expect, stack>>
  /\ UNCHANGED <<parens, prev, prev2, closed, assigns, span, opened, bodies, ended, mayName>>

-----------------------------------------------------------------------------
(* The other tokens                                                         *)

\* Unless t is what must come next, the markers that wait have failed.
Fail(t) == IF expect \notin {"", t} THEN pending ELSE {}
Left(t) == pending \ Fail(t)

ReadToken(t) ==
  /\ prev' = t
  /\ prev2' = IF t = "word" /\ prev \in {"struct", "enum"} THEN prev ELSE ""
  /\ closed' = IF t = "rbrace" THEN [kind |-> Innermost.kind, id |-> Innermost.id] ELSE NoBrace

FunctionBody ==
  /\ ~ended /\ AtTopLevel /\ prev = ")" /\ ~assigns
  /\ span < MaxDeclarations
  /\ pending' = Left("lbrace")
  /\ expect' = ""
  /\ scanned' = Becomes(SeenAfter("lbrace"), Fail("lbrace"), "failed", 0)
  /\ reported' = reported \cup Reports(Fail("lbrace"))
  /\ bodies' = bodies \cup {span}
  /\ span' = span + 1
  /\ ReadToken("semicolon") /\ mayName' = TRUE
  /\ UNCHANGED <<stack, parens, assigns, opened, ended>>

OpenBrace ==
  LET kind == IF AfterKeyword("struct") THEN "aggregate"
              ELSE IF AfterKeyword("enum") THEN "enum" ELSE "other"
      fail == IF kind = "aggregate" THEN Fail("lbrace") ELSE pending
  IN
  /\ ~ended /\ opened < MaxBraces /\ Len(scanned) + opened < MaxBoth
  /\ ~(AtTopLevel /\ prev = ")" /\ ~assigns)
  /\ opened' = opened + 1
  /\ stack' = Append(stack, [kind |-> kind, id |-> opened + 1, waiting |-> {}])
  /\ pending' = {} /\ expect' = ""
  /\ scanned' = Becomes(Becomes(SeenAfter("lbrace"), fail, "failed", 0),
                        pending \ fail, "aggregate", opened + 1)
  /\ reported' = reported \cup Reports(fail)
  /\ ReadToken("lbrace") /\ mayName' = TRUE
  /\ UNCHANGED <<parens, assigns, span, bodies, ended>>

CloseBrace ==
  /\ ~ended /\ stack # <<>> /\ ~parens
  /\ stack' = Front(stack)
  /\ pending' = Left("rbrace") /\ expect' = ""
  /\ scanned' = Becomes(Becomes(SeenAfter("rbrace"), Fail("rbrace"), "failed", 0),
                        Innermost.waiting, "member", Innermost.id)
  /\ reported' = reported \cup Reports(Fail("rbrace"))
  /\ ReadToken("rbrace") /\ mayName' = FALSE
  /\ UNCHANGED <<parens, assigns, span, opened, bodies, ended>>

\* At a `;` nothing may wait any more.
\* Faulty: only what must come next is looked at.
FailOnlyExpected(some) == Fail("semicolon")
FailAtSemicolon(some) == some

Semicolon ==
  LET fail == FailAtSemicolon(pending) IN
  /\ ~ended /\ ~parens
  /\ AtTopLevel => span < MaxDeclarations
  /\ pending' = pending \ fail /\ expect' = ""
  /\ scanned' = Becomes(Becomes(SeenAfter("semicolon"), fail, "failed", 0),
                        Innermost.waiting, "member", Innermost.id)
  /\ reported' = reported \cup Reports(fail)
  /\ IF AtTopLevel
     THEN span' = span + 1 /\ assigns' = FALSE /\ UNCHANGED stack
     ELSE /\ UNCHANGED <<span, assigns>>
          /\ stack' = [stack EXCEPT ![Len(stack)].waiting = {}]
  /\ ReadToken("semicolon") /\ mayName' = TRUE
  /\ UNCHANGED <<parens, opened, bodies, ended>>

Token(t) ==
  /\ ~ended
  /\ t = "(" => ~parens
  /\ t = "=" => ~assigns
  /\ t = ")" => parens
  /\ t \in {"struct", "enum"} => mayName
  /\ mayName' = (t = "(" \/ (mayName /\ t \notin {"struct", "enum", ")", "="}))
  /\ parens' = IF t = "(" THEN TRUE ELSE IF t = ")" THEN FALSE ELSE parens
  /\ assigns' = (assigns \/ (t = "=" /\ AtTopLevel))
  /\ pending' = Left(t) /\ expect' = ""
  /\ scanned' = Becomes(SeenAfter(t), Fail(t), "failed", 0)
  /\ reported' = reported \cup Reports(Fail(t))
  /\ ReadToken(t)
  /\ UNCHANGED <<stack, span, opened, bodies, ended>>

EndOfText ==
  /\ ~ended /\ AtTopLevel
  /\ ended' = TRUE
  /\ pending' = {}
  /\ scanned' = Becomes(scanned, pending, "failed", 0)
  /\ reported' = reported \cup Reports(pending)
  /\ UNCHANGED <<stack, parens, prev, prev2, closed, assigns, expect, span, opened, bodies,
                 mayName>>

ScanNext ==
  \/ \E layout \in BOOLEAN : Attribute(layout)
  \/ FunctionBody
  \/ OpenBrace
  \/ CloseBrace
  \/ Semicolon
  \/ \E t \in {"struct", "enum", "word", "(", ")", "="} : Token(t)
  \/ EndOfText

ScanSpec == ScanInit /\ [][ScanNext]_scanVars

-----------------------------------------------------------------------------
(* Correctness                                                              *)

\* No layout attribute is lost or goes astray: when its declaration ends it is
\* a marker in the struct body right behind which, or right before which but
\* for the keyword and the tag, it was written; or it is kept with the member
\* of the innermost struct it was written in; or the declaration is reported.
\* (Attributes of function definitions, and what is defined in parentheses
\* after a struct that is only named, are another matter.)
AttributesReach ==
  \A i \in DOMAIN scanned :
    LET a == scanned[i] IN
    a.span \notin bodies =>
      /\ a.span < span \/ ended => a.to \notin {"pending", "waiting"}
      /\ a.to = "aggregate" =>
           /\ a.landed = a.span
           /\ a.parens \/ a.since \in {<<>>, <<"lbrace">>, <<"word", "lbrace">>, <<"struct", "lbrace">>,
                                       <<"struct", "word", "lbrace">>}
      /\ a.to = "waiting" => \E k \in DOMAIN stack : stack[k].id = a.inner
      /\ a.to = "member" => a.on = a.inner /\ a.landed = a.span
      /\ a.to = "failed" => a.span \in reported

\* "turns the struct level `packed` and `aligned(N)` into marker fields": of
\* the struct they are written at, not of one in a later declaration.
MarkersStayHome ==
  \A i \in DOMAIN scanned :
    scanned[i].to = "aggregate" => scanned[i].landed = scanned[i].span
=============================================================================
