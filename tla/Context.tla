------------------------------ MODULE Context ------------------------------
(***************************************************************************)
(* The current assembler: `with asm:` blocks over two context variables,    *)
(* _current and _tokens (jita/core/assembler.py).                           *)
(*                                                                          *)
(* Every thread and every task has a context of its own; a task starts with *)
(* a copy of the context that creates it.  A context variable gives back a  *)
(* token when it is set; only in the context that made it, and only once,   *)
(* can the token reset the variable to the value it had.                    *)
(*                                                                          *)
(* Blocks need not be left in the order they were entered: a generator that *)
(* is suspended inside a block leaves it whenever, and in whatever context, *)
(* it is resumed or closed.                                                 *)
(***************************************************************************)
EXTENDS Integers, Sequences, SequencesExt

CONSTANTS
  Asms,
  Contexts,
  Threads,     \* the contexts that exist from the start, empty
  NoAsm,
  MaxEnters    \* bound on the blocks entered in a behaviour

ASSUME ContextAssumption ==
  /\ NoAsm \notin Asms
  /\ Threads \subseteq Contexts
  /\ MaxEnters \in Nat

VARIABLES
  current,     \* [Contexts -> Asms \cup {NoAsm}]: _current
  tokens,      \* [Contexts -> Seq(Token)]: _tokens, innermost last
  used,        \* the tokens that were reset
  entered,     \* how many blocks were entered
  exists,      \* the contexts created so far
  \* History, not kept by the code:
  open,        \* [Contexts -> sequence of the open blocks entered in it]
  inherited,   \* [Contexts -> its current and tokens when it was created]
  leaving      \* [Contexts -> how blocks were left in it so far]

contextVars == <<current, tokens, used, entered, exists, open, inherited, leaving>>

Token == [id : 1 .. MaxEnters, ctx : Contexts, old : Asms \cup {NoAsm}]
Empty == [current |-> NoAsm, tokens |-> <<>>]

ContextInit ==
  /\ current = [c \in Contexts |-> NoAsm]
  /\ tokens = [c \in Contexts |-> <<>>]
  /\ used = {}
  /\ entered = 0
  /\ exists = Threads
  /\ open = [c \in Contexts |-> <<>>]
  /\ inherited = [c \in Contexts |-> Empty]
  /\ leaving = [c \in Contexts |-> "nested"]

\* Task d is created by code running in c.
Spawn(c, d) ==
  /\ c \in exists /\ d \notin exists
  /\ exists' = exists \cup {d}
  /\ current' = [current EXCEPT ![d] = current[c]]
  /\ tokens' = [tokens EXCEPT ![d] = tokens[c]]
  /\ inherited' = [inherited EXCEPT ![d] = [current |-> current[c], tokens |-> tokens[c]]]
  /\ UNCHANGED <<used, entered, open, leaving>>

\* a.__enter__() in context c.
Enter(c, a) ==
  LET t == [id |-> entered + 1, ctx |-> c, old |-> current[c]] IN
  /\ c \in exists
  /\ entered < MaxEnters
  /\ entered' = entered + 1
  /\ current' = [current EXCEPT ![c] = a]
  /\ tokens' = [tokens EXCEPT ![c] = Append(@, t)]
  /\ open' = [open EXCEPT ![c] = Append(@, [id |-> t.id, asm |-> a])]
  /\ UNCHANGED <<used, exists, inherited, leaving>>

\* What __exit__ does, in context d, for block b.
\* Faulty: the block's own token is reset, if it is there, and removed.
TokenOfBlock(stack, b) ==
  IF \E i \in DOMAIN stack : stack[i].id = b.id
  THEN CHOOSE i \in DOMAIN stack : stack[i].id = b.id ELSE Len(stack)
\* Faulty: the outermost token is reset.
TokenFirst(stack, b) == 1
TokenOf(stack, b) == Len(stack)

\* Faulty: the stack keeps the token.
KeepToken(stack, i) == stack
DropToken(stack, i) == RemoveAt(stack, i)

ResetAllowed(t, d) == t.ctx = d /\ t.id \notin used

\* Block i of those open in c is left by code running in context d.  With no
\* token there, and with a token that cannot be reset, __exit__ raises; the
\* token is gone all the same.
Exit(c, d, i) ==
  LET b == open[c][i]
      stack == tokens[d]
      k == TokenOf(stack, b)
      nested == c = d /\ i = Len(open[c])
  IN
  /\ d \in exists
  /\ open' = [open EXCEPT ![c] = RemoveAt(@, i)]
  /\ leaving' = [x \in Contexts |->
       IF c # d /\ x \in {c, d} THEN "crossed"
       ELSE IF x = c /\ ~nested /\ leaving[x] = "nested" THEN "interleaved"
       ELSE leaving[x]]
  /\ IF stack = <<>> THEN UNCHANGED <<tokens, current, used>>
     ELSE /\ tokens' = [tokens EXCEPT ![d] = DropToken(stack, k)]
          /\ IF ResetAllowed(stack[k], d)
             THEN /\ current' = [current EXCEPT ![d] = stack[k].old]
                  /\ used' = used \cup {stack[k].id}
             ELSE UNCHANGED <<current, used>>
  /\ UNCHANGED <<entered, exists, inherited>>

ContextNext ==
  \/ \E c, d \in Contexts : Spawn(c, d)
  \/ \E c \in Contexts, a \in Asms : Enter(c, a)
  \/ \E c, d \in Contexts : \E i \in DOMAIN open[c] : Exit(c, d, i)

ContextSpec == ContextInit /\ [][ContextNext]_contextVars

-----------------------------------------------------------------------------
(* Correctness                                                              *)

\* A token is on the stack of the context that made it at most once, and no
\* longer once it was reset: an exit never meets a spent token of its own
\* context.
ContextTypeOK ==
  /\ current \in [Contexts -> Asms \cup {NoAsm}]
  /\ entered \in 0 .. MaxEnters
  /\ used \subseteq 1 .. entered
  /\ Threads \subseteq exists /\ exists \subseteq Contexts
  /\ \A c \in Contexts :
       /\ \A i \in DOMAIN tokens[c] :
            /\ tokens[c][i] \in Token
            /\ tokens[c][i].ctx = c => tokens[c][i].id \notin used
       /\ \A i, j \in DOMAIN tokens[c] : tokens[c][i].id = tokens[c][j].id => i = j
       /\ \A i \in DOMAIN open[c] : open[c][i].asm \in Asms

\* "Contexts nest": as long as every block of a context was left in it and in
\* the reverse of the order they were entered, the current assembler is that
\* of the innermost open block, or else the one inherited from the creator,
\* whatever the other threads and tasks do, with the same assembler too; and
\* the next exit finds a token it can reset.
NestedBlocksSee ==
  \A c \in exists : leaving[c] = "nested" =>
    /\ Len(tokens[c]) = Len(inherited[c].tokens) + Len(open[c])
    /\ IF open[c] = <<>> THEN current[c] = inherited[c].current
       ELSE /\ current[c] = Last(open[c]).asm
            /\ ResetAllowed(Last(tokens[c]), c)

\* Blocks of one context that overlap without nesting (suspended generators)
\* may see each other's assembler, but when the last of them is left the
\* context is again as it was created.
AnyOrderRestores ==
  \A c \in exists : leaving[c] # "crossed" /\ open[c] = <<>> =>
    /\ current[c] = inherited[c].current
    /\ tokens[c] = inherited[c].tokens
=============================================================================
