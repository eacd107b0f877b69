----------------------------- MODULE ExecMemory -----------------------------
(***************************************************************************)
(* Executable memory (jita/runtime/memory.py): ExecMemory objects, each over *)
(* a mapping of whole pages that is read-write until protect_exec makes a    *)
(* prefix of it read-execute.  A freed range is free for the next mapping.   *)
(*                                                                          *)
(* The contents of the pages are left out: what matters is which pages a     *)
(* write touches.  Writing to a page that is not mapped read-write kills the *)
(* process; the model records the fault and goes on.                        *)
(***************************************************************************)
EXTENDS Integers, FiniteSets, FiniteSetsExt

CONSTANTS
  Mems,        \* the ExecMemory objects
  Pages,       \* the address space: page numbers
  PageSize,
  Sizes,       \* sizes asked for, in bytes
  Spans,       \* lengths of the data written
  Free         \* the owner of a page that is not mapped

ASSUME MemoryAssumption ==
  /\ Pages \subseteq Nat /\ IsFiniteSet(Pages)
  /\ PageSize \in Nat \ {0}
  /\ Sizes \subseteq Nat
  /\ Spans \subseteq Nat \ {0}
  /\ Free \notin Mems

VARIABLES
  owner,       \* [Pages -> Mems \cup {Free}]
  writable,    \* the pages that are mapped read-write
  mem,         \* [Mems -> Mem]
  faults       \* the pages hit by a write they do not accept

memVars == <<owner, writable, mem, faults>>

\* `first` is the page of the address, `size` the pages mapped, `execSize` the
\* pages of the executable prefix.  An object is closed when its finalizer
\* was called.
Mem == [state : {"unborn", "open", "closed"}, first : Nat, size : Nat,
        executable : BOOLEAN, execSize : Nat]
Unborn == [state |-> "unborn", first |-> 0, size |-> 0, executable |-> FALSE,
           execSize |-> 0]

PagesUp(n) == (n + PageSize - 1) \div PageSize
Range0(first, n) == first .. first + n - 1
Own(m) == Range0(mem[m].first, mem[m].size)
Open(m) == mem[m].state = "open"

MemInit ==
  /\ owner = [p \in Pages |-> Free]
  /\ writable = {}
  /\ mem = [m \in Mems |-> Unborn]
  /\ faults = {}

-----------------------------------------------------------------------------
\* ExecMemory(n): a mapping of at least one page, wherever the system has room.
Map(m, n) ==
  LET size == Max({1, PagesUp(n)}) IN
  /\ mem[m].state = "unborn"
  /\ \E first \in Pages :
       LET range == Range0(first, size) IN
       /\ range \subseteq Pages
       /\ \A p \in range : owner[p] = Free
       /\ owner' = [p \in Pages |-> IF p \in range THEN m ELSE owner[p]]
       /\ writable' = writable \cup range
       /\ mem' = [mem EXCEPT ![m] =
            [state |-> "open", first |-> first, size |-> size, executable |-> FALSE,
             execSize |-> 0]]
  /\ UNCHANGED faults

\* Whether write(data, off) passes the checks, for len bytes of data.
\* Faulty: only a write that lies in the prefix altogether is refused.
AcceptsPartly(m, off, len) ==
  /\ Open(m)
  /\ 0 <= off /\ off + len <= mem[m].size * PageSize
  /\ ~(mem[m].executable /\ off + len <= mem[m].execSize * PageSize)
Accepts(m, off, len) ==
  /\ Open(m)
  /\ 0 <= off /\ off + len <= mem[m].size * PageSize
  /\ ~(mem[m].executable /\ off < mem[m].execSize * PageSize)

\* The pages of the bytes off .. off + len - 1 of m.
Touched(m, off, len) ==
  {mem[m].first + (i \div PageSize) : i \in off .. off + len - 1}

Write(m, off, len) ==
  /\ Accepts(m, off, len)
  /\ faults' = faults \cup {p \in Touched(m, off, len) :
                              owner[p] # m \/ p \notin writable}
  /\ UNCHANGED <<owner, writable, mem>>

\* protect_exec(e), e in pages; an e of 0 protects nothing.
\* Faulty: the prefix may be longer than the mapping.
AnyPrefix(m, e) == e >= 0
ValidPrefix(m, e) == e \in 0 .. mem[m].size
ProtectExec(m, e) ==
  /\ Open(m)
  /\ ValidPrefix(m, e)
  /\ writable' = writable \ Range0(mem[m].first, e)
  /\ mem' = [mem EXCEPT ![m].executable = TRUE, ![m].execSize = e]
  /\ UNCHANGED <<owner, faults>>

\* mprotect fails: the exception comes before the flags are set.
\* Faulty: they are set first.
FlagsSetFirst(m, e) == [mem EXCEPT ![m].executable = TRUE, ![m].execSize = e]
FlagsOnFailure(m, e) == mem
ProtectFails(m, e) ==
  /\ Open(m)
  /\ ValidPrefix(m, e) /\ e # 0
  /\ mem' = FlagsOnFailure(m, e)
  /\ UNCHANGED <<owner, writable, faults>>

\* What close() and the collection of the object do: the finalizer frees the
\* range, the first time only.
\* Faulty: every time.
FreesEveryTime(m) == mem[m].state # "unborn"
Frees(m) == Open(m)
Close(m) ==
  /\ mem[m].state # "unborn"
  /\ IF Frees(m)
     THEN /\ owner' = [p \in Pages |-> IF p \in Own(m) THEN Free ELSE owner[p]]
          /\ writable' = writable \ Own(m)
          /\ mem' = [mem EXCEPT ![m].state = "closed"]
     ELSE UNCHANGED <<owner, writable, mem>>
  /\ UNCHANGED faults

MemNext ==
  \E m \in Mems :
    \/ \E n \in Sizes : Map(m, n)
    \/ \E off \in 0 .. Cardinality(Pages) * PageSize, len \in Spans : Write(m, off, len)
    \/ \E e \in 0 .. Cardinality(Pages) : ProtectExec(m, e) \/ ProtectFails(m, e)
    \/ Close(m)

MemSpec == MemInit /\ [][MemNext]_memVars

-----------------------------------------------------------------------------
(* Correctness                                                              *)

\* An open object owns its whole range, whoever closes what how often: no
\* second close takes pages that were mapped again since.
OwnsItsPages ==
  \A m \in Mems : \A p \in Pages :
    owner[p] = m <=> Open(m) /\ p \in Own(m)

\* Pages that an object counts as executable are not writable, whichever of
\* the calls failed: what write refuses to touch is what is protected.
SealedPrefix ==
  \A m \in Mems : Open(m) /\ mem[m].executable =>
    Range0(mem[m].first, mem[m].execSize) \cap writable = {}

\* memory.py says of protect_exec: "The rest of the mapping stays read-write";
\* and of write: "After `protect_exec` only the writable tail accepts writes".
TailIsWritable ==
  \A m \in Mems : Open(m) =>
    Own(m) \ Range0(mem[m].first, mem[m].execSize) \subseteq writable

\* A write that was accepted reaches writable pages of the object.
NoFault == faults = {}

\* Types; every byte range of an open object lies in the address space.
MemTypeOK ==
  /\ owner \in [Pages -> Mems \cup {Free}]
  /\ writable \subseteq Pages /\ faults \subseteq Nat
  /\ mem \in [Mems -> Mem]
  /\ \A m \in Mems : Open(m) =>
       Own(m) \subseteq Pages /\ mem[m].size >= 1 /\ mem[m].execSize <= mem[m].size
=============================================================================
