------------------------------- MODULE Loader -------------------------------
(***************************************************************************)
(* Loading (jita/runtime/loader.py): load maps memory, links at its address, *)
(* writes and protects it; the Module owns the memory, the functions and     *)
(* builtins taken from it keep the Module alive, and the collector frees     *)
(* what nobody holds.  Threads load, take entries, close and drop at the     *)
(* same time; a thread can be suspended between two steps of a load or of a  *)
(* builtin.                                                                 *)
(***************************************************************************)
EXTENDS ExecMemory, Functions

CONSTANTS
  Threads,
  Programs,    \* what an assembler links to: its size and executable prefix, in bytes
  Handles,     \* function and builtin objects
  Entries,     \* offsets of entry points from the image base
  Defs,        \* PyMethodDef structures
  NoModule, NoDef

\* What Layout of Link gives: whole executable pages, no more than the image has.
ASSUME LoaderAssumption ==
  /\ \A p \in Programs : p.size \in Nat /\ p.exec \in Nat
       /\ p.exec % PageSize = 0 /\ p.exec <= PagesUp(p.size) * PageSize
  /\ Entries \subseteq Nat
  /\ NoModule \notin Mems /\ NoDef \notin Defs

VARIABLES
  load,        \* [Threads -> the load in progress]
  module,      \* [Mems -> Module]: the Module over that memory, if it was loaded
  handle,      \* [Handles -> Handle]
  taking,      \* [Threads -> the builtin() in progress]
  table,       \* _method_defs, by the address of the entry, the rest being equal
  def          \* [Defs -> {"unborn", "used", "freed"}]

vars == <<memVars, load, module, handle, taking, table, def>>

NoLoad == [step |-> "idle"]
NoTaking == [step |-> "idle"]
NotLoaded == [state |-> "none", held |-> FALSE, closed |-> FALSE]
\* A handle is held by the program, or only by an attribute of its module, or
\* it is being deallocated.
HandleStates == {"none", "held", "attached", "dying", "gone"}
NoHandle == [state |-> "none", builtin |-> FALSE, module |-> NoModule, at |-> 0,
             def |-> NoDef]

Base(m) == mem[m].first * PageSize

LoaderInit ==
  /\ MemInit
  /\ load = [t \in Threads |-> NoLoad]
  /\ module = [m \in Mems |-> NotLoaded]
  /\ handle = [h \in Handles |-> NoHandle]
  /\ taking = [t \in Threads |-> NoTaking]
  /\ table = <<>>
  /\ def = [d \in Defs |-> "unborn"]

-----------------------------------------------------------------------------
(* load                                                                     *)

Step(t, step) == load' = [load EXCEPT ![t].step = step]

LoadMap(t, m, p) ==
  /\ load[t] = NoLoad
  /\ Map(m, p.size)
  /\ load' = [load EXCEPT ![t] = [step |-> "link", mem |-> m, prog |-> p]]
  /\ UNCHANGED <<module, handle, taking, table, def>>

\* The image is an object of its own; linking touches no memory.
LoadLink(t) ==
  /\ load[t].step = "link"
  /\ Step(t, "write")
  /\ UNCHANGED <<memVars, module, handle, taking, table, def>>

LoadWrite(t) ==
  /\ load[t].step = "write"
  /\ Write(load[t].mem, 0, load[t].prog.size)
  /\ Step(t, "protect")
  /\ UNCHANGED <<module, handle, taking, table, def>>

LoadProtect(t) ==
  LET m == load[t].mem IN
  /\ load[t].step = "protect"
  /\ ProtectExec(m, load[t].prog.exec \div PageSize)
  /\ load' = [load EXCEPT ![t] = NoLoad]
  /\ module' = [module EXCEPT ![m] =
       [state |-> "alive", held |-> TRUE, closed |-> FALSE, prog |-> load[t].prog]]
  /\ UNCHANGED <<handle, taking, table, def>>

\* mprotect fails and raises.
LoadProtectFails(t) ==
  /\ load[t].step = "protect"
  /\ ProtectFails(load[t].mem, load[t].prog.exec \div PageSize)
  /\ Step(t, "failed")
  /\ UNCHANGED <<module, handle, taking, table, def>>

\* Any exception after the mapping, of link, write, mprotect or a signal.
\* Faulty: the memory is left to the exception that refers to it.
LeavesMemory(m) == UNCHANGED memVars
ReleasesMemory(m) == Close(m)
LoadFails(t) ==
  /\ load[t].step # "idle"
  /\ ReleasesMemory(load[t].mem)
  /\ load' = [load EXCEPT ![t] = NoLoad]
  /\ UNCHANGED <<module, handle, taking, table, def>>

-----------------------------------------------------------------------------
(* Module, functions and builtins                                           *)

\* The handles held by the program that keep m alive.
\* Faulty: a ctypes function does not refer to its module.
BuiltinsOf(m) == {h \in Handles : handle[h].state = "held" /\ handle[h].module = m
                                  /\ handle[h].builtin}
HandlesOf(m) == {h \in Handles : handle[h].state = "held" /\ handle[h].module = m}

Reachable(m) == module[m].state = "alive" /\ (module[m].held \/ HandlesOf(m) # {})

\* _check_open, by code that has the module.
Usable(m) == Reachable(m) /\ ~module[m].closed /\ Open(m)

Function(h, m, off) ==
  /\ Usable(m) /\ off < module[m].prog.size
  /\ handle[h].state = "none"
  /\ handle' = [handle EXCEPT ![h] = [state |-> "held", builtin |-> FALSE, module |-> m,
                                      at |-> Base(m) + off, def |-> NoDef]]
  /\ UNCHANGED <<memVars, load, module, taking, table, def>>

\* Structures that only a thread refers to are freed when it lets go of them.
Collected(tbl, tk) ==
  [d \in Defs |->
     IF def[d] = "used" /\ d \notin Range(tbl)
        /\ ~\E t \in Threads : tk[t].step = "publish" /\ tk[t].def = d
     THEN "freed" ELSE def[d]]

\* builtin() up to a successful _method_defs.get, or to the creation of a
\* structure after an unsuccessful one.
BuiltinFinds(h, m, off) ==
  LET k == Base(m) + off IN
  /\ Usable(m) /\ off < module[m].prog.size
  /\ handle[h].state = "none"
  /\ k \in DOMAIN table
  /\ handle' = [handle EXCEPT ![h] = [state |-> "held", builtin |-> TRUE, module |-> m,
                                      at |-> k, def |-> table[k]]]
  /\ UNCHANGED <<memVars, load, module, taking, table, def>>

BuiltinCreates(t, m, off, d) ==
  LET k == Base(m) + off IN
  /\ taking[t] = NoTaking
  /\ Usable(m) /\ off < module[m].prog.size
  /\ k \notin DOMAIN table
  /\ def[d] = "unborn"
  /\ def' = [def EXCEPT ![d] = "used"]
  /\ taking' = [taking EXCEPT ![t] = [step |-> "publish", module |-> m, at |-> k, def |-> d]]
  /\ UNCHANGED <<memVars, load, module, handle, table>>

\* _method_defs.setdefault(key, d).
\* Faulty: _method_defs[key] = d.
Overwritten(k, d) ==
  [x \in DOMAIN table \cup {k} |-> IF x = k THEN d ELSE table[x]]
SetDefault(k, d) ==
  [x \in DOMAIN table \cup {k} |-> IF x \in DOMAIN table THEN table[x] ELSE d]

\* The rest of builtin(): the structure of the table is used from now on.
BuiltinPublishes(t, h) ==
  LET k == taking[t].at
      tbl == SetDefault(k, taking[t].def)
      tk == [taking EXCEPT ![t] = NoTaking]
  IN
  /\ taking[t].step = "publish"
  /\ handle[h].state = "none"
  /\ table' = tbl
  /\ taking' = tk
  /\ handle' = [handle EXCEPT ![h] = [state |-> "held", builtin |-> TRUE,
                  module |-> taking[t].module, at |-> k, def |-> tbl[k]]]
  /\ def' = Collected(tbl, tk)
  /\ UNCHANGED <<memVars, load, module>>

\* Module.write(off, data): the checks of the module, then those of the memory.
ModuleWrite(m, off, len) ==
  /\ Usable(m) /\ off + len <= module[m].prog.size
  /\ Write(m, off, len)
  /\ UNCHANGED <<load, module, handle, taking, table, def>>

CloseModule(m) ==
  /\ Reachable(m)
  /\ module' = [module EXCEPT ![m].closed = TRUE]
  /\ Close(m)
  /\ UNCHANGED <<load, handle, taking, table, def>>

-----------------------------------------------------------------------------
(* References                                                               *)

DropModule(m) ==
  /\ module[m].state = "alive" /\ module[m].held
  /\ module' = [module EXCEPT ![m].held = FALSE]
  /\ UNCHANGED <<memVars, load, handle, taking, table, def>>

\* The program takes the module from one of its handles.
HoldModule(m) ==
  /\ Reachable(m)
  /\ module' = [module EXCEPT ![m].held = TRUE]
  /\ UNCHANGED <<memVars, load, handle, taking, table, def>>

\* The program keeps a handle only as an attribute of its module.
Attach(h) ==
  /\ handle[h].state = "held"
  /\ handle' = [handle EXCEPT ![h].state = "attached"]
  /\ UNCHANGED <<memVars, load, module, taking, table, def>>

Drop(h) ==
  /\ handle[h].state = "held"
  /\ handle' = [handle EXCEPT ![h].state = "dying"]
  /\ UNCHANGED <<memVars, load, module, taking, table, def>>

\* The deallocation of a builtin reads its structure.
Deallocate(h) ==
  /\ handle[h].state = "dying"
  /\ handle' = [handle EXCEPT ![h].state = "gone"]
  /\ UNCHANGED <<memVars, load, module, taking, table, def>>

\* A module that nobody refers to goes, and its memory with it; the handles in
\* its attributes follow in any order.
Collect(m) ==
  /\ module[m].state = "alive" /\ ~module[m].held
  /\ HandlesOf(m) = {}
  /\ \A t \in Threads : taking[t].step = "publish" => taking[t].module # m
  /\ module' = [module EXCEPT ![m].state = "gone"]
  /\ handle' = [h \in Handles |->
       IF handle[h].state = "attached" /\ handle[h].module = m
       THEN [handle[h] EXCEPT !.state = "dying"] ELSE handle[h]]
  /\ Close(m)
  /\ UNCHANGED <<load, taking, table, def>>

LoadNext ==
  \E t \in Threads :
    \/ \E m \in Mems, p \in Programs : LoadMap(t, m, p)
    \/ LoadLink(t) \/ LoadWrite(t) \/ LoadProtect(t)
    \/ LoadProtectFails(t) \/ LoadFails(t)

ModuleNext ==
  \E m \in Mems :
    \/ \E h \in Handles, off \in Entries : Function(h, m, off) \/ BuiltinFinds(h, m, off)
    \/ \E t \in Threads, off \in Entries, d \in Defs : BuiltinCreates(t, m, off, d)
    \/ \E off \in Entries, len \in Spans : ModuleWrite(m, off, len)
    \/ CloseModule(m) \/ DropModule(m) \/ HoldModule(m) \/ Collect(m)

HandleNext ==
  \E h \in Handles :
    \/ \E t \in Threads : BuiltinPublishes(t, h)
    \/ Attach(h) \/ Drop(h) \/ Deallocate(h)

LoaderNext == LoadNext \/ ModuleNext \/ HandleNext

LoaderSpec == LoaderInit /\ [][LoaderNext]_vars

-----------------------------------------------------------------------------
(* The state between the steps                                              *)

LoadStates == {NoLoad} \cup
  [step : {"link", "write", "protect", "failed"}, mem : Mems, prog : Programs]
ModuleStates == {NotLoaded} \cup
  [state : {"alive", "gone"}, held : BOOLEAN, closed : BOOLEAN, prog : Programs]
Handle == [state : HandleStates, builtin : BOOLEAN, module : Mems \cup {NoModule},
           at : Nat, def : Defs \cup {NoDef}]
TakingStates == {NoTaking} \cup
  [step : {"publish"}, module : Mems, at : Nat, def : Defs]

LoaderTypeOK ==
  /\ load \in [Threads -> LoadStates]
  /\ module \in [Mems -> ModuleStates]
  /\ handle \in [Handles -> Handle]
  /\ taking \in [Threads -> TakingStates]
  /\ def \in [Defs -> {"unborn", "used", "freed"}]

\* The memory of a load is all writable, has room for the image, and is no
\* other load's and no module's.
LoadApart(t, m) ==
  /\ Open(m) /\ ~mem[m].executable
  /\ Own(m) \subseteq writable
  /\ load[t].prog.size <= mem[m].size * PageSize
  /\ module[m] = NotLoaded
  /\ \A u \in Threads \ {t} : load[u].step # "idle" => load[u].mem # m

LoadsApart ==
  \A t \in Threads : load[t].step # "idle" => LoadApart(t, load[t].mem)

\* The memory of a module that was not closed holds its image, protected up
\* to the executable prefix and writable after it.
ModuleReady(m) ==
  /\ mem[m].state = "unborn" => module[m] = NotLoaded
  /\ module[m].state = "alive" /\ ~module[m].closed =>
       /\ Open(m) /\ mem[m].executable
       /\ mem[m].execSize = module[m].prog.exec \div PageSize
       /\ module[m].prog.size <= mem[m].size * PageSize
       /\ Own(m) \ Range0(mem[m].first, mem[m].execSize) \subseteq writable

ModulesReady == \A m \in Mems : ModuleReady(m)

\* at is the address of a byte of the image of m, which is alive.
EntryOf(m, at) ==
  /\ m \in Mems /\ module[m].state = "alive"
  /\ Base(m) <= at /\ at - Base(m) < module[m].prog.size

EntriesLive ==
  /\ \A h \in Handles : handle[h].state = "held" => EntryOf(handle[h].module, handle[h].at)
  /\ \A t \in Threads : taking[t].step = "publish" =>
       EntryOf(taking[t].module, taking[t].at) /\ def[taking[t].def] = "used"

TableUsed == \A k \in DOMAIN table : table[k] \in Defs /\ def[table[k]] = "used"

-----------------------------------------------------------------------------
(* Correctness                                                              *)

Owned(m) ==
  Open(m) => \/ \E t \in Threads : load[t].step # "idle" /\ load[t].mem = m
             \/ module[m].state = "alive"

\* Memory is never orphaned: what is mapped belongs to a load in progress or
\* to a module that is alive; a failed load has released its memory when it
\* raises.  And no module that can be used has lost its memory.
NoLeak ==
  \A m \in Mems : Owned(m) /\ (module[m].state = "alive" /\ ~module[m].closed => Open(m))

\* A function or builtin that the program holds can be called as long as its
\* module was not closed explicitly, whatever else was dropped, closed, loaded
\* or collected: the entry still lies in memory of that module, and in a
\* protected page when it lies in the executable prefix.
CallsSafe ==
  \A h \in Handles : handle[h].state = "held" =>
    LET m == handle[h].module
        page == handle[h].at \div PageSize
    IN  module[m].closed
        \/ /\ owner[page] = m
           /\ handle[h].at - Base(m) < module[m].prog.exec => page \notin writable

\* CPython reads the PyMethodDef of a builtin until it is deallocated, even
\* after its module: by then it must not be freed; whichever thread made it.
MethodDefsOutlive ==
  \A h \in Handles :
    handle[h].builtin /\ handle[h].state \in {"held", "attached", "dying"} =>
      /\ def[handle[h].def] = "used"
      /\ handle[h].at \in DOMAIN table
      /\ table[handle[h].at] = handle[h].def

\* All of the above, and what the memory keeps, holds together.
LoaderInv ==
  /\ MemTypeOK /\ OwnsItsPages /\ SealedPrefix
  /\ LoaderTypeOK /\ LoadsApart /\ ModulesReady /\ NoLeak
  /\ EntriesLive /\ TableUsed /\ MethodDefsOutlive /\ NoFault
=============================================================================
