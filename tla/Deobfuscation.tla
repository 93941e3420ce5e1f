----------------------------- MODULE Deobfuscation -----------------------------
(***************************************************************************)
(* Loads and stores of integers that are pointers in fact are turned into  *)
(* loads and stores of pointers, block by block, before targets are        *)
(* gathered.                                                               *)
(*   lib/pass/Setup.cpp 373-743                                            *)
(* Code is [body, users, next]: the instructions by number, for each the   *)
(* list of its users with the newest use first, as LLVM keeps it, and the  *)
(* next free number. An instruction is [op, args, block, for]; its `for'   *)
(* is the instruction of the program that it stands for. The operands are  *)
(* instructions, or locations and pointers from elsewhere. All integers    *)
(* are as wide as a pointer; "fload" is a load of a floating point value.  *)
(***************************************************************************)
EXTENDS Integers, Sequences, FiniteSets, SequencesExt

CONSTANTS
  Programs, \* sequences of instructions [op, args, block]
  Blocks,   \* number of blocks, in the order of the function
  External, \* locations and pointers from elsewhere
  Typed     \* those that are casts of a location of pointers

ASSUME BlocksAssumption == Blocks \in Nat \ {0} /\ Typed \subseteq External

VARIABLES
  program, \* the function as it was
  code,
  block,   \* the block that is worked on
  phase,   \* "scan", "loads", "users", "stores", "done" or "aborted"
  loads,   \* obfuscatedLoads: loads still to be transformed
  stores,  \* obfuscatedStores: stores with the value that is a pointer
  load,    \* the load that is being transformed, and what replaces it
  ptrLoad,
  todo,    \* users of load still to be visited
  replace, \* replaceInfo: <<user, old operand, new operand>>
  remove   \* removeQueue

vars == <<program, code, block, phase, loads, stores, load, ptrLoad, todo, replace, remove>>
transformation == <<load, ptrLoad, todo, replace, remove>>

None == 0
Op == {"load", "fload", "ptrload", "store", "inttoptr", "ptrtoint", "bitcast", "phi",
       "call", "use"}
Instruction(op, args, b, i) == [op |-> op, args |-> args, block |-> b, for |-> i]

-----------------------------------------------------------------------------
(* Code *)

\* A user is listed once for each of its operands.
UsersIn(body, v) ==
  Reverse(FlattenSeq([u \in DOMAIN body |->
                        SelectSeq([k \in DOMAIN body[u].args |->
                                     IF body[u].args[k] = v THEN u ELSE None],
                                  LAMBDA w : w # None)]))

CodeOf(prog) ==
  [body |-> [i \in 1 .. Len(prog) |->
               Instruction(prog[i].op, prog[i].args, prog[i].block, i)],
   users |-> [v \in 1 .. Len(prog) |-> UsersIn(prog, v)],
   next |-> Len(prog) + 1]

Users(c, v) == ToSet(c.users[v])

Added(c, ins) ==
  [body |-> [i \in DOMAIN c.body \cup {c.next} |->
               IF i = c.next THEN ins ELSE c.body[i]],
   users |-> [v \in DOMAIN c.users \cup {c.next} |->
                IF v = c.next THEN <<>>
                ELSE IF v \in ToSet(ins.args) THEN <<c.next>> \o c.users[v]
                ELSE c.users[v]],
   next |-> c.next + 1]

\* Mutation: the new operand does not learn of its user.
ReplacedOneSided(c, u, old, new) ==
  [c EXCEPT !.body[u].args = [k \in DOMAIN @ |-> IF @[k] = old THEN new ELSE @[k]],
            !.users[old] = SelectSeq(@, LAMBDA w : w # u)]

\* replaceUsesOfWith
Replaced(c, u, old, new) ==
  LET uses == SelectSeq(c.users[old], LAMBDA w : w = u) IN
  [c EXCEPT !.body[u].args = [k \in DOMAIN @ |-> IF @[k] = old THEN new ELSE @[k]],
            !.users[old] = SelectSeq(@, LAMBDA w : w # u),
            !.users[new] = uses \o @]

Removed(c, i) ==
  [c EXCEPT !.body = [j \in DOMAIN @ \ {i} |-> @[j]],
            !.users = [v \in DOMAIN @ |-> SelectSeq(@[v], LAMBDA w : w # i)]]

-----------------------------------------------------------------------------
(* Which values are pointers *)

\* isUserWithCastingPotential
CastUsers(c, v) ==
  {u \in Users(c, v) : c.body[u].op \in {"inttoptr", "bitcast", "phi"}}

\* valIsActuallyPtr follows users through bitcasts. It puts a phi back on its
\* worklist, not the users of the phi.
ValIsActuallyPtr(c, v) ==
  LET reached[n \in 0 .. c.next] ==
        IF n = 0 THEN CastUsers(c, v)
        ELSE reached[n - 1]
               \cup UNION {CastUsers(c, u) : u \in {w \in reached[n - 1] :
                                                      c.body[w].op = "bitcast"}}
  IN \E u \in reached[c.next] : c.body[u].op = "inttoptr"

\* valCastedBeforeLoad
ValCastedBeforeLoad(c, l) == c.body[l].args[1] \in Typed

\* Mutation: the location that is loaded from does not count.
IsObfuscatedLoadByUse(c, l) == ValIsActuallyPtr(c, l)

IsObfuscatedLoad(c, l) == ValCastedBeforeLoad(c, l) \/ ValIsActuallyPtr(c, l)

\* getSrcIfHasUsageAsPtr: the value that is a pointer, None, or Fault if the
\* assertion that valIsActuallyPtr is asked about integers only fails.
Fault == -1

RECURSIVE SrcWithUsageAsPtr(_, _, _)
SrcWithUsageAsPtr(c, work, seen) ==
  IF work = <<>> THEN None
  ELSE
    LET item == Last(work)
        rest == Front(work)
        casts == SelectSeq(c.users[item], LAMBDA u : u \in CastUsers(c, item))
    IN IF item \in seen THEN SrcWithUsageAsPtr(c, rest, seen)
       ELSE CASE c.body[item].op \in {"inttoptr", "ptrload"} -> item
              [] c.body[item].op = "fload" -> Fault
              [] c.body[item].op = "call" /\ ValIsActuallyPtr(c, item) -> item
              [] c.body[item].op = "load" /\ IsObfuscatedLoad(c, item) -> item
              [] c.body[item].op = "bitcast" ->
                   SrcWithUsageAsPtr(c, rest \o <<c.body[item].args[1]>> \o casts,
                                     seen \cup {item})
              [] c.body[item].op = "phi" ->
                   SrcWithUsageAsPtr(c, rest \o casts, seen \cup {item})
              [] OTHER -> SrcWithUsageAsPtr(c, rest, seen \cup {item})

GetSrcIfHasUsageAsPtr(c, v) ==
  IF v \in External THEN None ELSE SrcWithUsageAsPtr(c, <<v>>, {})

-----------------------------------------------------------------------------
(* The actions *)

InBlock(op) == {i \in DOMAIN code.body : code.body[i].op = op /\ code.body[i].block = block}

\* One pass over the block finds the loads and stores, with the values that
\* these are found to store.
ScanBlock ==
  /\ phase = "scan"
  /\ LET src == [s \in InBlock("store") |->
                   GetSrcIfHasUsageAsPtr(code, code.body[s].args[1])]
         found == {s \in DOMAIN src : src[s] # None}
     IN /\ stores' = {[store |-> s, val |-> src[s], op |-> code.body[src[s]].op] :
                        s \in {t \in found : src[t] # Fault}}
        /\ phase' = IF Fault \in {src[s] : s \in found} THEN "aborted" ELSE "loads"
  /\ loads' = {l \in InBlock("load") : IsObfuscatedLoad(code, l)}
  /\ UNCHANGED <<program, code, block, transformation>>

\* Mutation: the store stays in the map.
TransformObfuscatedLoadOnly ==
  /\ phase = "loads"
  /\ \E l \in loads :
       /\ load' = l
       /\ loads' = loads \ {l}
       /\ code' = Added(code, Instruction("ptrload", code.body[l].args, block, l))
       /\ todo' = code.users[l]
  /\ ptrLoad' = code.next
  /\ phase' = "users"
  /\ UNCHANGED <<program, block, stores, replace, remove>>

\* The loads are taken in the order of a hash set. A store of the load, the
\* first by address, is struck from the map.
TransformObfuscatedLoad ==
  /\ phase = "loads"
  /\ \E l \in loads :
       /\ load' = l
       /\ loads' = loads \ {l}
       /\ code' = Added(code, Instruction("ptrload", code.body[l].args, block, l))
       /\ todo' = code.users[l]
       /\ LET ofLoad == {e \in stores : e.val = l} IN
          IF ofLoad = {} THEN UNCHANGED stores
          ELSE \E e \in ofLoad : stores' = stores \ {e}
  /\ ptrLoad' = code.next
  /\ phase' = "users"
  /\ UNCHANGED <<program, block, replace, remove>>

VisitsUser(ops) ==
  /\ phase = "users"
  /\ todo # <<>>
  /\ code.body[Head(todo)].op \in ops
  /\ todo' = Tail(todo)
  /\ UNCHANGED <<program, block, phase, loads, stores, load, ptrLoad>>

\* Mutation: the location takes the place of what is loaded from it.
VisitIntToPtrOfLocation ==
  /\ VisitsUser({"inttoptr"})
  /\ LET cast == Head(todo)
         from == code.body[ptrLoad].args
     IN /\ code' = Added(code, Instruction("bitcast", from, block, cast))
        /\ replace' = replace \cup {<<u, cast, code.next>> : u \in Users(code, cast)}
        /\ remove' = remove \cup {cast}

\* A cast to a pointer is replaced by the loaded pointer, cast as needed.
VisitIntToPtr ==
  /\ VisitsUser({"inttoptr"})
  /\ LET cast == Head(todo) IN
     /\ code' = Added(code, Instruction("bitcast", <<ptrLoad>>, block, cast))
     /\ replace' = replace \cup {<<u, cast, code.next>> : u \in Users(code, cast)}
     /\ remove' = remove \cup {cast}

\* A store is replaced by one of the pointer, to the location cast.
VisitStore ==
  /\ VisitsUser({"store"})
  /\ LET store == Head(todo)
         b == code.body[store].block
         cast == Instruction("bitcast", <<code.body[store].args[2]>>, b, None)
     IN /\ code' = Added(Added(code, cast),
                         Instruction("store", <<ptrLoad, code.next>>, b, store))
        /\ remove' = remove \cup {store}
  /\ UNCHANGED replace

\* Any other user gets the pointer cast back.
VisitOther ==
  /\ VisitsUser(Op \ {"inttoptr", "store"})
  /\ code' = Added(code, Instruction("ptrtoint", <<ptrLoad>>, block, None))
  /\ replace' = replace \cup {<<Head(todo), load, code.next>>}
  /\ UNCHANGED remove

\* Only now uses are replaced, then the replaced instructions are deleted.
FinishLoad ==
  /\ phase = "users"
  /\ todo = <<>>
  /\ LET replaced == FoldLeft(LAMBDA c, r : Replaced(c, r[1], r[2], r[3]),
                              code, SetToSeq(replace))
     IN code' = FoldLeft(Removed, replaced, SetToSeq(remove \cup {load}))
  /\ replace' = {} /\ remove' = {}
  /\ phase' = "loads"
  /\ UNCHANGED <<program, block, loads, stores, load, ptrLoad, todo>>

LoadsDone ==
  /\ phase = "loads"
  /\ loads = {}
  /\ phase' = "stores"
  /\ UNCHANGED <<program, code, block, loads, stores, transformation>>

\* transformObfuscatedStore asserts that the value is no load and only
\* changes stores of a cast pointer. These were never found.
TransformObfuscatedStore ==
  /\ phase = "stores"
  /\ \E e \in stores :
       /\ stores' = stores \ {e}
       /\ phase' = IF e.op = "load" THEN "aborted" ELSE "stores"
       /\ code' =
            IF e.op = "ptrtoint" THEN
              LET cast == Instruction("bitcast", <<code.body[e.store].args[2]>>, block, None)
                  new == Instruction("store", <<code.body[e.val].args[1], code.next>>,
                                     block, e.store)
              IN Removed(Added(Added(code, cast), new), e.store)
            ELSE code
  /\ UNCHANGED <<program, block, loads, transformation>>

NextBlock ==
  /\ phase = "stores"
  /\ stores = {}
  /\ phase' = IF block = Blocks THEN "done" ELSE "scan"
  /\ block' = IF block = Blocks THEN block ELSE block + 1
  /\ UNCHANGED <<program, code, loads, stores, transformation>>

Init ==
  /\ program \in Programs
  /\ code = CodeOf(program)
  /\ block = 1 /\ phase = "scan"
  /\ loads = {} /\ stores = {} /\ replace = {} /\ remove = {}
  /\ load = None /\ ptrLoad = None /\ todo = <<>>

Next ==
  \/ ScanBlock
  \/ TransformObfuscatedLoad
  \/ VisitIntToPtr
  \/ VisitStore
  \/ VisitOther
  \/ FinishLoad
  \/ LoadsDone
  \/ TransformObfuscatedStore
  \/ NextBlock

Spec == Init /\ [][Next]_vars

-----------------------------------------------------------------------------
(***************************************************************************)
(* Properties. While users are visited the code is in between.         *)
(***************************************************************************)

AtRest == phase # "users"

\* Every list of users matches the operands, and what is left to be done is
\* in the code.
TypeOK ==
  /\ block \in 1 .. Blocks
  /\ phase \in {"scan", "loads", "users", "stores", "done", "aborted"}
  /\ \A i \in DOMAIN code.body : /\ i < code.next
                                  /\ code.body[i].op \in Op
  /\ \A v \in DOMAIN code.body : \A u \in DOMAIN code.body :
       Cardinality({n \in DOMAIN code.users[v] : code.users[v][n] = u})
         = Cardinality({k \in DOMAIN code.body[u].args : code.body[u].args[k] = v})
  /\ loads \cup remove \cup ToSet(todo) \subseteq DOMAIN code.body

\* What a value is: casts do not change it, and a load is told by its place
\* and what it reads from.
Values(c) ==
  LET value[v \in DOMAIN c.body \cup External] ==
        IF v \in External THEN <<v>>
        ELSE LET ins == c.body[v] IN
             CASE ins.op \in {"load", "fload", "ptrload"} ->
                    <<"read", ins.for, value[ins.args[1]]>>
               [] ins.op \in {"inttoptr", "ptrtoint", "bitcast"} -> value[ins.args[1]]
               [] ins.op = "phi" ->
                    <<"phi", ins.for, [k \in DOMAIN ins.args |-> value[ins.args[k]]]>>
               [] OTHER -> <<"result", ins.for>>
  IN value

\* Nothing is left that uses what was deleted ("This load should have no more
\* users", 619).
NothingDangles ==
  \A i \in DOMAIN code.body :
    ToSet(code.body[i].args) \subseteq DOMAIN code.body \cup External

\* Each store and each other user of a value is there once, and gets the
\* same values as before ("It is not complete, but hopefully sound", 659); no
\* user of anything that was deleted is left.
ValuesArePreserved ==
  AtRest =>
    NothingDangles /\
    LET before == Values(CodeOf(program))
        now == Values(code)
    IN \A i \in DOMAIN program : program[i].op \in {"store", "use"} =>
         \E j \in DOMAIN code.body :
           /\ {k \in DOMAIN code.body : code.body[k].for = i} = {j}
           /\ [k \in DOMAIN program[i].args |-> now[code.body[j].args[k]]]
                = [k \in DOMAIN program[i].args |-> before[program[i].args[k]]]

\* In the end every pointer is loaded as one: rewriting later blocks leaves
\* no load of an earlier one that should be rewritten.
LoadsAreDeobfuscated ==
  phase = "done" => \A l \in DOMAIN code.body : code.body[l].op = "load" =>
                      ~ValCastedBeforeLoad(code, l) /\ ~ValIsActuallyPtr(code, l)

\* Stores of v, as it is or cast between integers.
StoresOf(v) ==
  LET source[w \in DOMAIN program] ==
        IF program[w].op = "bitcast" THEN source[program[w].args[1]] ELSE w
  IN {s \in DOMAIN program : program[s].op = "store" /\ source[program[s].args[1]] = v}

\* An assertion fails only when a load is stored twice in a block or stored
\* in a block before its own, or when a floating point value is stored as an
\* integer.
AbortsAreExplained ==
  phase = "aborted" =>
    \E l \in DOMAIN program : \E s \in StoresOf(l) :
      \/ program[l].op = "fload"
      \/ program[s].block < program[l].block
      \/ \E t \in StoresOf(l) \ {s} : program[s].block = program[t].block

\* "Load/Store pattern should already be replaced" (638).
LoadStorePatternIsReplaced ==
  phase = "stores" => \A e \in stores : e.op # "load"
=============================================================================
