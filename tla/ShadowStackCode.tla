---------------------------- MODULE ShadowStackCode ----------------------------
(***************************************************************************)
(* The code by which SoftBound passes the bounds of pointer arguments and  *)
(* returned pointers on a shadow stack: what is inserted, where, and which *)
(* slots it uses.                                                          *)
(*   lib/instrumentation_mechanisms/SoftBoundMechanism.cpp 141-230,        *)
(*   302-336, 918-943, 972-1056, 1513-1744, 1967-2008                      *)
(*   lib/instrumentation_policies/PointerBoundsPolicy.cpp                  *)
(*   lib/witness_strategies/AfterInflowStrategy.cpp 155-194, 299-421       *)
(* A function is [params, ret, body]. Its body is one list of instructions *)
(* (a branch skips to behind the next return), a value is the argument or  *)
(* instruction that defines it, and a type the sequence of its elements,   *)
(* "p" for a pointer and "i" for anything else; no type is an aggregate of *)
(* aggregates, which insertvalue and isNested report.                      *)
(***************************************************************************)
EXTENDS Integers, Sequences, FiniteSets

Arg(j) == [kind |-> "arg", at |-> j]
Inst(i) == [kind |-> "inst", at |-> i]
Global == [kind |-> "global", at |-> 0]
NoPointer == [kind |-> "int", at |-> 0]

IsPointer(o) == o.kind # "int"

\* The undefined aggregate that instruction i inserts into.
Undef(i) == [kind |-> "undef", at |-> i]

Type(elems) == [array |-> FALSE, elems |-> elems]
Pointer == Type(<<"p">>)
Integer == Type(<<"i">>)

ResultType(ins) ==
  CASE ins.op = "call" -> ins.ret
    [] ins.op \in {"select", "insert"} -> ins.ty
    [] ins.op = "extract" -> Pointer

TypeOf(F, o) ==
  CASE o.kind = "arg" -> Type(<<F.params[o.at]>>)
    [] o.kind = "inst" -> ResultType(F.body[o.at])
    [] o.kind = "undef" -> F.body[o.at].ty
    [] o.kind = "global" -> Pointer
    [] o.kind = "int" -> Integer

\* The members of a finite set of numbers in ascending order.
Ascending(S) ==
  [n \in 1 .. Cardinality(S) |->
     CHOOSE k \in S : Cardinality({j \in S : j < k}) = n - 1]

-----------------------------------------------------------------------------
(* Slots: returned pointers first, then the pointer arguments.              *)

PointersIn(ty) == {k \in DOMAIN ty.elems : ty.elems[k] = "p"}

\* determineNumberOfPointers; of an array, every element counts.
NumberOfPointers(ty) ==
  Cardinality({k \in DOMAIN ty.elems : ty.array \/ ty.elems[k] = "p"})

\* computeIndices: the n-th slot is for the element at the n-th index.
ComputeIndices(ty) == Ascending(PointersIn(ty))

\* Mutation: the slots of the returned pointers are not skipped.
ArgumentSlotFirst(F, j) == Cardinality({i \in 1 .. j - 1 : F.params[i] = "p"})

\* computeShadowStackLocation in the callee, and at the call.
ArgumentSlot(F, j) ==
  NumberOfPointers(F.ret) + Cardinality({i \in 1 .. j - 1 : F.params[i] = "p"})

CallSlot(call, j) ==
  NumberOfPointers(call.ret) + Cardinality({i \in 1 .. j - 1 : IsPointer(call.args[i])})

\* computeSizeShadowStack
FrameSize(call) ==
  NumberOfPointers(call.ret)
    + Cardinality({i \in DOMAIN call.args : IsPointer(call.args[i])})

-----------------------------------------------------------------------------
(* Which witnesses are needed                                               *)

PointerArguments(call) == {j \in DOMAIN call.args : IsPointer(call.args[j])}

\* isNested reports arrays of pointers instead of arrays of arrays.
IsNested(ty) == ty.array /\ PointersIn(ty) # {}
ContainsPointer(ty) == PointersIn(ty) # {}

\* insertInvariantTargetAggregate and insertInvariantTargetReturn
NeedsOfReturn(F, val) == IF ContainsPointer(F.ret) THEN <<val>> ELSE <<>>

\* addCallTargets, the targets that need witnesses
NeedsOfCall(call) ==
  LET pointers == Ascending(PointerArguments(call)) IN
  [n \in DOMAIN pointers |-> call.args[pointers[n]]]

\* insertInvariantTargetInsertVal
NeedsOfInsert(val) == IF IsPointer(val) THEN <<val>> ELSE <<>>

\* The values whose witnesses the targets of an instruction need.
Needs(F, ins) ==
  CASE ins.op = "access" -> <<ins.val>>
    [] ins.op = "call" -> NeedsOfCall(ins)
    [] ins.op = "ret" -> NeedsOfReturn(F, ins.val)
    [] ins.op = "insert" -> NeedsOfInsert(ins.val)
    [] OTHER -> <<>>

\* The pass ends with an error for any other function.
IsSupported(F) ==
  \A i \in DOMAIN F.body : F.body[i].op = "ret" => ~IsNested(F.ret)

\* The values that the witness of an instruction is made from (addRequired).
Uses(F, o) ==
  IF o.kind # "inst" THEN <<>>
  ELSE LET ins == F.body[o.at] IN
       CASE ins.op = "select" -> <<ins.yes, ins.no>>
         [] ins.op = "extract" -> <<ins.val>>
         [] ins.op = "insert" -> IF IsPointer(ins.val) THEN <<ins.agg, ins.val>>
                                                          ELSE <<ins.agg>>
         [] OTHER -> <<>>

-----------------------------------------------------------------------------
(* Witnesses. A register holds the bounds of one pointer of a value.        *)

Register(o, k) == [of |-> o, k |-> k]

Sources(ty, o) == [k \in PointersIn(ty) |-> Register(o, k)]

\* The witness of an instruction, by the index of the pointer, from the
\* witnesses w that there are.
InstructionWitness(F, w, o) ==
  LET ins == F.body[o.at] IN
  CASE ins.op = "call" -> Sources(ins.ret, o)
    [] ins.op = "select" -> [k \in DOMAIN w[ins.yes] |-> Register(o, k)]
    [] ins.op = "extract" -> [k \in {1} |-> w[ins.val][ins.k]]
    [] ins.op = "insert" ->
         IF IsPointer(ins.val)
           THEN [k \in DOMAIN w[ins.agg] \cup {ins.k} |->
                   IF k = ins.k THEN w[ins.val][1] ELSE w[ins.agg][k]]
           ELSE w[ins.agg]

Witness(F, w, o) ==
  IF o.kind = "inst" THEN InstructionWitness(F, w, o) ELSE Sources(TypeOf(F, o), o)

-----------------------------------------------------------------------------
(* Inserted code                                                            *)

Load(r, slot) == [op |-> "load", reg |-> r, slot |-> slot]
Store(r, slot) == [op |-> "store", reg |-> r, slot |-> slot]
Choice(r, yes, no) == [op |-> "choice", reg |-> r, yes |-> yes, no |-> no]
Allocate(size) == [op |-> "alloc", size |-> size]
Deallocate == [op |-> "dealloc"]

InsertBefore(c, i, items) == [c EXCEPT ![i] = @ \o items]

\* Arguments are loaded at the entry, what a call returns before the
\* instruction after it, bounds are chosen right before a select.
Location(F, o) ==
  CASE o.kind = "inst" /\ F.body[o.at].op = "call" -> o.at + 1
    [] o.kind = "inst" /\ F.body[o.at].op = "select" -> o.at
    [] OTHER -> 1

LoadsOfCall(o, ty) ==
  LET indices == ComputeIndices(ty) IN
  [n \in DOMAIN indices |-> Load(Register(o, indices[n]), n - 1)]

\* getWitnessSelect; a select gets new choices at every use, which all
\* choose the same bounds: the first ones stand for all.
GetWitnessSelect(o, yes, no) ==
  LET indices == Ascending(DOMAIN yes) IN
  [n \in DOMAIN indices |-> Choice(Register(o, indices[n]),
                                   yes[indices[n]], no[indices[n]])]

\* Other values need no code.
WitnessCode(F, w, o) ==
  CASE o.kind = "arg" -> <<Load(Register(o, 1), ArgumentSlot(F, o.at))>>
    [] o.kind = "inst" /\ F.body[o.at].op = "call" ->
         LoadsOfCall(o, F.body[o.at].ret)
    [] o.kind = "inst" /\ F.body[o.at].op = "select" ->
         GetWitnessSelect(o, w[F.body[o.at].yes], w[F.body[o.at].no])
    [] OTHER -> <<>>

\* Mutation: not even the loads right behind the call are skipped.
GetLastMDLocationHere(items) == 0

\* getLastMDLocation: how many loads come right behind the call.
GetLastMDLocation(items) ==
  CHOOSE q \in 0 .. Len(items) :
    /\ \A r \in 1 .. q : items[r].op = "load"
    /\ q < Len(items) => items[q + 1].op # "load"

DeallocatedBehindLoads(items) ==
  LET last == GetLastMDLocation(items) IN
  SubSeq(items, 1, last) \o <<Deallocate>> \o SubSeq(items, last + 1, Len(items))

\* Mutation: a frame is only deallocated if something was loaded from it.
HandleShadowStackAllocationLoaded(c, i, size) ==
  [c EXCEPT ![i] = Append(@, Allocate(size)),
            ![i + 1] = IF GetLastMDLocation(@) = 0 THEN @ ELSE DeallocatedBehindLoads(@)]

HandleShadowStackAllocation(c, i, size) ==
  [c EXCEPT ![i] = Append(@, Allocate(size)),
            ![i + 1] = DeallocatedBehindLoads(@)]

StoresOfCall(w, call) ==
  LET pointers == Ascending(PointerArguments(call)) IN
  [n \in DOMAIN pointers |-> Store(w[call.args[pointers[n]]][1],
                                   CallSlot(call, pointers[n]))]

\* handleCallInvariant: the stores come between allocation and call.
HandleCallInvariant(F, w, c, i) ==
  LET call == F.body[i] IN
  InsertBefore(IF FrameSize(call) = 0 THEN c
               ELSE HandleShadowStackAllocation(c, i, FrameSize(call)),
               i, StoresOfCall(w, call))

StoresOfReturn(F, w, val) ==
  LET indices == ComputeIndices(F.ret) IN
  [n \in DOMAIN indices |-> Store(w[val][indices[n]], n - 1)]

\* handleInvariant for calls and returns.
Handled(F, w, c, i) ==
  CASE F.body[i].op = "call" -> HandleCallInvariant(F, w, c, i)
    [] F.body[i].op = "ret" ->
         InsertBefore(c, i, StoresOfReturn(F, w, F.body[i].val))
    [] OTHER -> c

=============================================================================
