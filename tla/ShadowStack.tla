------------------------------ MODULE ShadowStack ------------------------------
(***************************************************************************)
(* A program is instrumented and runs: functions call each other and pass  *)
(* the bounds of pointers on the shadow stack. A pointer is represented by *)
(* the object that it was derived from, and so are bounds: bounds are      *)
(* right if they are those of the pointer's own object.                    *)
(*   lib/instrumentation_mechanisms/SoftBoundMechanism.cpp, as in          *)
(*   ShadowStackCode; include/meminstrument/instrumentation_mechanisms/    *)
(*   softbound/RunTimeHandles.h 39-48 for the operations of the run-time.  *)
(***************************************************************************)
EXTENDS ShadowStackPass

CONSTANTS
  Main,      \* the function that the run-time starts
  Object,    \* objects that pointers are derived from
  GlobalObject, NullObject, NoObject,
  Stale,     \* what a new frame holds
  MaxDepth   \* active calls at most

ASSUME ObjectAssumption ==
  /\ GlobalObject \in Object /\ NullObject \in Object
  /\ NoObject \notin Object /\ Stale \notin Object
ASSUME DepthAssumption == MaxDepth \in Nat \ {0}

-----------------------------------------------------------------------------
(* Programs are well-formed, as LLVM's verifier demands.                    *)

\* Whenever instruction j is executed, i was before: only a branch leads
\* behind a return, from anywhere up to that return.
Dominates(F, i, j) ==
  /\ i < j
  /\ \A b \in 1 .. i - 1, r \in i .. j - 1 :
       F.body[b].op = "br" /\ F.body[r].op = "ret" =>
         \E q \in b .. i - 1 : F.body[q].op = "ret"

\* A value that instruction i may use. Whatever is neither a pointer nor an
\* aggregate is NoPointer.
Produces(ins) ==
  ins.op \in {"call", "select", "extract", "insert"} /\ ResultType(ins) # Integer

IsValue(F, o, i) ==
  \/ o \in {Global, NoPointer}
  \/ \E j \in DOMAIN F.params : o = Arg(j) /\ F.params[j] = "p"
  \/ \E d \in 1 .. i - 1 : o = Inst(d) /\ Produces(F.body[d]) /\ Dominates(F, d, i)

IsValueOf(F, o, i, ty) == IsValue(F, o, i) /\ TypeOf(F, o) = ty

ElementType == {"p", "i"}
IsType(ty) ==
  /\ ty = [array |-> ty.array, elems |-> ty.elems]
  /\ ty.array \in BOOLEAN
  /\ ty.elems \in Seq(ElementType) \ {<<>>}

IsInstruction(p, F, i) ==
  LET ins == F.body[i] IN
  CASE ins.op = "access" -> IsValueOf(F, ins.val, i, Pointer)
    [] ins.op = "br" -> \E r \in i + 1 .. Len(F.body) - 1 : F.body[r].op = "ret"
    [] ins.op = "ret" -> IsValueOf(F, ins.val, i, F.ret)
    [] ins.op = "select" ->
         /\ IsType(ins.ty)
         /\ IsValueOf(F, ins.yes, i, ins.ty) /\ IsValueOf(F, ins.no, i, ins.ty)
    [] ins.op = "extract" ->
         /\ IsValue(F, ins.val, i)
         /\ ins.k \in PointersIn(TypeOf(F, ins.val))
    [] ins.op = "insert" ->
         /\ IsType(ins.ty)
         /\ ins.agg = Undef(i) \/ IsValueOf(F, ins.agg, i, ins.ty)
         /\ ins.k \in DOMAIN ins.ty.elems
         /\ IsValueOf(F, ins.val, i, Type(<<ins.ty.elems[ins.k]>>))
    [] ins.op = "call" ->
         /\ ins.fun \in Function /\ ins.ret = p[ins.fun].ret
         /\ DOMAIN ins.args = DOMAIN p[ins.fun].params
         /\ \A j \in DOMAIN ins.args :
              IsValueOf(F, ins.args[j], i, Type(<<p[ins.fun].params[j]>>))
    [] OTHER -> FALSE

\* A function ends with a return. Wrappers return a pointer.
IsFunction(p, F) ==
  /\ F.params \in Seq(ElementType) /\ IsType(F.ret)
  /\ Len(F.body) \in Nat /\ DOMAIN F.body = 1 .. Len(F.body)
  /\ IF F.body = <<>> THEN F.ret = Pointer
     ELSE /\ F.body[Len(F.body)].op = "ret"
          /\ \A i \in DOMAIN F.body : IsInstruction(p, F, i)

\* The run-time passes pointers to Main only.
ASSUME ProgramAssumption ==
  /\ Main \in Function
  /\ \A p \in Programs :
       /\ \A f \in Function : IsFunction(p, p[f])
       /\ p[Main].body # <<>>
       /\ NumberOfPointers(p[Main].ret) = 0
       /\ \A j \in DOMAIN p[Main].params : p[Main].params[j] = "p"

-----------------------------------------------------------------------------
(* The program runs                                                         *)

VARIABLES
  stack,  \* the active calls, innermost first
  shadow  \* the frames of the shadow stack, innermost first

vars == <<passVars, stack, shadow>>

Top == stack[1]
Fun(act) == prog[act.fun]
Instruction(act) == Fun(act).body[act.at]

\* What was inserted before the instruction, and the next of it.
Inserted(act) == code[act.fun][act.at]
Item(act) == Inserted(act)[act.done + 1]

IsRunning == step = "done" /\ stack # <<>>
Running(op) == IsRunning /\ Top.done < Len(Inserted(Top)) /\ Item(Top).op = op
Executes(op) == IsRunning /\ Top.done = Len(Inserted(Top)) /\ Instruction(Top).op = op

\* Activation of f: one condition decides all its branches and selects.
Activation(f, args, cond) ==
  [fun |-> f, at |-> 1, done |-> 0, args |-> args, cond |-> cond,
   val |-> <<>>, wit |-> <<>>]

\* The elements of a value and the bounds in a register.
ValueOf(act, o) ==
  CASE o.kind = "arg" -> <<act.args[o.at]>>
    [] o.kind = "inst" -> act.val[o.at]
    [] o.kind = "global" -> <<GlobalObject>>
    [] o.kind = "int" -> <<NoObject>>

BoundsIn(act, r) ==
  CASE r.of.kind = "global" -> GlobalObject
    [] r.of.kind = "undef" -> NullObject
    [] OTHER -> act.wit[r]

Goes(act) == stack' = <<act>> \o Tail(stack)

\* The innermost activation behind the inserted code that it executes, and
\* behind its instruction.
Behind == [Top EXCEPT !.done = @ + 1]
Next1(act) == [act EXCEPT !.at = @ + 1, !.done = 0]

\* An activation after its instruction produced the elements.
Produced(act, elems) == [Next1(act) EXCEPT !.val = Updated(@, act.at, elems)]

Loaded(r, bounds) == [Behind EXCEPT !.wit = Updated(@, r, bounds)]

(* Inserted calls of the run-time *)

AllocateShadowStack ==
  /\ Running("alloc")
  /\ shadow' = <<[slot \in 0 .. Item(Top).size - 1 |-> Stale]>> \o shadow
  /\ Goes(Behind)
  /\ UNCHANGED passVars

DeallocateShadowStack ==
  /\ Running("dealloc")
  /\ shadow # <<>>
  /\ shadow' = Tail(shadow)
  /\ Goes(Behind)
  /\ UNCHANGED passVars

\* The slot is one of the frame, so far as FramesMatchCalls holds.
Slot == Item(Top).slot
SlotExists == shadow # <<>> /\ Slot \in DOMAIN shadow[1]

StoreShadowStack ==
  /\ Running("store")
  /\ SlotExists
  /\ shadow' = [shadow EXCEPT ![1] = [@ EXCEPT ![Slot] = BoundsIn(Top, Item(Top).reg)]]
  /\ Goes(Behind)
  /\ UNCHANGED passVars

LoadShadowStack ==
  /\ Running("load")
  /\ SlotExists
  /\ Goes(Loaded(Item(Top).reg, shadow[1][Slot]))
  /\ UNCHANGED <<passVars, shadow>>

ChooseWitness ==
  /\ Running("choice")
  /\ Goes(Loaded(Item(Top).reg,
                 BoundsIn(Top, IF Top.cond THEN Item(Top).yes ELSE Item(Top).no)))
  /\ UNCHANGED <<passVars, shadow>>

(* Instructions of the program *)

Access ==
  /\ Executes("access")
  /\ Goes(Next1(Top))
  /\ UNCHANGED <<passVars, shadow>>

\* The branch is not taken, or skips the code up to the next return.
Branch ==
  /\ Executes("br")
  /\ LET returns == {r \in Top.at .. Len(Fun(Top).body) : Fun(Top).body[r].op = "ret"}
         next == CHOOSE r \in returns : \A q \in returns : r <= q
     IN Goes(Next1(IF Top.cond THEN [Top EXCEPT !.at = next] ELSE Top))
  /\ UNCHANGED <<passVars, shadow>>

Select ==
  /\ Executes("select")
  /\ LET ins == Instruction(Top) IN
     Goes(Produced(Top, ValueOf(Top, IF Top.cond THEN ins.yes ELSE ins.no)))
  /\ UNCHANGED <<passVars, shadow>>

ExtractValue ==
  /\ Executes("extract")
  /\ LET ins == Instruction(Top) IN
     Goes(Produced(Top, <<ValueOf(Top, ins.val)[ins.k]>>))
  /\ UNCHANGED <<passVars, shadow>>

InsertValue ==
  /\ Executes("insert")
  /\ LET ins == Instruction(Top)
         agg == IF ins.agg.kind = "undef" THEN [k \in DOMAIN ins.ty.elems |-> NullObject]
                                          ELSE ValueOf(Top, ins.agg)
     IN Goes(Produced(Top, [agg EXCEPT ![ins.k] = ValueOf(Top, ins.val)[1]]))
  /\ UNCHANGED <<passVars, shadow>>

Callee == Instruction(Top).fun

\* A branch of the new activation is decided by `cond'.
Call ==
  /\ Executes("call")
  /\ prog[Callee].body # <<>>
  /\ Len(stack) < MaxDepth
  /\ \E cond \in BOOLEAN :
       LET args == Instruction(Top).args IN
       stack' = <<Activation(Callee, [j \in DOMAIN args |-> ValueOf(Top, args[j])[1]],
                             cond)>> \o stack
  /\ UNCHANGED <<passVars, shadow>>

\* A wrapped library function returns a pointer and stores its bounds.
CallWrapper ==
  /\ Executes("call")
  /\ prog[Callee].body = <<>>
  /\ shadow # <<>>
  /\ \E o \in Object \ {NullObject} :
       /\ shadow' = [shadow EXCEPT ![1] = [@ EXCEPT ![0] = o]]
       /\ Goes(Produced(Top, <<o>>))
  /\ UNCHANGED passVars

\* The caller goes on behind its call.
Return ==
  /\ Executes("ret")
  /\ stack' = IF Len(stack) = 1 THEN <<>>
              ELSE <<Produced(stack[2], ValueOf(Top, Instruction(Top).val))>>
                     \o SubSeq(stack, 3, Len(stack))
  /\ UNCHANGED <<passVars, shadow>>

\* The run-time calls Main with a frame for its arguments.
Started(cond, args) ==
  /\ stack = <<Activation(Main, args, cond)>>
  /\ shadow = <<[slot \in 0 .. Len(args) - 1 |-> args[slot + 1]]>>

Init ==
  /\ PassInit
  /\ \E cond \in BOOLEAN,
        args \in [DOMAIN prog[Main].params -> Object \ {GlobalObject, NullObject}] :
       Started(cond, args)

Next ==
  \/ PassNext /\ UNCHANGED <<stack, shadow>>
  \/ AllocateShadowStack
  \/ DeallocateShadowStack
  \/ StoreShadowStack
  \/ LoadShadowStack
  \/ ChooseWitness
  \/ Access
  \/ Branch
  \/ Select
  \/ ExtractValue
  \/ InsertValue
  \/ Call
  \/ CallWrapper
  \/ Return

Spec == Init /\ [][Next]_vars

-----------------------------------------------------------------------------
(***************************************************************************)
(* Properties.                                                             *)
(***************************************************************************)

\* The active calls stay within their code. A slot is filled with the bounds
\* of some object or stale, and no frame but that of the run-time is empty.
TypeOK ==
  /\ Len(stack) <= MaxDepth
  /\ \A a \in DOMAIN stack :
       /\ stack[a].at \in DOMAIN Fun(stack[a]).body
       /\ stack[a].done \in 0 .. Len(Inserted(stack[a]))
  /\ \A d \in DOMAIN shadow : \A slot \in DOMAIN shadow[d] :
       shadow[d][slot] \in Object \cup {Stale}
  /\ \A d \in 1 .. Len(shadow) - 1 : DOMAIN shadow[d] # {}

\* The bounds in a register are those of the pointer's own object: none was
\* read before it was written, from another frame or for another argument.
\* Where memory is accessed there are bounds for the pointer.
WitnessesAreRight ==
  /\ \A a \in DOMAIN stack : \A r \in DOMAIN stack[a].wit :
       LET act == stack[a] IN
       r.of.kind = "arg" \/ r.of.at \in DOMAIN act.val
         => act.wit[r] = ValueOf(act, r.of)[r.k]
  /\ Executes("access") =>
       LET val == Instruction(Top).val IN
       BoundsIn(Top, made[Top.fun][val][1]) = ValueOf(Top, val)[1]

\* When a function is entered, the innermost frame holds the bounds of its
\* pointer arguments in the slots that it will read ("To avoid flaws in the
\* shadow stack location computation, these functions provides a consistent
\* look up of the correct index", SoftBoundMechanism.h 246-247).
IsEntered == stack # <<>> /\ Top.at = 1 /\ Top.done = 0

ArgumentsArePassed ==
  IsEntered =>
    \A j \in DOMAIN Top.args : Fun(Top).params[j] = "p" =>
      /\ shadow # <<>>
      /\ ArgumentSlot(Fun(Top), j) \in DOMAIN shadow[1]
      /\ shadow[1][ArgumentSlot(Fun(Top), j)] = Top.args[j]

\* A call passes pointers one way or the other.
PassesPointers(call) ==
  NumberOfPointers(call.ret) > 0 \/ PointerArguments(call) # {}

\* On entry and on return there is one frame for each call further out that
\* passes pointers, and the one of the run-time: a return never stores into
\* a frame of its own calls, and no call leaks one. What is loaded or stored
\* in between lies within the innermost frame.
FramesMatchCalls ==
  /\ IsEntered \/ Executes("ret") =>
       Len(shadow) =
         1 + Cardinality({a \in 2 .. Len(stack) :
                            PassesPointers(Instruction(stack[a]))})
  /\ Running("load") \/ Running("store") => SlotExists

\* "The shadow stack load should be right after the call" (796): nothing but
\* other loads is between a call and the loads of what it returned.
LoadsAreRightAfterTheCall ==
  \A f \in Function : \A i \in DOMAIN code[f] \ {1} : \A k \in DOMAIN code[f][i] :
    code[f][i][k].op = "load" => \A q \in 1 .. k - 1 : code[f][i][q].op = "load"
=============================================================================
