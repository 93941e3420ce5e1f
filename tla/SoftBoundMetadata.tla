-------------------------- MODULE SoftBoundMetadata --------------------------
(***************************************************************************)
(* The bounds of pointers that are in memory. A program that SoftBound has *)
(* instrumented keeps bounds of every pointer in a register beside it, and *)
(* bounds of a pointer in memory in a table of the run-time, by the        *)
(* address of the pointer. A step is an instruction of the program with    *)
(* the code inserted for it: checks go in front of an instruction, stores, *)
(* loads and copies of bounds right behind it.                             *)
(*   lib/instrumentation_mechanisms/SoftBoundMechanism.cpp                 *)
(* Addresses count words; a word holds a pointer or an integer.            *)
(***************************************************************************)
EXTENDS Integers

CONSTANTS
  Object,    \* pieces of memory
  Local,     \* those that an alloca makes
  Unsized,   \* arrays declared without a size
  Function,
  Start, Size,  \* where objects and functions are; Size is that of objects
  Element,   \* the size of one element of a Local, which may be an array of a
             \* size that is computed
  Highest,   \* determineHighestValidAddress
  Sources,   \* the modules that may be compiled
  Register,
  Word,      \* the integers that programs compute
  Shift,     \* by how much they shift pointers
  MaxLength, \* words that memcpy and memset cover at most
  MaxSteps   \* instructions that a program executes at most

\* What pointers have that belong to nothing: null (or undef), an integer that
\* an instruction or an initializer casts, one that is cast by a constant in an
\* instruction, and a word that was not written as a pointer, whoever reads it
\* as a pointer later.
Objectless == {"null", "cast", "literal", "integer"}

ASSUME LayoutAssumption ==
  /\ Local \subseteq Object /\ Unsized \subseteq Object
  /\ Local \cap Unsized = {} /\ Object \cap Function = {}
  /\ Objectless \cap (Object \cup Function) = {}
  /\ Highest \in Nat /\ Word \subseteq 0 .. Highest /\ Shift \subseteq Int
  /\ MaxLength \in Nat \ {0} /\ MaxSteps \in Nat
  /\ Start \in [Object \cup Function -> 1 .. Highest]
  /\ Size \in [Object -> Nat \ {0}]
  /\ \A o \in Object : Start[o] + Size[o] <= Highest
  /\ \A o \in Local : Element[o] \in 1 .. Size[o]

\* What a pointer was derived from.
Origin == Object \cup Function \cup Objectless
Address == 0 .. Highest
Value == [of : Origin, at : Address]
Integer(a) == [of |-> "integer", at |-> a]

Bounds == [lo : Address, hi : Address]
Between(l, h) == [lo |-> l, hi |-> h]
NoBounds == Between(-1, -1)   \* two null pointers of the pass itself

\* The words of objects.
Memory == UNION {Start[o] .. Start[o] + Size[o] - 1 : o \in Object}

Handling == {"Disallow", "NullBounds", "WideBounds"}

\* The constants of a module: a base, possibly shifted, with the address it
\* stands for. "data" is no pointer. An initializer gives constants to words;
\* "code" are the constants in instructions, "casts" says whether there is
\* an inttoptr instruction.
Constant == [kind : {"object", "function", "null", "undef", "inttoptr", "data"},
             of : Origin, at : Address]

ASSUME SourceAssumption ==
  \A s \in Sources :
    /\ DOMAIN s.init \subseteq Memory
    /\ \A a \in DOMAIN s.init : s.init[a] \in Constant
    /\ s.code \subseteq Constant /\ s.casts \in BOOLEAN
    /\ \A c \in s.code \cup {s.init[a] : a \in DOMAIN s.init} :
         /\ c.kind = "object" => c.of \in Object \ Local
         /\ c.kind = "function" => c.of \in Function
         /\ c.kind \in {"null", "undef"} => c.of = "null"
         /\ c.kind = "data" => c.of = "integer"
    /\ \A c \in s.code :
         c.kind # "data" /\ (c.kind = "inttoptr" => c.of = "literal")
    /\ \A a \in DOMAIN s.init : s.init[a].kind = "inttoptr" => s.init[a].of = "cast"

VARIABLES
  source, intToPtr, zeroSized,  \* the module, and the options; never change
  pc,     \* "compile", then "run" until the program is refused, reported or
          \* crashes
  steps,  \* instructions executed
  mem,    \* the words of memory
  table,  \* the bounds that the run-time has for each word
  reg, wit, \* pointers in registers, and their witnesses
  fault     \* the access or call that stopped the program

vars == <<source, intToPtr, zeroSized, pc, steps, mem, table, reg, wit, fault>>
compiled == <<source, intToPtr, zeroSized>>

-----------------------------------------------------------------------------
(* Bounds of constants *)

GetNullPtrBounds == Between(0, 0)
GetWideBounds == Between(0, Highest)

GetBoundsForIntToPtrCast ==
  CASE intToPtr = "Disallow" -> NoBounds
    [] intToPtr = "NullBounds" -> GetNullPtrBounds
    [] intToPtr = "WideBounds" -> GetWideBounds

\* Mutation: a wide lower bound as well.
GetBoundsForZeroSizedArrayBothSides(o) ==
  IF zeroSized = "WideBounds" THEN GetWideBounds ELSE Between(Start[o], Start[o])
GetBoundsForZeroSizedArray(o) ==
  CASE zeroSized = "Disallow" -> NoBounds
    [] zeroSized = "NullBounds" -> Between(Start[o], Start[o])
    [] zeroSized = "WideBounds" -> Between(Start[o], GetWideBounds.hi)

GetBoundsConst(o) ==
  IF o \in Unsized THEN GetBoundsForZeroSizedArray(o)
  ELSE Between(Start[o], Start[o] + Size[o])

\* One past the first element, also if there are more.
GetBoundsOfAlloca(o) == Between(Start[o], Start[o] + Element[o])

GetBoundsForFun(f) == Between(Start[f], Start[f])

\* Mutation: a shifted pointer begins its own object.
HandleInitializerAsItIs(c) ==
  CASE c.kind = "object" -> Between(c.at, Start[c.of] + Size[c.of])
    [] c.kind = "function" -> GetBoundsForFun(c.of)
    [] c.kind = "null" -> GetNullPtrBounds
    [] c.kind = "inttoptr" -> GetBoundsForIntToPtrCast
    [] c.kind \in {"undef", "data"} -> NoBounds

\* The bounds of a constant that an initializer puts in memory. Casts and
\* getelementptrs are looked through.
HandleInitializer(c) ==
  CASE c.kind = "object" -> GetBoundsConst(c.of)
    [] c.kind = "function" -> GetBoundsForFun(c.of)
    [] c.kind = "null" -> GetNullPtrBounds
    [] c.kind = "inttoptr" -> GetBoundsForIntToPtrCast
    [] c.kind \in {"undef", "data"} -> NoBounds

\* The same for a constant in an instruction.
GetBoundsForWitness(c) ==
  CASE c.kind = "object" -> GetBoundsConst(c.of)
    [] c.kind = "function" -> GetBoundsForFun(c.of)
    [] c.kind \in {"null", "undef", "inttoptr"} -> GetNullPtrBounds

\* checkModule, and the assertions that bounds are there.
Refused ==
  \/ intToPtr = "Disallow" /\ (source.casts \/ \E c \in source.code : c.kind = "inttoptr")
  \/ \E c \in source.code : GetBoundsForWitness(c) = NoBounds
  \/ \E a \in DOMAIN source.init :
       source.init[a].kind # "data" /\ HandleInitializer(source.init[a]) = NoBounds

ValueOf(c) == [of |-> c.of, at |-> c.at]

Init ==
  /\ source \in Sources /\ intToPtr \in Handling /\ zeroSized \in Handling
  /\ pc = "compile" /\ steps = 0
  /\ mem = [a \in Memory |-> IF a \in DOMAIN source.init THEN ValueOf(source.init[a])
                             ELSE Integer(0)]
  /\ table = [a \in Memory |-> GetNullPtrBounds]
  /\ reg = [r \in Register |-> Integer(0)]
  /\ wit = [r \in Register |-> GetNullPtrBounds]
  /\ fault = "none"

Refuse ==
  /\ pc = "compile" /\ Refused
  /\ pc' = "refused"
  /\ UNCHANGED <<compiled, steps, mem, table, reg, wit, fault>>

\* The constructor that the pass adds is the first code that runs.
SetUpGlobals ==
  /\ pc = "compile" /\ ~Refused
  /\ table' = [a \in Memory |-> IF a \in DOMAIN source.init /\ source.init[a].kind # "data"
                                  THEN HandleInitializer(source.init[a])
                                  ELSE table[a]]
  /\ pc' = "run"
  /\ UNCHANGED <<compiled, steps, mem, reg, wit, fault>>

-----------------------------------------------------------------------------
(* Pointers in registers *)

Executes == pc = "run" /\ steps < MaxSteps /\ steps' = steps + 1
Goes == pc' = pc /\ fault' = fault

Sets(r, value, bounds) ==
  /\ reg' = [reg EXCEPT ![r] = value]
  /\ wit' = [wit EXCEPT ![r] = bounds]
  /\ Goes /\ UNCHANGED <<compiled, mem, table>>

Alloca(r, o) ==
  /\ Executes
  /\ Sets(r, [of |-> o, at |-> Start[o]], GetBoundsOfAlloca(o))

UseConstant(r, c) ==
  /\ Executes
  /\ Sets(r, ValueOf(c), GetBoundsForWitness(c))

IntToPtr(r, a) ==
  /\ Executes /\ source.casts
  /\ Sets(r, [of |-> "cast", at |-> a], GetBoundsForIntToPtrCast)

\* A pointer derived from another one has its witness.
GetElementPtr(r, s, d) ==
  /\ Executes
  /\ reg[s].at + d \in Address
  /\ Sets(r, [reg[s] EXCEPT !.at = @ + d], wit[s])

-----------------------------------------------------------------------------
(* Accesses *)

\* The check of the run-time for n words behind the address a.
SpatialCheck(b, a, n) == b.lo <= a /\ a + n <= b.hi

\* "A call check ensures at run time that ptr=base=bound holds" (1242).
SpatialCallCheck(b, a) == a = b.lo /\ a = b.hi

Words(a, n) == a .. a + n - 1

\* What stops an access of n words through each of the registers of S.
Reported(S, n) == \E s \in S : ~SpatialCheck(wit[s], reg[s].at, n)
Crashes(S, n) == ~Reported(S, n) /\ \E s \in S : ~(Words(reg[s].at, n) \subseteq Memory)

\* What the program was about to do.
Fault(what, r, n) == [kind |-> what, ptr |-> reg[r], words |-> n]

Stop(S, n) ==
  /\ Executes
  /\ \E s \in S :
       /\ \/ Reported({s}, n) /\ pc' = "reported"
          \/ Crashes(S, n) /\ ~(Words(reg[s].at, n) \subseteq Memory) /\ pc' = "crashed"
       /\ fault' = Fault("access", s, n)
  /\ UNCHANGED <<compiled, mem, table, reg, wit>>

Accesses(S, n) == Executes /\ ~Reported(S, n) /\ ~Crashes(S, n)

Load(r, s) ==
  /\ Accesses({s}, 1)
  /\ Sets(r, mem[reg[s].at], table[reg[s].at])

\* Mutation: the access of a store of a pointer is not checked.
StoreUnchecked(r, s) ==
  /\ Executes /\ reg[s].at \in Memory
  /\ mem' = [mem EXCEPT ![reg[s].at] = reg[r]]
  /\ table' = [table EXCEPT ![reg[s].at] = wit[r]]
  /\ Goes /\ UNCHANGED <<compiled, reg, wit>>

\* handleInvariant inserts the store of the bounds.
Store(r, s) ==
  /\ Accesses({s}, 1)
  /\ mem' = [mem EXCEPT ![reg[s].at] = reg[r]]
  /\ table' = [table EXCEPT ![reg[s].at] = wit[r]]
  /\ Goes /\ UNCHANGED <<compiled, reg, wit>>

\* An integer is stored, perhaps one that was a pointer: no target, so the
\* bounds of what was there stay.
StoreInteger(s, a) ==
  /\ Accesses({s}, 1)
  /\ mem' = [mem EXCEPT ![reg[s].at] = Integer(a)]
  /\ Goes /\ UNCHANGED <<compiled, table, reg, wit>>

\* f with n elements from d on replaced by those from s on.
Copied(f, d, s, n) ==
  [a \in DOMAIN f |-> IF a \in Words(d, n) THEN f[a - d + s] ELSE f[a]]

\* Mutation: memory is copied and the table is not.
MemCpyOfWords(d, s, n) ==
  /\ Accesses({d, s}, n)
  /\ mem' = Copied(mem, reg[d].at, reg[s].at, n)
  /\ Goes /\ UNCHANGED <<compiled, table, reg, wit>>

MemCpy(d, s, n) ==
  /\ Accesses({d, s}, n)
  /\ mem' = Copied(mem, reg[d].at, reg[s].at, n)
  /\ table' = Copied(table, reg[d].at, reg[s].at, n)
  /\ Goes /\ UNCHANGED <<compiled, reg, wit>>

\* "TODO what if an in-memory pointer is overwritten here?" (1083)
MemSet(d, n, v) ==
  /\ Accesses({d}, n)
  /\ mem' = [a \in Memory |-> IF a \in Words(reg[d].at, n) THEN Integer(v) ELSE mem[a]]
  /\ Goes /\ UNCHANGED <<compiled, table, reg, wit>>

\* A call through a pointer. One that passes the check reaches a function.
CallPointer(r) ==
  /\ Executes
  /\ ~(SpatialCallCheck(wit[r], reg[r].at) /\ \E f \in Function : Start[f] = reg[r].at)
  /\ pc' = IF SpatialCallCheck(wit[r], reg[r].at) THEN "crashed" ELSE "reported"
  /\ fault' = Fault("call", r, 0)
  /\ UNCHANGED <<compiled, mem, table, reg, wit>>

Next ==
  \/ Refuse
  \/ SetUpGlobals
  \/ \E r \in Register, o \in Local : Alloca(r, o)
  \/ \E r \in Register, c \in source.code : UseConstant(r, c)
  \/ \E r \in Register, a \in Word : IntToPtr(r, a)
  \/ \E r, s \in Register, d \in Shift : GetElementPtr(r, s, d)
  \/ \E r, s \in Register : Load(r, s)
  \/ \E r, s \in Register : Store(r, s)
  \/ \E s \in Register, a \in Word : StoreInteger(s, a)
  \/ \E d, s \in Register, n \in 0 .. MaxLength : MemCpy(d, s, n)
  \/ \E d \in Register, n \in 0 .. MaxLength, v \in Word : MemSet(d, n, v)
  \/ \E r \in Register : CallPointer(r)
  \/ \E d, s \in Register, n \in 0 .. MaxLength : Stop({d, s}, n)

Spec == Init /\ [][Next]_vars

-----------------------------------------------------------------------------
(***************************************************************************)
(* Properties.                                                             *)
(***************************************************************************)

\* Pointers in registers and words in memory keep their types, and the
\* table has bounds for every word.
TypeOK ==
  /\ pc \in {"compile", "run", "refused", "reported", "crashed"}
  /\ mem \in [Memory -> Value] /\ reg \in [Register -> Value]
  /\ table \in [Memory -> Bounds] /\ wit \in [Register -> Bounds]

\* The bounds of what a pointer was derived from.
BoundsOfOrigin(o) ==
  IF o \in Function THEN GetBoundsForFun(o)
  ELSE IF o \in Local THEN GetBoundsOfAlloca(o) ELSE GetBoundsConst(o)

\* b are the bounds that a pointer like v has, wherever it comes from.
Fits(v, b) ==
  /\ v.of \in Object \cup Function => b = BoundsOfOrigin(v.of)
  /\ v.of \in {"null", "literal"} => b = GetNullPtrBounds
  /\ v.of = "cast" => b = GetBoundsForIntToPtrCast

\* The table has the bounds of every pointer in memory, and witnesses are
\* those of their pointers, whatever the program copied, overwrote or took
\* from initializers ("The bounds for in-memory pointer are loaded from a
\* separate data structure", 31).
MetadataIsRight ==
  pc = "run" => /\ \A a \in Memory : Fits(mem[a], table[a])
                /\ \A r \in Register : Fits(reg[r], wit[r])

\* Within memory of its own object.
Inside(v, n) == Start[v.of] <= v.at /\ v.at + n <= Start[v.of] + Size[v.of]

\* A check passes only for words of the object that the pointer was derived
\* from, and for all of them, but for computed array sizes. A call through a
\* pointer passes only for the function it was derived from.
ChecksAreExact ==
  pc = "run" =>
    \A r \in Register :
      /\ reg[r].of \in Object \ Unsized =>
           \A n \in 1 .. Highest :
             /\ SpatialCheck(wit[r], reg[r].at, n) => Inside(reg[r], n)
             /\ Inside(reg[r], n) /\ (reg[r].of \in Local => Element[reg[r].of] = Size[reg[r].of])
                  => SpatialCheck(wit[r], reg[r].at, n)
      /\ reg[r].of \in (Object \ Unsized) \cup Function =>
           (SpatialCallCheck(wit[r], reg[r].at)
              <=> reg[r].of \in Function /\ reg[r].at = Start[reg[r].of])

\* The reasons not to compile a module: "Don't even compile the program" (74,
\* 89), or an undefined pointer in memory.
Disallowed ==
  LET all == source.code \cup {source.init[a] : a \in DOMAIN source.init} IN
  \/ intToPtr = "Disallow" /\ (source.casts \/ \E c \in all : c.kind = "inttoptr")
  \/ zeroSized = "Disallow" /\ \E c \in all : c.of \in Unsized
  \/ \E a \in DOMAIN source.init : source.init[a].kind = "undef"

\* What pointers without an object reach, after whatever the program did with
\* them. Null reaches nothing, and neither does an integer that a constant in an
\* instruction casts (1362), although 81-84 promise "arbitrary memory" for wide
\* bounds. Integers cast otherwise reach everything if their option asks for wide
\* bounds, and nothing if not; an array without a size all that is not below it
\* if its option asks for wide bounds, and nothing if not. Nothing reaches the
\* null address unless integers have wide bounds. A program that runs has
\* nothing in it that is disallowed, one that is refused has.
BadSourcesAreHandled ==
  /\ pc = "run" =>
       /\ ~Disallowed
       /\ \A r \in Register : \A n \in 1 .. Highest :
            LET p == reg[r]
                passes == SpatialCheck(wit[r], p.at, n)
            IN
            /\ p.of \in {"null", "literal"} => ~passes
            /\ p.of = "cast" => (passes <=> intToPtr = "WideBounds" /\ p.at + n <= Highest)
            /\ p.of \in Unsized =>
                 (passes <=> /\ zeroSized = "WideBounds"
                             /\ Start[p.of] <= p.at /\ p.at + n <= Highest)
            /\ passes /\ p.at = 0 => intToPtr = "WideBounds"
  /\ pc = "refused" => Disallowed

-----------------------------------------------------------------------------
(***************************************************************************)
(* What the program promises with these bounds (SpatialSafety).            *)
(***************************************************************************)

Nothing == Between(0, -1)

\* Pointers without an object may go where the options let them.
MayBounds(o) ==
  CASE o \in Object \ Unsized -> Between(Start[o], Start[o] + Size[o])
    [] o \in Unsized -> Between(Start[o], IF zeroSized = "WideBounds" THEN Highest ELSE Start[o])
    [] o \in Function -> Between(Start[o], Start[o])
    [] o \in {"null", "literal"} -> Between(0, 0)
    [] o = "cast" -> Between(0, IF intToPtr = "WideBounds" THEN Highest ELSE 0)
    [] o = "integer" -> Between(0, Highest)

\* What must be accessible: all that may be, but for arrays of a computed size
\* and for integers that were never cast.
MustBounds(o) ==
  CASE o \in Local -> Between(Start[o], Start[o] + Element[o])
    [] o = "integer" -> Nothing
    [] OTHER -> MayBounds(o)

Rights ==
  [o \in Origin |->
     [may |-> MayBounds(o), must |-> MustBounds(o), out |-> Between(0, Highest),
      entry |-> IF o \in Function THEN {Start[o]} ELSE {}]]

Given ==
  {ValueOf(c) : c \in UNION {s.code : s \in Sources}}
    \cup {[of |-> o, at |-> Start[o]] : o \in Local} \cup [of : {"cast"}, at : Word]

Safety == INSTANCE SpatialSafety WITH rights <- Rights, Length <- 0 .. MaxLength

\* The instrumented program is the original one that stops before an access
\* leaves the object its pointer was derived from, and for no other reason.
IsSafe == Safety!Spec
=============================================================================
