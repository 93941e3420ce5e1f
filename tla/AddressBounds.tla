---------------------------- MODULE AddressBounds ----------------------------
(***************************************************************************)
(* Bounds that are found by address. Splay keeps a tree of the objects     *)
(* there are; Lowfat Pointers places every object in a slot whose extent   *)
(* follows from any address in it. A witness is an address, taken from the *)
(* pointer where it enters the function, and its bounds are looked up at   *)
(* the check. Pointers in memory, arguments and returned pointers have no  *)
(* witness that comes with them: they must be in bounds when they leave a  *)
(* function (BeforeOutflowPolicy), for a new witness is made where they    *)
(* are loaded or arrive.                                                   *)
(*   lib/instrumentation_mechanisms/{Splay,Lowfat}Mechanism.cpp            *)
(*   lib/instrumentation_policies/BeforeOutflowPolicy.cpp                  *)
(* Addresses count words; a word holds a pointer or an integer.            *)
(***************************************************************************)
EXTENDS Integers

CONSTANTS
  Object,
  Global,    \* objects that are global variables; the others are allocas,
  Array,     \* those of a computed size among them
  Exempt,    \* what is marked not to be instrumented
  Function,
  Start, Size,
  SlotSize,  \* STACK_SIZES of the run-time, by the size of the object
  MaxGlobal, MaxStack,  \* sizes that Lowfat cannot place
  Highest,
  Builds,    \* modules with the options they are compiled with
  Register,
  Word,      \* the integers that programs compute
  Shift,     \* by how much they shift pointers
  MaxLength, \* words that memcpy and memset cover at most
  MaxSteps   \* instructions that a program executes at most

\* A word that was not written as a pointer is an integer, whoever reads it as
\* a pointer later.
Origin == Object \cup Function \cup {"null", "cast", "integer"}
Address == 0 .. Highest
Value == [of : Origin, at : Address]
Integer(a) == [of |-> "integer", at |-> a]

Between(l, h) == [lo |-> l, hi |-> h]
Wide == Between(0, Highest + 1)
Covers(b, a) == b.lo <= a /\ a < b.hi

Whole(o) == Between(Start[o], Start[o] + Size[o])

\* Mutation: the slot is as large as the object.
SlotOfSameSize(o) == Whole(o)

\* "At least one byte larger to avoid one-past-end errors" (Lowfat 579).
Slot(o) == Between(Start[o], Start[o] + SlotSize[Size[o]])

\* The size of code does not matter (Splay 336).
Entry(f) == Between(Start[f], Start[f] + 1)

Apart(b, c) == b.hi <= c.lo \/ c.hi <= b.lo

\* The words of objects.
Memory == UNION {Start[o] .. Start[o] + Size[o] - 1 : o \in Object}

ASSUME LayoutAssumption ==
  /\ Global \subseteq Object /\ Array \subseteq Object \ Global
  /\ Object \cap Function = {}
  /\ {"integer", "null", "cast"} \cap (Object \cup Function) = {}
  /\ Highest \in Nat /\ Word \subseteq 0 .. Highest /\ Shift \subseteq Int
  /\ MaxLength \in Nat \ {0} /\ MaxSteps \in Nat
  /\ Start \in [Object \cup Function -> 1 .. Highest]
  /\ Size \in [Object -> 1 .. Highest]
  /\ SlotSize \in [1 .. Highest -> Nat] /\ \A n \in 1 .. Highest : SlotSize[n] > n
  /\ MaxGlobal \in 1 .. Highest /\ MaxStack \in 1 .. Highest
  /\ \A n \in 1 .. MaxStack - 1 : SlotSize[n] < SlotSize[MaxStack]
  /\ \A o \in Object : Slot(o).hi <= Highest + 1
  /\ \A o, p \in Object : o # p => Apart(Slot(o), Slot(p))
  /\ \A o \in Object, f \in Function : Apart(Slot(o), Entry(f))
  /\ \A e, f \in Function : e # f => Apart(Entry(e), Entry(f))

\* declared are globals that another module defines, unsized those of which not
\* even the size is known, sectioned those with a section of their own. code
\* are the pointers that constants in instructions stand for, init those that
\* initializers put in memory. lifetime: there is a lifetime intrinsic; invokes:
\* pointers are passed by invoke. The others are options.
ASSUME BuildAssumption ==
  \A b \in Builds :
    /\ b.mechanism \in {"splay", "lowfat"}
    /\ {b.lazyBase, b.optimize, b.allowUnsafe, b.noGlobals, b.noStack, b.noVLA,
        b.commonToWeak, b.lifetime, b.invokes} \subseteq BOOLEAN
    /\ b.unsized \subseteq b.declared /\ b.declared \cup b.sectioned \subseteq Global
    /\ b.linkage \in [Global -> {"external", "internal", "private", "linkonce", "weak",
                                  "available_externally", "common", "appending", "extern_weak"}]
    /\ DOMAIN b.init \subseteq Memory
    /\ \A v \in b.code \cup {b.init[a] : a \in DOMAIN b.init} :
         v \in Value /\ v.of \notin (Object \ Global) \cup {"integer"}

VARIABLES
  build,  \* never changes
  pc,     \* "compile", "run", "refused", "reported" or "crashed"
  steps,  \* instructions executed
  known,  \* the objects whose bounds the run-time finds
  mem,    \* the words of memory
  reg, wit, \* pointers in registers, and their witnesses
  moved,  \* whether arithmetic lies between a register and its witness
  fault   \* what stopped the program

vars == <<build, pc, steps, known, mem, reg, wit, moved, fault>>

-----------------------------------------------------------------------------
(* What has bounds *)

Lowfat == build.mechanism = "lowfat"

TooLarge(o, max) == SlotSize[Size[o]] >= SlotSize[max]

\* prepareGlobals changes the linkage first.
LinkageOf(o) ==
  IF build.linkage[o] = "common" /\ build.commonToWeak THEN "weak" ELSE build.linkage[o]

CannotBeInstrumented(o) ==
  o \in build.sectioned \/ LinkageOf(o) \in {"common", "appending", "extern_weak"}

\* "Safety cannot be assured" (381), "should have been removed" (407), "too large" (447).
GlobalError(o) ==
  \/ CannotBeInstrumented(o) /\ ~build.allowUnsafe
  \/ o \notin build.sectioned /\ LinkageOf(o) = "available_externally"
  \/ ~CannotBeInstrumented(o) /\ TooLarge(o, MaxGlobal)

PrepareGlobals == Global \ build.declared

\* Mutation: a global that has a section is left as it is.
RefusedForLinkage ==
  Lowfat /\ ~build.noGlobals /\ \E o \in PrepareGlobals \ build.sectioned : GlobalError(o)
Refused ==
  \/ Lowfat /\ ~build.noGlobals /\ \E o \in PrepareGlobals : GlobalError(o)
  \/ build.lifetime /\ (Lowfat => ~build.noStack)

Placed ==
  {o \in PrepareGlobals : ~build.noGlobals /\ ~CannotBeInstrumented(o)}
    \cup {o \in Object \ (Global \cup Exempt) :
            ~build.noStack /\ IF o \in Array THEN ~build.noVLA ELSE ~TooLarge(o, MaxStack)}

Registered == (Object \cup Function) \ (build.unsized \cup Exempt)

Bounded == IF Lowfat THEN Placed ELSE Registered

Region(o) == IF Lowfat THEN Slot(o) ELSE IF o \in Function THEN Entry(o) ELSE Whole(o)

-----------------------------------------------------------------------------
(* What the run-time does with a witness *)

Holds(a) == {o \in known : Covers(Region(o), a)}

\* Pointers into other memory may be used everywhere, but for the null pointer
\* of Splay.
Lookup(a) ==
  LET objects == Holds(a) IN
  IF objects # {} THEN Region(CHOOSE o \in objects : TRUE)
  ELSE IF ~Lowfat /\ a = 0 THEN Between(0, 0) ELSE Wide

CheckDereference(w, a, n) == LET b == Lookup(w) IN b.lo <= a /\ a + n <= b.hi
CheckInbounds(w, a) == Covers(Lookup(w), a) \/ (~Lowfat /\ w = 0 /\ a = 0)

-----------------------------------------------------------------------------

\* The witness of a pointer that comes into a function. That of memory that
\* has no slot is null.
GetWitness(a) ==
  IF Lowfat /\ ~build.lazyBase THEN (IF Holds(a) # {} THEN Lookup(a).lo ELSE 0) ELSE a

Init ==
  /\ build \in Builds
  /\ pc = "compile" /\ steps = 0 /\ known = {}
  /\ mem = [a \in Memory |-> IF a \in DOMAIN build.init THEN build.init[a] ELSE Integer(0)]
  /\ reg = [r \in Register |-> Integer(0)]
  /\ wit = [r \in Register |-> 0]
  /\ moved = [r \in Register |-> FALSE]
  /\ fault = "none"

Refuse ==
  /\ pc = "compile" /\ Refused
  /\ pc' = "refused"
  /\ UNCHANGED <<build, steps, known, mem, reg, wit, moved, fault>>

\* The linker places globals, or the constructor registers them. Slots of the
\* stack are there from the start.
SetUpGlobals ==
  /\ pc = "compile" /\ ~Refused
  /\ pc' = "run" /\ known' = IF Lowfat THEN Bounded ELSE Bounded \cap (Global \cup Function)
  /\ UNCHANGED <<build, steps, mem, reg, wit, moved, fault>>

Executes == pc = "run" /\ steps < MaxSteps /\ steps' = steps + 1
Goes == UNCHANGED <<build, pc, fault>>

Sets(r, v, w, m) ==
  /\ reg' = [reg EXCEPT ![r] = v]
  /\ wit' = [wit EXCEPT ![r] = w]
  /\ moved' = [moved EXCEPT ![r] = m]
  /\ Goes /\ UNCHANGED mem

\* A pointer comes in: it is assumed to be valid.
Enters(r, v) == Sets(r, v, GetWitness(v.at), FALSE) /\ UNCHANGED known

\* Lowfat needs no base calculation for the pointer to a slot (Lowfat 642).
InstrumentAlloca(r, o) ==
  /\ Executes
  /\ Sets(r, [of |-> o, at |-> Start[o]],
          IF Lowfat /\ o \notin Placed THEN GetWitness(Start[o]) ELSE Start[o], FALSE)
  /\ known' = known \cup ({o} \cap Bounded)

\* Constant arithmetic is looked through (getPointerOperands).
Base(v) ==
  CASE v.of \in Object \cup Function -> Start[v.of]
    [] v.of = "null" -> 0
    [] OTHER -> v.at

\* The witness is that of the global, also of a pointer behind it.
UseConstant(r, v) ==
  /\ Executes
  /\ Sets(r, v, GetWitness(Base(v)), FALSE)
  /\ UNCHANGED known

IntToPtr(r, a) == Executes /\ Enters(r, [of |-> "cast", at |-> a])

GetElementPtr(r, s, d) ==
  /\ Executes /\ reg[s].at + d \in Address
  /\ Sets(r, [reg[s] EXCEPT !.at = @ + d], wit[s], TRUE) /\ UNCHANGED known

\* Mutation: the witness is always that of the first.
SelectOfFirst(r, s, t) ==
  /\ Executes
  /\ \E c \in {s, t} : Sets(r, reg[c], wit[s], moved[s] \/ moved[t]) /\ UNCHANGED known

\* A select or phi; the witness is one of the witnesses. A way that moves the
\* pointer makes it moved, whichever way was taken.
Select(r, s, t) ==
  /\ Executes
  /\ \E c \in {s, t} : Sets(r, reg[c], wit[c], moved[s] \/ moved[t]) /\ UNCHANGED known

-----------------------------------------------------------------------------
(* Accesses and outflow *)

Words(a, n) == a .. a + n - 1

Reported(S, n) == \E s \in S : ~CheckDereference(wit[s], reg[s].at, n)
Crashes(S, n) == ~Reported(S, n) /\ \E s \in S : ~(Words(reg[s].at, n) \subseteq Memory)
Accesses(S, n) == Executes /\ ~Reported(S, n) /\ ~Crashes(S, n)

Fault(what, r, n) == [kind |-> what, ptr |-> reg[r], words |-> n]

Stop(S, n) ==
  /\ Executes
  /\ \E s \in S :
       /\ \/ Reported({s}, n) /\ pc' = "reported"
          \/ Crashes(S, n) /\ ~(Words(reg[s].at, n) \subseteq Memory) /\ pc' = "crashed"
       /\ fault' = Fault("access", s, n)
  /\ UNCHANGED <<build, known, mem, reg, wit, moved>>

\* The invariants of pointers that do not change are dropped by
\* -mi-ais-optimize-witness-graph.
HasInvariant(r) == build.optimize => moved[r]
Escapes(r) == HasInvariant(r) /\ ~CheckInbounds(wit[r], reg[r].at)

\* Before a store, a call or a return.
Escape(r) ==
  /\ Executes /\ Escapes(r)
  /\ pc' = "reported" /\ fault' = Fault("outflow", r, 0)
  /\ UNCHANGED <<build, known, mem, reg, wit, moved>>

Load(r, s) == Accesses({s}, 1) /\ Enters(r, mem[reg[s].at])

Unmoved == UNCHANGED <<build, pc, fault, known, reg, wit, moved>>

\* Mutation: only the access is checked.
StoreAccessOnly(r, s) ==
  /\ Accesses({s}, 1)
  /\ mem' = [mem EXCEPT ![reg[s].at] = reg[r]] /\ Unmoved

Store(r, s) ==
  /\ ~Escapes(r) /\ Accesses({s}, 1)
  /\ mem' = [mem EXCEPT ![reg[s].at] = reg[r]] /\ Unmoved

\* No pointer is looked at.
MemCpy(d, s, n) ==
  /\ Accesses({d, s}, n)
  /\ mem' = [a \in Memory |-> IF a \in Words(reg[d].at, n)
                                THEN mem[a - reg[d].at + reg[s].at] ELSE mem[a]]
  /\ Unmoved

\* Also the store of an integer: it is no outflow, even if it was a pointer.
MemSet(d, n, v) ==
  /\ Accesses({d}, n)
  /\ mem' = [a \in Memory |-> IF a \in Words(reg[d].at, n) THEN Integer(v) ELSE mem[a]]
  /\ Unmoved

\* A pointer is an argument or returned, and arrives in another function.
\* "TODO implement" for invokes (BeforeOutflowPolicy 101).
Pass(r, s) == Executes /\ (~Escapes(s) \/ build.invokes) /\ Enters(r, reg[s])

\* A call through a pointer is checked like an access of one word.
CallPointer(r) ==
  /\ Executes
  /\ ~(CheckDereference(wit[r], reg[r].at, 1) /\ \E f \in Function : Start[f] = reg[r].at)
  /\ pc' = IF CheckDereference(wit[r], reg[r].at, 1) THEN "crashed" ELSE "reported"
  /\ fault' = Fault("call", r, 0)
  /\ UNCHANGED <<build, known, mem, reg, wit, moved>>

Next ==
  \/ Refuse
  \/ SetUpGlobals
  \/ \E r \in Register, o \in Object \ Global : InstrumentAlloca(r, o)
  \/ \E r \in Register, v \in build.code : UseConstant(r, v)
  \/ \E r \in Register, a \in Word : IntToPtr(r, a)
  \/ \E r, s \in Register, d \in Shift : GetElementPtr(r, s, d)
  \/ \E r, s, t \in Register : Select(r, s, t)
  \/ \E r, s \in Register : Load(r, s)
  \/ \E r, s \in Register : Store(r, s)
  \/ \E d, s \in Register, n \in 0 .. MaxLength : MemCpy(d, s, n)
  \/ \E d \in Register, n \in 0 .. MaxLength, v \in Word : MemSet(d, n, v)
  \/ \E r, s \in Register : Pass(r, s)
  \/ \E r \in Register : Escape(r)
  \/ \E r \in Register : CallPointer(r)
  \/ \E d, s \in Register, n \in 0 .. MaxLength : Stop({d, s}, n)

Spec == Init /\ [][Next]_vars

-----------------------------------------------------------------------------
(***************************************************************************)
(* Properties.                                                             *)
(***************************************************************************)

\* Registers and words keep their types; witnesses are addresses.
TypeOK ==
  /\ pc \in {"compile", "run", "refused", "reported", "crashed"}
  /\ known \subseteq Bounded
  /\ mem \in [Memory -> Value] /\ reg \in [Register -> Value]
  /\ wit \in [Register -> Address] /\ moved \in [Register -> BOOLEAN]

\* A pointer whose bounds are found at its own address.
Valid(v) ==
  /\ v.of \in Bounded => Covers(Region(v.of), v.at)
  /\ v.of = "null" /\ ~Lowfat => v.at = 0

\* "We assume that these are valid pointers" (AfterInflowStrategy 101, 249):
\* nothing checks the pointers in initializers, those passed by invokes, and,
\* if invariants of pointers without arithmetic are dropped, constants.
Assumed ==
  /\ \A a \in DOMAIN build.init : Valid(build.init[a])
  /\ build.optimize => \A v \in build.code : Valid(v)
  /\ ~build.invokes

\* Whatever the program does with pointers, the witness beside a register
\* leads to the bounds of what the pointer was derived from, even while the
\* pointer is elsewhere; and no pointer is in memory outside its bounds, where
\* its next witness would be that of a neighbour.
WitnessesAreRight ==
  pc = "run" /\ Assumed =>
    /\ \A r \in Register :
         /\ reg[r].of \in Bounded => Lookup(wit[r]) = Region(reg[r].of)
         /\ reg[r].of = "null" /\ ~Lowfat => wit[r] = 0
    /\ \A a \in Memory : Valid(mem[a])

\* "Safety cannot be assured" (Lowfat 381, 418): a program that runs has bounds
\* for every object that it makes, unless an option gives them up (that for
\* unsafe globals only those that cannot have a section), the object is exempt,
\* or an alloca too large for a slot.
NothingIsLeftOut ==
  pc = "run" /\ Lowfat =>
    \A o \in Object \ Bounded :
      IF o \in Global
      THEN o \in build.declared \/ build.noGlobals
             \/ /\ build.allowUnsafe
                /\ \/ o \in build.sectioned \/ build.linkage[o] \in {"appending", "extern_weak"}
                   \/ build.linkage[o] = "common" /\ ~build.commonToWeak
      ELSE \/ build.noStack \/ o \in Exempt
           \/ IF o \in Array THEN build.noVLA ELSE Size[o] >= MaxStack

-----------------------------------------------------------------------------
(***************************************************************************)
(* What the program promises with these bounds (SpatialSafety).            *)
(***************************************************************************)

Nothing == Between(0, -1)

\* For the objects that are bounded: accesses stay in the object, or its slot.
MayBounds(o, bounded) ==
  IF o \in bounded THEN Region(o)
  ELSE IF o = "null" /\ ~Lowfat THEN Between(0, 0) ELSE Wide

\* All of an object can be accessed.
MustBounds(o, bounded) == IF o \in bounded \cap Object THEN Whole(o) ELSE Nothing

\* Pointers to an object may be handed on, with slots also that behind it.
OutBounds(o, bounded) ==
  CASE o \in bounded \cap Object -> Between(Start[o], Start[o] + Size[o] - (IF Lowfat THEN 0 ELSE 1))
    [] o \in bounded \cap Function -> Between(Start[o], Start[o])
    [] o = "null" /\ ~Lowfat -> Between(0, 0)
    [] OTHER -> Nothing

EntryOf(o, bounded) == IF o \in bounded \cap Function THEN {Start[o]} ELSE {}

RightsWith(bounded) ==
  [o \in Origin |->
     [may |-> MayBounds(o, bounded), must |-> MustBounds(o, bounded),
      out |-> OutBounds(o, bounded), entry |-> EntryOf(o, bounded)]]

\* Without the assumptions nothing is promised.
NoRights == [o \in Origin |-> [may |-> Wide, must |-> Nothing, out |-> Nothing, entry |-> {}]]

Rights == IF Assumed THEN RightsWith(Bounded) ELSE NoRights

Given ==
  (UNION {b.code : b \in Builds})
    \cup {[of |-> o, at |-> Start[o]] : o \in Object \ Global} \cup [of : {"cast"}, at : Word]

Safety == INSTANCE SpatialSafety WITH rights <- Rights, Length <- 0 .. MaxLength

\* If what is assumed to be valid is, the program stops before an access leaves
\* the object or slot its pointer was derived from, although nothing is kept
\* of a pointer but its value; and no access, call or pointer that is all right is
\* reported.
IsSafe == Safety!Spec
=============================================================================
