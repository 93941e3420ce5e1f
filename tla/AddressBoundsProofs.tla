------------------------- MODULE AddressBoundsProofs -------------------------
(***************************************************************************)
(* For every layout of memory, every module and every option, bounds that  *)
(* are found by address are those of what a pointer was derived from, if   *)
(* what the pass assumes to be valid is; the program then implements       *)
(* SpatialSafety.                                                          *)
(***************************************************************************)
EXTENDS AddressBounds, TLAPS

\* A witness in the region of the object that a pointer was derived from.
Found(v, w, objects) ==
  /\ v.of \in Bounded => v.of \in objects /\ Covers(Region(v.of), w)
  /\ v.of = "null" /\ ~Lowfat => w = 0

\* A pointer that can be told from its value.
Sound(v, objects) == Valid(v) /\ (v.of \in Bounded => v.of \in objects)

AllRight ==
  /\ \A a \in Memory : Sound(mem[a], known)
  /\ \A r \in Register :
       /\ Found(reg[r], wit[r], known)
       /\ build.optimize /\ ~moved[r] => Valid(reg[r])

\* Before the program runs, memory is initialized and registers are not.
NothingRan ==
  /\ mem = [a \in Memory |-> IF a \in DOMAIN build.init THEN build.init[a] ELSE Integer(0)]
  /\ \A r \in Register : reg[r] = Integer(0) /\ wit[r] = 0

\* Globals and functions are known as soon as the program runs; slots of the
\* stack are there from the start.
GlobalsKnown ==
  /\ Bounded \cap (Global \cup Function) \subseteq known
  /\ Lowfat => known = Bounded

Inv ==
  /\ TypeOK /\ build \in Builds
  /\ pc = "compile" => NothingRan
  /\ pc = "run" => ~Refused /\ GlobalsKnown /\ (Assumed => AllRight)

-----------------------------------------------------------------------------
(* Layout *)

LEMMA Layout ==
  /\ Highest \in Nat /\ Global \subseteq Object
  /\ \A o \in Object : /\ Start[o] \in Nat /\ Start[o] >= 1 /\ Size[o] \in Nat /\ Size[o] >= 1
                       /\ SlotSize[Size[o]] \in Nat /\ SlotSize[Size[o]] > Size[o]
                       /\ Start[o] + SlotSize[Size[o]] <= Highest + 1
                       /\ o \notin Function \cup {"null", "cast", "integer"}
  /\ \A f \in Function : /\ Start[f] \in Nat /\ Start[f] >= 1 /\ Start[f] <= Highest
                         /\ f \notin {"null", "cast", "integer"}
<1>1. /\ Highest \in Nat /\ Global \subseteq Object
      /\ Start \in [Object \cup Function -> 1 .. Highest]
      /\ Size \in [Object -> 1 .. Highest]
      /\ SlotSize \in [1 .. Highest -> Nat] /\ \A n \in 1 .. Highest : SlotSize[n] > n
      /\ \A o \in Object : Slot(o).hi <= Highest + 1
      /\ Object \cap Function = {}
      /\ {"integer", "null", "cast"} \cap (Object \cup Function) = {}
  BY LayoutAssumption
<1>2. ASSUME NEW o \in Object
      PROVE  /\ Start[o] \in Nat /\ Start[o] >= 1 /\ Size[o] \in Nat /\ Size[o] >= 1
             /\ SlotSize[Size[o]] \in Nat /\ SlotSize[Size[o]] > Size[o]
             /\ Start[o] + SlotSize[Size[o]] <= Highest + 1
  <2>1. Start[o] \in 1 .. Highest /\ Size[o] \in 1 .. Highest BY <1>1
  <2>2. SlotSize[Size[o]] \in Nat /\ SlotSize[Size[o]] > Size[o] BY <1>1, <2>1
  <2>3. Slot(o).hi <= Highest + 1 BY <1>1
  <2>4. Start[o] + SlotSize[Size[o]] <= Highest + 1 BY <2>3 DEF Slot, Between
  <2> QED BY <1>1, <2>1, <2>2, <2>4
<1>3. ASSUME NEW f \in Function PROVE Start[f] \in Nat /\ Start[f] >= 1 /\ Start[f] <= Highest
  <2>1. Start[f] \in 1 .. Highest BY <1>1
  <2> QED BY <1>1, <2>1
<1> QED BY <1>1, <1>2, <1>3

\* Only objects and functions have bounds; with slots only objects.
LEMMA BoundedObjects ==
  ASSUME TypeOK, build \in Builds
  PROVE  /\ Bounded \subseteq Object \cup Function
         /\ Lowfat => Bounded \subseteq Object
         /\ \A o \in Bounded : o \notin {"null", "cast", "integer"}
<1>1. Placed \subseteq Object BY Layout DEF Placed, PrepareGlobals
<1>2. Registered \subseteq Object \cup Function BY DEF Registered
<1> QED BY <1>1, <1>2, Layout DEF Bounded

\* The region of an object is in memory, holds the object, and starts at it.
LEMMA Regions ==
  ASSUME TypeOK, build \in Builds, NEW o \in Bounded
  PROVE  /\ Region(o).lo = Start[o] /\ Region(o).hi \in Nat
         /\ Start[o] \in Nat /\ 1 <= Start[o] /\ Start[o] < Region(o).hi
         /\ Region(o).hi <= Highest + 1
         /\ Region(o) = Between(Region(o).lo, Region(o).hi)
         /\ o \in Object => Start[o] + Size[o] + (IF Lowfat THEN 1 ELSE 0) <= Region(o).hi
         /\ o \in Function => Region(o) = Entry(o)
<1>1. CASE o \in Object
  <2>1. Region(o) = (IF Lowfat THEN Slot(o) ELSE Whole(o)) BY <1>1, Layout DEF Region
  <2> QED BY <1>1, <2>1, Layout DEF Slot, Whole, Between
<1>2. CASE o \in Function
  <2>1. ~Lowfat /\ o \notin Object BY <1>2, BoundedObjects, Layout
  <2>2. Region(o) = Entry(o) BY <1>2, <2>1 DEF Region
  <2> QED BY <1>2, <2>1, <2>2, Layout DEF Entry, Between
<1> QED BY <1>1, <1>2, BoundedObjects

\* No address is in the regions of two objects.
LEMMA RegionsAreApart ==
  ASSUME TypeOK, build \in Builds, NEW o \in Bounded, NEW p \in Bounded, NEW a \in Int,
         Covers(Region(o), a), Covers(Region(p), a)
  PROVE  o = p
<1> SUFFICES ASSUME o # p PROVE FALSE OBVIOUS
<1>1. /\ \A x, y \in Object : x # y => Apart(Slot(x), Slot(y))
      /\ \A x \in Object, f \in Function : Apart(Slot(x), Entry(f))
      /\ \A e, f \in Function : e # f => Apart(Entry(e), Entry(f))
  BY LayoutAssumption
<1> DEFINE Hull(x) == IF x \in Object THEN Slot(x) ELSE Entry(x)
<1>2. Apart(Hull(o), Hull(p)) BY <1>1, BoundedObjects DEF Apart
<1>3. \A x \in Bounded :
        /\ Hull(x).lo = Region(x).lo /\ Region(x).hi <= Hull(x).hi
        /\ Hull(x).hi \in Int
  <2> SUFFICES ASSUME NEW x \in Bounded
               PROVE  /\ Hull(x).lo = Region(x).lo /\ Region(x).hi <= Hull(x).hi
                      /\ Hull(x).hi \in Int
    OBVIOUS
  <2>1. CASE x \in Object
    <3>1. Region(x) = (IF Lowfat THEN Slot(x) ELSE Whole(x)) BY <2>1, Layout DEF Region
    <3> QED BY <2>1, <3>1, Layout DEF Slot, Whole, Between
  <2>2. CASE x \in Function
    <3>1. x \notin Object /\ Region(x) = Entry(x) BY <2>2, Layout, Regions
    <3> QED BY <2>2, <3>1, Layout DEF Entry, Between
  <2> QED BY <2>1, <2>2, BoundedObjects
<1>4. /\ Region(o).lo \in Int /\ Region(o).hi \in Int
      /\ Region(p).lo \in Int /\ Region(p).hi \in Int
  BY Regions
<1> QED BY <1>2, <1>3, <1>4 DEF Apart, Covers

\* So a lookup in the region of a known object finds that object.
LEMMA LookupFinds ==
  ASSUME TypeOK, build \in Builds, NEW o \in known, NEW a \in Int, Covers(Region(o), a)
  PROVE  Holds(a) = {o} /\ Lookup(a) = Region(o)
<1>1. known \subseteq Bounded BY DEF TypeOK
<1>2. \A p \in known : Covers(Region(p), a) => p = o BY <1>1, RegionsAreApart
<1>3. Holds(a) = {o} BY <1>2 DEF Holds
<1> QED BY <1>3 DEF Lookup

\* Whatever is looked up, the bounds are in memory.
LEMMA LookupInMemory ==
  ASSUME TypeOK, build \in Builds, NEW a \in Address
  PROVE  /\ Lookup(a).lo \in Address /\ Lookup(a).hi \in Nat /\ Lookup(a).hi <= Highest + 1
         /\ Holds(a) = {} /\ ~Lowfat /\ a = 0 => Lookup(a) = Between(0, 0)
         /\ Holds(0) = {}
<1>1. Holds(0) = {}
  <2> SUFFICES ASSUME NEW o \in known, Covers(Region(o), 0) PROVE FALSE BY DEF Holds
  <2>1. o \in Bounded BY DEF TypeOK
  <2> QED BY <2>1, Regions DEF Covers
<1>2. CASE Holds(a) = {}
  BY <1>1, <1>2, Layout DEF Lookup, Wide, Between, Address
<1>3. CASE Holds(a) # {}
  <2>1. PICK o \in known : Lookup(a) = Region(o) BY <1>3 DEF Lookup, Holds
  <2>2. o \in Bounded BY DEF TypeOK
  <2> QED BY <1>1, <1>3, <2>1, <2>2, Regions, Layout DEF Address
<1> QED BY <1>2, <1>3

-----------------------------------------------------------------------------
(* The kinds of steps *)

\* What has bounds, and what is assumed, depends on the build only.
LEMMA BuildStays ==
  ASSUME UNCHANGED build
  PROVE  /\ Lowfat' = Lowfat /\ Bounded' = Bounded /\ Refused' = Refused /\ Assumed' = Assumed
         /\ \A o : Region(o)' = Region(o)
         /\ \A v : Valid(v)' = Valid(v)
<1>1. Lowfat' = Lowfat BY DEF Lowfat
<1>2. \A o : LinkageOf(o)' = LinkageOf(o) BY DEF LinkageOf
<1>3. \A o : CannotBeInstrumented(o)' = CannotBeInstrumented(o) BY <1>2 DEF CannotBeInstrumented
<1>4. \A o : GlobalError(o)' = GlobalError(o) BY <1>2, <1>3 DEF GlobalError
<1>5. PrepareGlobals' = PrepareGlobals BY DEF PrepareGlobals
<1>6. Placed' = Placed BY <1>3, <1>5 DEF Placed
<1>7. Refused' = Refused BY <1>1, <1>4, <1>5 DEF Refused
<1>8. Bounded' = Bounded BY <1>1, <1>6 DEF Bounded, Registered
<1>9. \A o : Region(o)' = Region(o) BY <1>1 DEF Region
<1>10. \A v : Valid(v)' = Valid(v) BY <1>1, <1>8, <1>9 DEF Valid
<1>11. Assumed' = Assumed BY <1>10 DEF Assumed
<1> QED BY <1>1, <1>7, <1>8, <1>9, <1>10, <1>11

\* A witness that is made of a pointer with a sound value is right.
LEMMA WitnessOfSound ==
  ASSUME Inv, NEW v \in Value
  PROVE  /\ GetWitness(v.at) \in Address
         /\ Sound(v, known) => Found(v, GetWitness(v.at), known)
<1>1. TypeOK /\ build \in Builds /\ v.at \in Address /\ v.at \in Int /\ 0 \in Address
  BY Layout DEF Inv, Value, Address
<1>2. GetWitness(v.at) \in Address BY <1>1, LookupInMemory DEF GetWitness
<1>3. ASSUME Sound(v, known), v.of \in Bounded PROVE Covers(Region(v.of), GetWitness(v.at))
  <2>1. v.of \in known /\ Covers(Region(v.of), v.at) BY <1>3 DEF Sound, Valid
  <2>2. Holds(v.at) # {} /\ Lookup(v.at) = Region(v.of) BY <1>1, <2>1, LookupFinds
  <2>3. Covers(Region(v.of), Region(v.of).lo) BY <1>1, <1>3, Regions DEF Covers
  <2> QED BY <2>1, <2>2, <2>3 DEF GetWitness
<1>4. ASSUME Sound(v, known), v.of = "null", ~Lowfat PROVE GetWitness(v.at) = 0
  BY <1>4 DEF Sound, Valid, GetWitness
<1> QED BY <1>2, <1>3, <1>4 DEF Found, Sound

\* A step that sets a register.
LEMMA SettingARegister ==
  ASSUME Inv, pc = "run", NEW r \in Register, NEW v \in Value, NEW w \in Address,
         NEW m \in BOOLEAN, Sets(r, v, w, m),
         known \subseteq known', known' \subseteq Bounded,
         Assumed => Found(v, w, known') /\ (build.optimize /\ ~m => Valid(v))
  PROVE  Inv'
<1> USE DEF Inv
<1>1. UNCHANGED build /\ UNCHANGED pc /\ UNCHANGED mem BY DEF Sets, Goes
<1>2. TypeOK' BY <1>1, BuildStays DEF TypeOK, Sets
<1>3. ~Refused' /\ GlobalsKnown'
  <2>1. Bounded' = Bounded /\ Lowfat' = Lowfat /\ Refused' = Refused BY <1>1, BuildStays
  <2>2. Bounded \cap (Global \cup Function) \subseteq known' BY DEF GlobalsKnown
  <2>3. Lowfat => known' = Bounded BY DEF GlobalsKnown
  <2> QED BY <2>1, <2>2, <2>3 DEF GlobalsKnown
<1>4. ASSUME Assumed PROVE AllRight'
  <2>1. \A a \in Memory : Sound(mem[a], known)' BY <1>1, <1>4, BuildStays DEF AllRight, Sound
  <2>2. ASSUME NEW s \in Register
        PROVE  /\ Found(reg[s], wit[s], known)'
               /\ build'.optimize /\ ~moved'[s] => Valid(reg[s])'
    <3>1. CASE s = r
      <4>1. reg'[s] = v /\ wit'[s] = w /\ moved'[s] = m BY <3>1 DEF Sets, TypeOK
      <4> QED BY <1>1, <1>4, <4>1, BuildStays DEF Found, Valid
    <3>2. CASE s # r
      <4>1. reg'[s] = reg[s] /\ wit'[s] = wit[s] /\ moved'[s] = moved[s]
        BY <3>2 DEF Sets, TypeOK
      <4>2. Found(reg[s], wit[s], known) /\ (build.optimize /\ ~moved[s] => Valid(reg[s]))
        BY <1>4 DEF AllRight
      <4> QED BY <1>1, <4>1, <4>2, BuildStays DEF Found, Valid
    <3> QED BY <3>1, <3>2
  <2> QED BY <2>1, <2>2 DEF AllRight
<1> QED BY <1>1, <1>2, <1>3, <1>4, BuildStays

\* A step that changes words in memory.
LEMMA SettingMemory ==
  ASSUME Inv, pc = "run", Unmoved, mem' \in [Memory -> Value],
         Assumed => \A a \in Memory : Sound(mem'[a], known)
  PROVE  Inv'
<1> USE DEF Inv
<1>1. UNCHANGED build /\ UNCHANGED <<pc, known, reg, wit, moved>> BY DEF Unmoved
<1>2. TypeOK' BY <1>1, BuildStays DEF TypeOK
<1>3. ~Refused' /\ GlobalsKnown' BY <1>1, BuildStays DEF GlobalsKnown
<1>4. ASSUME Assumed PROVE AllRight'
  <2>1. \A a \in Memory : Sound(mem[a], known)' BY <1>1, <1>4, BuildStays DEF Sound, Valid
  <2>2. \A s \in Register : /\ Found(reg[s], wit[s], known)'
                            /\ build'.optimize /\ ~moved'[s] => Valid(reg[s])'
    BY <1>1, <1>4, BuildStays DEF AllRight, Found, Valid
  <2> QED BY <2>1, <2>2 DEF AllRight
<1> QED BY <1>1, <1>2, <1>3, <1>4, BuildStays

\* A step that ends the program.
LEMMA Stopping ==
  ASSUME Inv, UNCHANGED <<build, known, mem, reg, wit, moved>>,
         pc' \in {"refused", "reported", "crashed"}
  PROVE  Inv'
<1>1. UNCHANGED build OBVIOUS
<1> QED BY <1>1, BuildStays DEF Inv, TypeOK

\* A pointer that passed the check of its invariant, or did not need one, is sound.
LEMMA WhatEscapesIsSound ==
  ASSUME Inv, pc = "run", Assumed, NEW r \in Register, ~Escapes(r)
  PROVE  Sound(reg[r], known)
<1>1. /\ TypeOK /\ build \in Builds /\ reg[r] \in Value /\ wit[r] \in Address
      /\ reg[r].at \in Int /\ wit[r] \in Int
      /\ Found(reg[r], wit[r], known)
      /\ (build.optimize /\ ~moved[r] => Valid(reg[r]))
  BY Layout DEF Inv, AllRight, TypeOK, Value, Address
<1>2. CASE ~HasInvariant(r)
  BY <1>1, <1>2 DEF HasInvariant, Sound, Found
<1>3. CASE CheckInbounds(wit[r], reg[r].at)
  <2>1. ASSUME reg[r].of \in Bounded PROVE Covers(Region(reg[r].of), reg[r].at)
    <3>1. reg[r].of \in known /\ Covers(Region(reg[r].of), wit[r]) BY <1>1, <2>1 DEF Found
    <3>2. Lookup(wit[r]) = Region(reg[r].of) BY <1>1, <3>1, LookupFinds
    <3>3. ~(~Lowfat /\ wit[r] = 0)
      <4>1. Region(reg[r].of).lo >= 1 BY <1>1, <2>1, Regions
      <4> QED BY <1>1, <2>1, <3>1, <4>1, Regions DEF Covers
    <3> QED BY <1>3, <3>2, <3>3 DEF CheckInbounds
  <2>2. ASSUME reg[r].of = "null", ~Lowfat PROVE reg[r].at = 0
    <3>1. wit[r] = 0 BY <1>1, <2>2 DEF Found
    <3>2. Lookup(wit[r]) = Between(0, 0) BY <1>1, <2>2, <3>1, LookupInMemory
    <3> QED BY <1>1, <1>3, <3>2 DEF CheckInbounds, Covers, Between
  <2> QED BY <1>1, <2>1, <2>2 DEF Sound, Valid, Found
<1> QED BY <1>2, <1>3 DEF Escapes

LEMMA AddressesAreIntegers == Address \subseteq Int /\ 0 \in Address /\ Word \subseteq Address
BY LayoutAssumption DEF Address

\* Integers are no pointers.
LEMMA IntegersAreSound ==
  ASSUME Inv, NEW a \in Address
  PROVE  Integer(a) \in Value /\ Sound(Integer(a), known) /\ Found(Integer(a), 0, known)
BY BoundedObjects DEF Inv, Integer, Value, Origin, Sound, Valid, Found

LEMMA AccessedWords ==
  ASSUME NEW S, NEW n, Accesses(S, n), NEW s \in S
  PROVE  Words(reg[s].at, n) \subseteq Memory /\ pc = "run"
BY DEF Accesses, Executes, Crashes

-----------------------------------------------------------------------------
(* The invariant *)

\* What modules give to words and use in instructions.
LEMMA BuildsWellFormed ==
  ASSUME build \in Builds
  PROVE  /\ \A a \in DOMAIN build.init :
              /\ build.init[a] \in Value
              /\ build.init[a].of \notin (Object \ Global) \cup {"integer"}
         /\ \A v \in build.code :
              v \in Value /\ v.of \notin (Object \ Global) \cup {"integer"}
BY BuildAssumption

LEMMA InvInit == Init => Inv
<1> SUFFICES ASSUME Init PROVE Inv OBVIOUS
<1> USE DEF Init
<1>1. Integer(0) \in Value BY AddressesAreIntegers DEF Integer, Value, Origin
<1>2. NothingRan BY DEF NothingRan
<1>3. mem \in [Memory -> Value] BY <1>1, BuildsWellFormed
<1>4. TypeOK BY <1>1, <1>3, AddressesAreIntegers DEF TypeOK
<1> QED BY <1>2, <1>4 DEF Inv

\* The constructor, or the linker, makes all globals known to which initialized
\* pointers can point.
LEMMA InvSetUpGlobals == Inv /\ SetUpGlobals => Inv'
<1> SUFFICES ASSUME Inv, SetUpGlobals PROVE Inv' OBVIOUS
<1>1. /\ UNCHANGED build /\ UNCHANGED <<mem, reg, wit, moved>> /\ ~Refused /\ NothingRan
      /\ TypeOK /\ build \in Builds /\ pc' = "run"
  BY DEF Inv, SetUpGlobals
<1>2. known' \subseteq Bounded BY DEF SetUpGlobals
<1>3. TypeOK' BY <1>1, <1>2, BuildStays DEF TypeOK
<1>4. Bounded \cap (Global \cup Function) \subseteq known' /\ (Lowfat => known' = Bounded)
  BY <1>1, BoundedObjects DEF SetUpGlobals
<1>5. GlobalsKnown' BY <1>1, <1>4, BuildStays DEF GlobalsKnown
<1>6. ASSUME Assumed PROVE AllRight'
  <2>1. ASSUME NEW a \in Memory PROVE Sound(mem[a], known')
    <3>1. CASE a \in DOMAIN build.init
      <4>1. mem[a] = build.init[a] BY <1>1, <3>1 DEF NothingRan
      <4>2. Valid(mem[a]) BY <1>6, <3>1, <4>1 DEF Assumed
      <4>3. mem[a].of \notin Object \ Global BY <1>1, <3>1, <4>1, BuildsWellFormed
      <4>4. mem[a].of \in Bounded => mem[a].of \in known'
        BY <1>1, <1>4, <4>3, BoundedObjects
      <4> QED BY <4>2, <4>4 DEF Sound
    <3>2. CASE a \notin DOMAIN build.init
      <4>1. mem[a].of = "integer" BY <1>1, <3>2 DEF NothingRan, Integer
      <4> QED BY <1>1, <4>1, BoundedObjects DEF Sound, Valid
    <3> QED BY <3>1, <3>2
  <2>2. ASSUME NEW r \in Register
        PROVE  Found(reg[r], wit[r], known') /\ Valid(reg[r])
    <3>1. reg[r].of = "integer" BY <1>1 DEF NothingRan, Integer
    <3> QED BY <1>1, <3>1, BoundedObjects DEF Found, Valid
  <2>3. \A a \in Memory : Sound(mem[a], known)' BY <1>1, <2>1, BuildStays DEF Sound, Valid
  <2>4. \A r \in Register : Found(reg[r], wit[r], known)' /\ Valid(reg[r])'
    BY <1>1, <2>2, BuildStays DEF Found, Valid
  <2> QED BY <2>3, <2>4 DEF AllRight
<1> QED BY <1>1, <1>3, <1>5, <1>6, BuildStays DEF Inv

\* Registers get pointers with witnesses that are right.
LEMMA InvEnters ==
  ASSUME Inv, pc = "run", NEW r \in Register, NEW v \in Value, Enters(r, v),
         Assumed => Sound(v, known)
  PROVE  Inv'
<1>1. known' = known /\ known \subseteq Bounded BY DEF Enters, Inv, TypeOK
<1>2. GetWitness(v.at) \in Address BY WitnessOfSound
<1>3. Assumed => Found(v, GetWitness(v.at), known') /\ Valid(v)
  BY <1>1, WitnessOfSound DEF Sound
<1>4. Sets(r, v, GetWitness(v.at), FALSE) BY DEF Enters
<1> QED BY <1>1, <1>2, <1>3, <1>4, SettingARegister

LEMMA InvAlloca ==
  ASSUME Inv, NEW r \in Register, NEW o \in Object \ Global, InstrumentAlloca(r, o)
  PROVE  Inv'
<1> DEFINE v == [of |-> o, at |-> Start[o]]
           w == IF Lowfat /\ o \notin Placed THEN GetWitness(Start[o]) ELSE Start[o]
<1>1. TypeOK /\ build \in Builds /\ pc = "run" BY DEF Inv, InstrumentAlloca, Executes
<1>2. Start[o] \in Address /\ Start[o] \in Int
  <2>1. Start[o] \in 1 .. Highest BY LayoutAssumption
  <2> QED BY <2>1 DEF Address
<1>3. v \in Value BY <1>2 DEF Value, Origin
<1>4. w \in Address BY <1>2, <1>3, WitnessOfSound
<1>5. known' = known \cup ({o} \cap Bounded) BY DEF InstrumentAlloca
<1>6. known \subseteq known' /\ known' \subseteq Bounded BY <1>1, <1>5 DEF TypeOK
<1>7. ASSUME o \in Bounded PROVE o \in known' /\ Covers(Region(o), w) /\ Covers(Region(o), Start[o])
  <2>1. w = Start[o] BY <1>7 DEF Bounded
  <2> QED BY <1>1, <1>5, <1>7, <2>1, Regions DEF Covers
<1>8. o # "null" BY Layout
<1>9. Found(v, w, known') /\ Valid(v) BY <1>7, <1>8 DEF Found, Valid
<1>10. Sets(r, v, w, FALSE) BY DEF InstrumentAlloca
<1> QED BY <1>1, <1>3, <1>4, <1>6, <1>9, <1>10, SettingARegister

LEMMA InvUseConstant ==
  ASSUME Inv, NEW r \in Register, NEW v \in build.code, UseConstant(r, v)
  PROVE  Inv'
<1> DEFINE b == [of |-> v.of, at |-> Base(v)]
<1>1. /\ TypeOK /\ build \in Builds /\ pc = "run" /\ known' = known /\ known \subseteq Bounded
      /\ ~Refused /\ GlobalsKnown
  BY DEF Inv, TypeOK, UseConstant, Executes
<1>2. v \in Value /\ v.of \in Origin /\ v.at \in Address /\ v.of \notin Object \ Global
  BY <1>1, BuildsWellFormed DEF Value
<1>3. b \in Value
  <2>1. \A o \in Object \cup Function : Start[o] \in Address
    <3>1. \A o \in Object \cup Function : Start[o] \in 1 .. Highest BY LayoutAssumption
    <3> QED BY <3>1 DEF Address
  <2>2. Base(v) \in Address BY <1>2, <2>1, AddressesAreIntegers DEF Base
  <2> QED BY <1>2, <2>2 DEF Value
<1>4. Sound(b, known)
  <2>1. ASSUME v.of \in Bounded PROVE v.of \in known /\ Covers(Region(v.of), Start[v.of])
    <3>1. v.of \in Global \cup Function BY <1>1, <1>2, <2>1, BoundedObjects
    <3> QED BY <1>1, <2>1, <3>1, Regions DEF GlobalsKnown, Covers
  <2>2. v.of \in Bounded => Base(v) = Start[v.of] BY <1>1, BoundedObjects DEF Base
  <2>3. v.of = "null" => Base(v) = 0 BY Layout DEF Base
  <2> QED BY <2>1, <2>2, <2>3 DEF Sound, Valid
<1>5. GetWitness(Base(v)) \in Address /\ Found(b, GetWitness(Base(v)), known)
  BY <1>3, <1>4, WitnessOfSound
<1>6. Found(v, GetWitness(Base(v)), known) BY <1>5 DEF Found
<1>7. Assumed /\ build.optimize => Valid(v) BY DEF Assumed
<1>8. Sets(r, v, GetWitness(Base(v)), FALSE) BY DEF UseConstant
<1> QED BY <1>1, <1>2, <1>5, <1>6, <1>7, <1>8, SettingARegister

\* Arithmetic keeps the witness; a choice chooses the witness too.
LEMMA InvDerived ==
  ASSUME Inv
  PROVE  /\ \A r, s \in Register, d \in Shift : GetElementPtr(r, s, d) => Inv'
         /\ \A r, s, t \in Register : Select(r, s, t) => Inv'
<1>0. \A s \in Register : /\ reg[s] \in Value /\ wit[s] \in Address /\ moved[s] \in BOOLEAN
                          /\ pc = "run" /\ Assumed
                               => /\ Found(reg[s], wit[s], known)
                                  /\ (build.optimize /\ ~moved[s] => Valid(reg[s]))
  BY DEF Inv, TypeOK, AllRight
<1>1. ASSUME NEW r \in Register, NEW s \in Register, NEW d \in Shift, GetElementPtr(r, s, d)
      PROVE  Inv'
  <2> DEFINE v == [reg[s] EXCEPT !.at = @ + d]
  <2>1. /\ pc = "run" /\ known' = known /\ known \subseteq Bounded /\ Sets(r, v, wit[s], TRUE)
        /\ reg[s].at + d \in Address
    BY <1>1 DEF GetElementPtr, Executes, Inv, TypeOK
  <2>2. v \in Value /\ v.of = reg[s].of BY <1>0, <2>1 DEF Value
  <2>3. Assumed => Found(v, wit[s], known) BY <1>0, <2>1, <2>2 DEF Found
  <2> QED BY <1>0, <2>1, <2>2, <2>3, SettingARegister
<1>2. ASSUME NEW r \in Register, NEW s \in Register, NEW t \in Register, Select(r, s, t)
      PROVE  Inv'
  <2>1. PICK c \in {s, t} : Sets(r, reg[c], wit[c], moved[s] \/ moved[t])
    BY <1>2 DEF Select
  <2>2. pc = "run" /\ known' = known /\ known \subseteq Bounded
    BY <1>2 DEF Select, Executes, Inv, TypeOK
  <2>3. (moved[s] \/ moved[t]) \in BOOLEAN OBVIOUS
  <2>4. ~(moved[s] \/ moved[t]) => ~moved[c] BY <2>1
  <2> QED BY <1>0, <2>1, <2>2, <2>3, <2>4, SettingARegister
<1> QED BY <1>1, <1>2

\* Pointers that enter a function were sound when they left another.
LEMMA InvEntering ==
  ASSUME Inv
  PROVE  /\ \A r \in Register, a \in Word : IntToPtr(r, a) => Inv'
         /\ \A r, s \in Register : Load(r, s) => Inv'
         /\ \A r, s \in Register : Pass(r, s) => Inv'
<1>1. ASSUME NEW r \in Register, NEW a \in Word, IntToPtr(r, a) PROVE Inv'
  <2> DEFINE v == [of |-> "cast", at |-> a]
  <2>1. v \in Value BY AddressesAreIntegers DEF Value, Origin
  <2>2. Sound(v, known) BY BoundedObjects DEF Inv, Sound, Valid
  <2>3. pc = "run" /\ Enters(r, v) BY <1>1 DEF IntToPtr, Executes
  <2> QED BY <2>1, <2>2, <2>3, InvEnters
<1>2. ASSUME NEW r \in Register, NEW s \in Register, Load(r, s) PROVE Inv'
  <2>1. reg[s].at \in Memory /\ pc = "run"
    <3>1. Words(reg[s].at, 1) \subseteq Memory /\ pc = "run" BY <1>2, AccessedWords DEF Load
    <3>2. reg[s].at \in Int BY AddressesAreIntegers DEF Inv, TypeOK, Value
    <3> QED BY <3>1, <3>2 DEF Words
  <2>2. mem[reg[s].at] \in Value BY <2>1 DEF Inv, TypeOK
  <2>3. Assumed => Sound(mem[reg[s].at], known) BY <2>1 DEF Inv, AllRight
  <2> QED BY <1>2, <2>1, <2>2, <2>3, InvEnters DEF Load
<1>3. ASSUME NEW r \in Register, NEW s \in Register, Pass(r, s) PROVE Inv'
  <2>1. pc = "run" /\ Enters(r, reg[s]) /\ reg[s] \in Value
    BY <1>3 DEF Pass, Executes, Inv, TypeOK
  <2>2. Assumed => ~Escapes(s) BY <1>3 DEF Pass, Assumed
  <2>3. Assumed => Sound(reg[s], known) BY <2>1, <2>2, WhatEscapesIsSound
  <2> QED BY <2>1, <2>3, InvEnters
<1> QED BY <1>1, <1>2, <1>3

\* What is stored is sound; what is copied was.
LEMMA InvMemory ==
  ASSUME Inv
  PROVE  /\ \A r, s \in Register : Store(r, s) => Inv'
         /\ \A d, s \in Register, n \in 0 .. MaxLength : MemCpy(d, s, n) => Inv'
         /\ \A d \in Register, n \in 0 .. MaxLength, v \in Word : MemSet(d, n, v) => Inv'
<1>0. /\ \A r \in Register : reg[r] \in Value /\ reg[r].at \in Int
      /\ mem \in [Memory -> Value]
  BY AddressesAreIntegers DEF Inv, TypeOK, Value
<1>1. ASSUME NEW r \in Register, NEW s \in Register, Store(r, s) PROVE Inv'
  <2>1. pc = "run" BY <1>1, AccessedWords DEF Store
  <2>2. mem' \in [Memory -> Value] BY <1>0, <1>1 DEF Store
  <2>3. Assumed => Sound(reg[r], known) BY <1>1, <2>1, WhatEscapesIsSound DEF Store
  <2>4. Assumed => \A a \in Memory : Sound(mem'[a], known)
    BY <1>0, <1>1, <2>1, <2>3 DEF Store, Inv, AllRight
  <2> QED BY <1>1, <2>1, <2>2, <2>4, SettingMemory DEF Store
<1>2. ASSUME NEW d \in Register, NEW s \in Register, NEW n \in 0 .. MaxLength, MemCpy(d, s, n)
      PROVE  Inv'
  <2>1. pc = "run" /\ Words(reg[s].at, n) \subseteq Memory
    BY <1>2, AccessedWords DEF MemCpy
  <2>2. n \in Int BY LayoutAssumption
  <2>3. ASSUME NEW a \in Memory PROVE \E e \in Memory : mem'[a] = mem[e]
    <3>1. CASE a \in Words(reg[d].at, n)
      <4>1. a - reg[d].at + reg[s].at \in Words(reg[s].at, n)
        BY <1>0, <2>2, <3>1 DEF Words
      <4> QED BY <1>2, <2>1, <3>1, <4>1 DEF MemCpy
    <3>2. CASE a \notin Words(reg[d].at, n)
      BY <1>2, <3>2 DEF MemCpy
    <3> QED BY <3>1, <3>2
  <2>4. mem' \in [Memory -> Value]
    <3>1. mem' = [a \in Memory |-> mem'[a]] BY <1>2 DEF MemCpy
    <3>2. \A a \in Memory : mem'[a] \in Value BY <1>0, <2>3
    <3> QED BY <3>1, <3>2
  <2>5. Assumed => \A a \in Memory : Sound(mem'[a], known)
    BY <2>1, <2>3 DEF Inv, AllRight
  <2> QED BY <1>2, <2>1, <2>4, <2>5, SettingMemory DEF MemCpy
<1>3. ASSUME NEW d \in Register, NEW n \in 0 .. MaxLength, NEW v \in Word, MemSet(d, n, v)
      PROVE  Inv'
  <2>1. pc = "run" BY <1>3, AccessedWords DEF MemSet
  <2>2. Integer(v) \in Value /\ Sound(Integer(v), known)
    BY AddressesAreIntegers, IntegersAreSound
  <2>3. mem' \in [Memory -> Value] BY <1>0, <1>3, <2>2 DEF MemSet
  <2>4. Assumed => \A a \in Memory : Sound(mem'[a], known)
    BY <1>3, <2>1, <2>2 DEF MemSet, Inv, AllRight
  <2> QED BY <1>3, <2>1, <2>3, <2>4, SettingMemory DEF MemSet
<1> QED BY <1>1, <1>2, <1>3

LEMMA InvNext == Inv /\ [Next]_vars => Inv'
<1> SUFFICES ASSUME Inv, [Next]_vars PROVE Inv' OBVIOUS
<1>1. CASE Refuse BY <1>1, Stopping DEF Refuse
<1>2. CASE SetUpGlobals BY <1>2, InvSetUpGlobals
<1>3. CASE \/ \E r \in Register, o \in Object \ Global : InstrumentAlloca(r, o)
           \/ \E r \in Register, v \in build.code : UseConstant(r, v)
  BY <1>3, InvAlloca, InvUseConstant
<1>4. CASE \/ \E r, s \in Register, d \in Shift : GetElementPtr(r, s, d)
           \/ \E r, s, t \in Register : Select(r, s, t)
  BY <1>4, InvDerived
<1>5. CASE \/ \E r \in Register, a \in Word : IntToPtr(r, a)
           \/ \E r, s \in Register : Load(r, s)
           \/ \E r, s \in Register : Pass(r, s)
  BY <1>5, InvEntering
<1>6. CASE \/ \E r, s \in Register : Store(r, s)
           \/ \E d, s \in Register, n \in 0 .. MaxLength : MemCpy(d, s, n)
           \/ \E d \in Register, n \in 0 .. MaxLength, v \in Word : MemSet(d, n, v)
  BY <1>6, InvMemory
<1>7. CASE \/ \E r \in Register : Escape(r)
           \/ \E r \in Register : CallPointer(r)
           \/ \E d, s \in Register, n \in 0 .. MaxLength : Stop({d, s}, n)
  <2>1. UNCHANGED <<build, known, mem, reg, wit, moved>> /\ pc' \in {"crashed", "reported"}
    BY <1>7 DEF Escape, CallPointer, Stop
  <2> QED BY <2>1, Stopping
<1>8. CASE UNCHANGED vars
  <2>1. UNCHANGED build /\ UNCHANGED <<pc, known, mem, reg, wit, moved>> BY <1>8 DEF vars
  <2>2. TypeOK' /\ build' \in Builds BY <2>1, BuildStays DEF Inv, TypeOK
  <2>3. CASE pc = "run"
    <3>1. Unmoved BY <1>8 DEF vars, Unmoved
    <3> QED BY <2>1, <2>3, <3>1, SettingMemory DEF Inv, TypeOK, AllRight
  <2>4. CASE pc # "run"
    <3>1. pc' = "compile" => NothingRan' BY <2>1 DEF Inv, NothingRan, Integer
    <3> QED BY <2>1, <2>2, <2>4, <3>1 DEF Inv
  <2> QED BY <2>3, <2>4
<1> QED BY <1>1, <1>2, <1>3, <1>4, <1>5, <1>6, <1>7, <1>8 DEF Next

LEMMA AlwaysInv == Spec => []Inv
<1> QED BY InvInit, InvNext, PTL DEF Spec

-----------------------------------------------------------------------------
(* What the invariant says *)

LEMMA InvWitnessesAreRight == Inv => WitnessesAreRight
<1> SUFFICES ASSUME Inv, pc = "run", Assumed
    PROVE  /\ \A r \in Register :
                /\ reg[r].of \in Bounded => Lookup(wit[r]) = Region(reg[r].of)
                /\ reg[r].of = "null" /\ ~Lowfat => wit[r] = 0
           /\ \A a \in Memory : Valid(mem[a])
  BY DEF WitnessesAreRight
<1>1. ASSUME NEW r \in Register, reg[r].of \in Bounded
      PROVE  Lookup(wit[r]) = Region(reg[r].of)
  <2>1. TypeOK /\ build \in Builds /\ wit[r] \in Int
    BY AddressesAreIntegers DEF Inv, TypeOK
  <2>2. reg[r].of \in known /\ Covers(Region(reg[r].of), wit[r])
    BY <1>1 DEF Inv, AllRight, Found
  <2> QED BY <2>1, <2>2, LookupFinds
<1> QED BY <1>1 DEF Inv, AllRight, Found, Sound

LEMMA InvNothingIsLeftOut == Inv => NothingIsLeftOut
<1> SUFFICES ASSUME Inv, pc = "run", Lowfat, NEW o \in Object, o \notin Bounded
    PROVE  IF o \in Global
           THEN o \in build.declared \/ build.noGlobals
                  \/ /\ build.allowUnsafe
                     /\ \/ o \in build.sectioned \/ build.linkage[o] \in {"appending", "extern_weak"}
                        \/ build.linkage[o] = "common" /\ ~build.commonToWeak
           ELSE \/ build.noStack \/ o \in Exempt
                \/ IF o \in Array THEN build.noVLA ELSE Size[o] >= MaxStack
  BY DEF NothingIsLeftOut
<1>1. ~Refused /\ o \notin Placed BY DEF Inv, Bounded
<1>2. CASE o \in Global
  <2>1. SUFFICES ASSUME o \notin build.declared, ~build.noGlobals
                 PROVE  /\ build.allowUnsafe
                        /\ \/ o \in build.sectioned \/ build.linkage[o] \in {"appending", "extern_weak"}
                           \/ build.linkage[o] = "common" /\ ~build.commonToWeak
    BY <1>2
  <2>2. o \in PrepareGlobals BY <1>2, <2>1 DEF PrepareGlobals
  <2>3. CannotBeInstrumented(o) BY <1>1, <2>1, <2>2 DEF Placed
  <2>4. ~GlobalError(o) BY <1>1, <2>1, <2>2 DEF Refused
  <2>5. build.allowUnsafe BY <2>3, <2>4 DEF GlobalError
  <2>6. \/ o \in build.sectioned \/ build.linkage[o] \in {"appending", "extern_weak"}
        \/ build.linkage[o] = "common" /\ ~build.commonToWeak
    BY <2>3 DEF CannotBeInstrumented, LinkageOf
  <2> QED BY <2>5, <2>6
<1>3. CASE o \notin Global
  <2>1. SUFFICES ASSUME ~build.noStack, o \notin Exempt, o \notin Array PROVE Size[o] >= MaxStack
    BY <1>1, <1>3 DEF Placed
  <2>2. TooLarge(o, MaxStack) BY <1>1, <1>3, <2>1 DEF Placed
  <2>3. /\ MaxStack \in 1 .. Highest /\ Highest \in Nat /\ Size[o] \in 1 .. Highest
        /\ \A n \in 1 .. MaxStack - 1 : SlotSize[n] < SlotSize[MaxStack]
        /\ \A n \in 1 .. Highest : SlotSize[n] \in Nat
    BY LayoutAssumption
  <2> QED BY <2>2, <2>3 DEF TooLarge
<1> QED BY <1>2, <1>3

-----------------------------------------------------------------------------
(* The program implements SpatialSafety *)

LEMMA RightsStay ==
  ASSUME UNCHANGED build
  PROVE  Rights' = Rights
<1>1. \A o : MayBounds(o, Bounded)' = MayBounds(o, Bounded) BY BuildStays DEF MayBounds
<1>2. \A o : MustBounds(o, Bounded)' = MustBounds(o, Bounded) BY BuildStays DEF MustBounds
<1>3. \A o : OutBounds(o, Bounded)' = OutBounds(o, Bounded) BY BuildStays DEF OutBounds
<1>4. \A o : EntryOf(o, Bounded)' = EntryOf(o, Bounded) BY BuildStays DEF EntryOf
<1>5. RightsWith(Bounded)' = RightsWith(Bounded) BY <1>1, <1>2, <1>3, <1>4 DEF RightsWith
<1> QED BY <1>5, BuildStays DEF Rights, NoRights

\* What rights are.
LEMMA RightsOfOrigin ==
  ASSUME NEW o \in Origin
  PROVE  IF Assumed
         THEN /\ Rights[o].may = MayBounds(o, Bounded) /\ Rights[o].must = MustBounds(o, Bounded)
              /\ Rights[o].out = OutBounds(o, Bounded) /\ Rights[o].entry = EntryOf(o, Bounded)
         ELSE /\ Rights[o].may = Wide /\ Rights[o].must = Nothing
              /\ Rights[o].out = Nothing /\ Rights[o].entry = {}
BY DEF Rights, RightsWith, NoRights

\* Checks of accesses allow no more than the rights of the origin, and no less
\* than it must have.
LEMMA ChecksAreRights ==
  ASSUME Inv, pc = "run", NEW r \in Register, NEW n \in Nat
  PROVE  /\ CheckDereference(wit[r], reg[r].at, n)
              => Safety!Within(Rights[reg[r].of].may, reg[r].at, n)
         /\ Safety!Within(Rights[reg[r].of].must, reg[r].at, n)
              => CheckDereference(wit[r], reg[r].at, n)
<1> DEFINE o == reg[r].of
           a == reg[r].at
           w == wit[r]
<1>0. /\ TypeOK /\ build \in Builds /\ o \in Origin /\ a \in Nat /\ w \in Address /\ w \in Int
      /\ Lookup(w).lo \in Nat /\ Lookup(w).hi \in Nat /\ Lookup(w).hi <= Highest + 1
  <2>1. TypeOK /\ build \in Builds /\ reg[r] \in Value /\ w \in Address BY DEF Inv, TypeOK
  <2> QED BY <2>1, LookupInMemory, Layout DEF Value, Address
<1>1. Assumed => Found(reg[r], w, known) BY DEF Inv, AllRight
<1>2. CASE ~Assumed
  <2>1. Rights[o].may = Wide /\ Rights[o].must = Nothing BY <1>0, <1>2, RightsOfOrigin
  <2> QED BY <1>0, <2>1, Layout DEF CheckDereference, Safety!Within, Wide, Nothing, Between
<1>3. CASE Assumed /\ o \in Bounded
  <2>1. Lookup(w) = Region(o) BY <1>0, <1>1, <1>3, LookupFinds DEF Found
  <2>2. Rights[o].may = Region(o) BY <1>0, <1>3, RightsOfOrigin DEF MayBounds
  <2>3. Rights[o].must = (IF o \in Object THEN Whole(o) ELSE Nothing)
    BY <1>0, <1>3, RightsOfOrigin DEF MustBounds
  <2>4. Safety!Within(Rights[o].must, a, n) => CheckDereference(w, a, n)
    <3>1. CASE o \in Object
      <4>1. Start[o] + Size[o] <= Region(o).hi /\ Region(o).lo = Start[o]
        BY <1>0, <1>3, <3>1, Regions, Layout
      <4> QED BY <1>0, <2>1, <2>3, <3>1, <4>1, Layout
              DEF CheckDereference, Safety!Within, Whole, Between
    <3>2. CASE o \notin Object
      BY <1>0, <2>3, <3>2 DEF Safety!Within, Nothing, Between
    <3> QED BY <3>1, <3>2
  <2> QED BY <2>1, <2>2, <2>4 DEF CheckDereference, Safety!Within
<1>4. CASE Assumed /\ o \notin Bounded
  <2>1. Rights[o].must = Nothing BY <1>0, <1>4, RightsOfOrigin DEF MustBounds
  <2>2. CASE o = "null" /\ ~Lowfat
    <3>1. w = 0 BY <1>1, <1>4, <2>2 DEF Found
    <3>2. Lookup(w) = Between(0, 0) BY <1>0, <2>2, <3>1, LookupInMemory
    <3>3. Rights[o].may = Between(0, 0) BY <1>0, <1>4, <2>2, RightsOfOrigin DEF MayBounds
    <3> QED BY <1>0, <2>1, <3>2, <3>3 DEF CheckDereference, Safety!Within, Nothing, Between
  <2>3. CASE ~(o = "null" /\ ~Lowfat)
    <3>1. Rights[o].may = Wide BY <1>0, <1>4, <2>3, RightsOfOrigin DEF MayBounds
    <3> QED BY <1>0, <2>1, <3>1, Layout DEF CheckDereference, Safety!Within, Wide, Nothing, Between
  <2> QED BY <2>2, <2>3
<1> QED BY <1>2, <1>3, <1>4

\* An invariant is not reported of a pointer that may be handed on.
LEMMA InvariantsAreRights ==
  ASSUME Inv, pc = "run", NEW r \in Register, Escapes(r)
  PROVE  ~Safety!Within(Rights[reg[r].of].out, reg[r].at, 0)
<1> DEFINE o == reg[r].of
           a == reg[r].at
           w == wit[r]
<1> SUFFICES ASSUME Safety!Within(Rights[o].out, a, 0) PROVE FALSE OBVIOUS
<1>0. /\ TypeOK /\ build \in Builds /\ o \in Origin /\ a \in Nat /\ w \in Address /\ w \in Int
      /\ ~CheckInbounds(w, a)
  <2>1. TypeOK /\ build \in Builds /\ reg[r] \in Value /\ w \in Address BY DEF Inv, TypeOK
  <2> QED BY <2>1, Layout DEF Value, Address, Escapes
<1>1. Rights[o].out # Nothing BY <1>0 DEF Safety!Within, Nothing, Between
<1>2. Assumed /\ Rights[o].out = OutBounds(o, Bounded) BY <1>0, <1>1, RightsOfOrigin
<1>3. Found(reg[r], w, known) BY <1>2 DEF Inv, AllRight
<1>4. CASE o \in Bounded \cap Object
  <2>1. OutBounds(o, Bounded) = Between(Start[o], Start[o] + Size[o] - (IF Lowfat THEN 0 ELSE 1))
    BY <1>4, Layout DEF OutBounds
  <2>2. Lookup(w) = Region(o) BY <1>0, <1>3, <1>4, LookupFinds DEF Found
  <2>3. Start[o] <= a /\ a <= Start[o] + Size[o] - (IF Lowfat THEN 0 ELSE 1)
    BY <1>0, <1>2, <2>1 DEF Safety!Within, Between
  <2>4. /\ Region(o).lo = Start[o] /\ Region(o).hi \in Nat
        /\ Start[o] + Size[o] + (IF Lowfat THEN 1 ELSE 0) <= Region(o).hi
        /\ Start[o] \in Nat /\ Size[o] \in Nat
    BY <1>0, <1>4, Regions, Layout
  <2>5. Covers(Region(o), a) BY <1>0, <2>3, <2>4 DEF Covers
  <2> QED BY <1>0, <2>2, <2>5 DEF CheckInbounds
<1>5. CASE o \in Bounded \cap Function
  <2>1. OutBounds(o, Bounded) = Between(Start[o], Start[o]) BY <1>5, Layout DEF OutBounds
  <2>2. Lookup(w) = Region(o) BY <1>0, <1>3, <1>5, LookupFinds DEF Found
  <2>3. a = Start[o] BY <1>0, <1>2, <1>5, <2>1, Layout DEF Safety!Within, Between
  <2>4. Covers(Region(o), a) BY <1>0, <1>5, <2>3, Regions DEF Covers
  <2> QED BY <1>0, <2>2, <2>4 DEF CheckInbounds
<1>6. CASE o \notin Bounded
  <2>1. o = "null" /\ ~Lowfat BY <1>1, <1>2, <1>6 DEF OutBounds
  <2>2. OutBounds(o, Bounded) = Between(0, 0) BY <1>6, <2>1 DEF OutBounds
  <2>3. a = 0 BY <1>0, <1>2, <2>2 DEF Safety!Within, Between
  <2>4. w = 0 BY <1>3, <2>1 DEF Found
  <2> QED BY <1>0, <2>1, <2>3, <2>4 DEF CheckInbounds
<1> QED BY <1>0, <1>4, <1>5, <1>6, BoundedObjects

\* What is accessed may be accessed.
LEMMA AccessesAreAllowed ==
  ASSUME Inv, NEW S \in SUBSET Register, NEW n \in Nat, Accesses(S, n), NEW s \in S
  PROVE  Safety!MayAccess(reg[s], n)
<1>1. pc = "run" /\ Words(reg[s].at, n) \subseteq Memory BY AccessedWords
<1>2. CheckDereference(wit[s], reg[s].at, n) BY DEF Accesses, Reported
<1> QED BY <1>1, <1>2, ChecksAreRights DEF Safety!MayAccess, Safety!Words, Words

LEMMA SafetyRuns ==
  ASSUME UNCHANGED build, UNCHANGED <<pc, fault>>
  PROVE  Safety!Goes
BY RightsStay DEF Safety!Goes

\* A step that sets a register, to what V names.
LEMMA SafetyGets ==
  ASSUME Inv, pc = "run", NEW r \in Register, NEW V, NEW v \in V, NEW w, NEW m, Sets(r, v, w, m)
  PROVE  Safety!Gets(r, V)
<1>1. Safety!Goes
  <2>1. UNCHANGED build /\ UNCHANGED <<pc, fault>> BY DEF Sets, Goes
  <2> QED BY <2>1, SafetyRuns
<1>2. reg'[r] = v BY DEF Inv, TypeOK, Sets
<1> QED BY <1>1, <1>2 DEF Sets, Safety!Gets

\* Code, allocas and casts give pointers.
LEMMA WhatIsGiven ==
  /\ \A b \in Builds : b.code \subseteq Given
  /\ \A o \in Object \ Global : [of |-> o, at |-> Start[o]] \in Given
  /\ \A a \in Word : [of |-> "cast", at |-> a] \in Given
<1>1. \A b \in Builds : b.code \subseteq Given BY DEF Given
<1>2. \A o \in Object \ Global : [of |-> o, at |-> Start[o]] \in Given BY DEF Given
<1>3. ASSUME NEW a \in Word PROVE [of |-> "cast", at |-> a] \in Given
  <2>1. [of |-> "cast", at |-> a] \in [of : {"cast"}, at : Word] OBVIOUS
  <2> QED BY <2>1 DEF Given
<1> QED BY <1>1, <1>2, <1>3

LEMMA SafetyGiven ==
  ASSUME Inv
  PROVE  /\ \A r \in Register, o \in Object \ Global : InstrumentAlloca(r, o) => Safety!Next
         /\ \A r \in Register, v \in build.code : UseConstant(r, v) => Safety!Next
         /\ \A r \in Register, a \in Word : IntToPtr(r, a) => Safety!Next
<1>1. ASSUME NEW r \in Register, NEW o \in Object \ Global, InstrumentAlloca(r, o)
      PROVE  Safety!Next
  <2>1. [of |-> o, at |-> Start[o]] \in Given BY WhatIsGiven
  <2>2. pc = "run" BY <1>1 DEF InstrumentAlloca, Executes
  <2>3. Safety!Give(r) BY <1>1, <2>1, <2>2, SafetyGets DEF InstrumentAlloca, Safety!Give
  <2> QED BY <2>3 DEF Safety!Next
<1>2. ASSUME NEW r \in Register, NEW v \in build.code, UseConstant(r, v) PROVE Safety!Next
  <2>1. v \in Given BY WhatIsGiven DEF Inv
  <2>2. pc = "run" BY <1>2 DEF UseConstant, Executes
  <2>3. Safety!Give(r) BY <1>2, <2>1, <2>2, SafetyGets DEF UseConstant, Safety!Give
  <2> QED BY <2>3 DEF Safety!Next
<1>3. ASSUME NEW r \in Register, NEW a \in Word, IntToPtr(r, a) PROVE Safety!Next
  <2>1. [of |-> "cast", at |-> a] \in Given BY WhatIsGiven
  <2>2. pc = "run" BY <1>3 DEF IntToPtr, Executes
  <2>3. Safety!Give(r) BY <1>3, <2>1, <2>2, SafetyGets DEF IntToPtr, Enters, Safety!Give
  <2> QED BY <2>3 DEF Safety!Next
<1> QED BY <1>1, <1>2, <1>3

LEMMA SafetyDerived ==
  ASSUME Inv
  PROVE  /\ \A r, s \in Register, d \in Shift : GetElementPtr(r, s, d) => Safety!Next
         /\ \A r, s, t \in Register : Select(r, s, t) => Safety!Next
         /\ \A r, s \in Register : Pass(r, s) => Safety!Next
         /\ \A r, s \in Register : Load(r, s) => Safety!Next
<1>0. \A s \in Register : reg[s] \in Value /\ reg[s] \in [of : {reg[s].of}, at : Address]
  BY DEF Inv, TypeOK, Value
<1>1. ASSUME NEW r \in Register, NEW s \in Register, NEW d \in Shift, GetElementPtr(r, s, d)
      PROVE  Safety!Next
  <2> DEFINE v == [reg[s] EXCEPT !.at = @ + d]
  <2>1. v \in [of : {reg[s].of}, at : Address] BY <1>0, <1>1 DEF GetElementPtr, Value
  <2>2. pc = "run" BY <1>1 DEF GetElementPtr, Executes
  <2>3. Safety!Gets(r, [of : {reg[s].of}, at : Address])
    BY <1>1, <2>1, <2>2, SafetyGets DEF GetElementPtr
  <2>4. Safety!Derive(r, s) BY <2>3 DEF Safety!Derive, Safety!Address, Address
  <2> QED BY <2>4 DEF Safety!Next
<1>2. ASSUME NEW r \in Register, NEW s \in Register, NEW t \in Register, Select(r, s, t)
      PROVE  Safety!Next
  <2>1. PICK c \in {s, t} : Sets(r, reg[c], wit[c], moved[s] \/ moved[t])
    BY <1>2 DEF Select
  <2>2. pc = "run" BY <1>2 DEF Select, Executes
  <2>3. Safety!Gets(r, [of : {reg[c].of}, at : Address]) BY <1>0, <2>1, <2>2, SafetyGets
  <2>4. Safety!Derive(r, c) BY <2>3 DEF Safety!Derive, Safety!Address, Address
  <2> QED BY <2>4 DEF Safety!Next
<1>3. ASSUME NEW r \in Register, NEW s \in Register, Pass(r, s) PROVE Safety!Next
  <2>1. pc = "run" /\ Sets(r, reg[s], GetWitness(reg[s].at), FALSE)
    BY <1>3 DEF Pass, Executes, Enters
  <2>2. Safety!Gets(r, [of : {reg[s].of}, at : Address]) BY <1>0, <2>1, SafetyGets
  <2>3. Safety!Derive(r, s) BY <2>2 DEF Safety!Derive, Safety!Address, Address
  <2> QED BY <2>3 DEF Safety!Next
<1>4. ASSUME NEW r \in Register, NEW s \in Register, Load(r, s) PROVE Safety!Next
  <2>1. Safety!MayAccess(reg[s], 1) BY <1>4, AccessesAreAllowed DEF Load
  <2>2. pc = "run" BY <1>4, AccessedWords DEF Load
  <2>3. Safety!Gets(r, {mem[reg[s].at]}) BY <1>4, <2>2, SafetyGets DEF Load, Enters
  <2>4. Safety!Load(r, s) BY <2>1, <2>3 DEF Safety!Load
  <2> QED BY <2>4 DEF Safety!Next
<1> QED BY <1>1, <1>2, <1>3, <1>4

LEMMA SafetyMemory ==
  ASSUME Inv
  PROVE  /\ \A r, s \in Register : Store(r, s) => Safety!Next
         /\ \A d, s \in Register, n \in 0 .. MaxLength : MemCpy(d, s, n) => Safety!Next
         /\ \A d \in Register, n \in 0 .. MaxLength, v \in Word : MemSet(d, n, v) => Safety!Next
<1>0. 1 \in 0 .. MaxLength /\ 0 .. MaxLength \subseteq Nat BY LayoutAssumption
<1>1. ASSUME NEW r \in Register, NEW s \in Register, Store(r, s) PROVE Safety!Next
  <2>1. Safety!MayAccess(reg[s], 1) BY <1>1, AccessesAreAllowed DEF Store
  <2>2. pc = "run" BY <1>1, AccessedWords DEF Store
  <2>3. Safety!Goes BY <1>1, SafetyRuns DEF Store, Unmoved
  <2>4. Safety!Store(r, s) BY <1>1, <2>1, <2>2, <2>3 DEF Store, Unmoved, Safety!Store
  <2> QED BY <2>4 DEF Safety!Next
<1>2. ASSUME NEW d \in Register, NEW s \in Register, NEW n \in 0 .. MaxLength, MemCpy(d, s, n)
      PROVE  Safety!Next
  <2>1. Safety!MayAccess(reg[d], n) /\ Safety!MayAccess(reg[s], n)
    <3>1. n \in Nat /\ Accesses({d, s}, n) BY <1>0, <1>2 DEF MemCpy
    <3> QED BY <3>1, AccessesAreAllowed
  <2>2. pc = "run" BY <1>2, AccessedWords DEF MemCpy
  <2>3. Safety!Goes BY <1>2, SafetyRuns DEF MemCpy, Unmoved
  <2>4. Safety!Copy(d, s, n)
    BY <1>2, <2>1, <2>2, <2>3 DEF MemCpy, Unmoved, Words, Safety!Words, Safety!Copy
  <2> QED BY <2>4 DEF Safety!Next
<1>3. ASSUME NEW d \in Register, NEW n \in 0 .. MaxLength, NEW v \in Word, MemSet(d, n, v)
      PROVE  Safety!Next
  <2>1. Safety!MayAccess(reg[d], n) BY <1>0, <1>3, AccessesAreAllowed DEF MemSet
  <2>2. pc = "run" /\ Words(reg[d].at, n) \subseteq Memory BY <1>3, AccessedWords DEF MemSet
  <2>3. Safety!Goes BY <1>3, SafetyRuns DEF MemSet, Unmoved
  <2>4. Integer(v) \in Safety!Integer
    BY AddressesAreIntegers DEF Integer, Safety!Integer, Safety!Address, Address
  <2>5. mem' = [a \in Memory |-> IF a \in Words(reg[d].at, n) THEN Integer(v) ELSE mem[a]]
    BY <1>3 DEF MemSet
  <2>6. \A a \in Words(reg[d].at, n) : mem'[a] \in Safety!Integer BY <2>2, <2>4, <2>5
  <2>7. mem' = [a \in Memory |-> IF a \in Words(reg[d].at, n) THEN mem'[a] ELSE mem[a]]
    BY <2>5
  <2>8. UNCHANGED reg BY <1>3 DEF MemSet, Unmoved
  <2>9. Safety!Fill(d, n)
    BY <2>1, <2>2, <2>3, <2>6, <2>7, <2>8 DEF Safety!Fill, Safety!Words, Words
  <2> QED BY <2>9 DEF Safety!Next
<1> QED BY <1>1, <1>2, <1>3

\* Only what lacks a right is reported, and only words that do not exist crash.
LEMMA SafetyStops ==
  ASSUME Inv
  PROVE  /\ \A d, s \in Register, n \in 0 .. MaxLength : Stop({d, s}, n) => Safety!Next
         /\ \A r \in Register : Escape(r) => Safety!Next
         /\ \A r \in Register : CallPointer(r) => Safety!Next
<1> USE DEF Executes
<1>0. 0 .. MaxLength \subseteq Nat /\ 0 \in 0 .. MaxLength BY LayoutAssumption
<1>1. ASSUME NEW d \in Register, NEW e \in Register, NEW n \in 0 .. MaxLength, Stop({d, e}, n)
      PROVE  Safety!Next
  <2>1. PICK s \in {d, e} :
          /\ \/ Reported({s}, n) /\ pc' = "reported"
             \/ Crashes({d, e}, n) /\ ~(Words(reg[s].at, n) \subseteq Memory) /\ pc' = "crashed"
          /\ fault' = Fault("access", s, n)
    BY <1>1 DEF Stop
  <2>2. pc = "run" /\ UNCHANGED build /\ UNCHANGED <<mem, reg>> /\ n \in Nat
    BY <1>0, <1>1 DEF Stop
  <2>3. Safety!Stops(pc', Safety!Fault("access", reg[s], n))
    BY <2>1, <2>2, RightsStay DEF Safety!Stops, Safety!Fault, Fault
  <2>4. Safety!Report(reg[s], n) \/ Safety!Crash(reg[s], n)
    <3>1. CASE Reported({s}, n) /\ pc' = "reported"
      <4>1. ~Safety!Within(Rights[reg[s].of].must, reg[s].at, n)
        BY <2>2, <3>1, ChecksAreRights DEF Reported
      <4> QED BY <2>3, <3>1, <4>1 DEF Safety!Report
    <3>2. CASE Crashes({d, e}, n) /\ ~(Words(reg[s].at, n) \subseteq Memory) /\ pc' = "crashed"
      <4>1. CheckDereference(wit[s], reg[s].at, n) BY <3>2 DEF Crashes, Reported
      <4>2. Safety!Within(Rights[reg[s].of].may, reg[s].at, n)
        BY <2>2, <4>1, ChecksAreRights
      <4> QED BY <2>3, <3>2, <4>2 DEF Safety!Crash, Safety!Words, Words
    <3> QED BY <2>1, <3>1, <3>2
  <2> QED BY <2>4 DEF Safety!Next
<1>2. ASSUME NEW r \in Register, Escape(r) PROVE Safety!Next
  <2>1. /\ pc = "run" /\ UNCHANGED build /\ UNCHANGED <<mem, reg>> /\ Escapes(r)
        /\ pc' = "reported" /\ fault' = Fault("outflow", r, 0)
    BY <1>2 DEF Escape
  <2>2. Safety!Stops("reported", Safety!Fault("outflow", reg[r], 0))
    BY <2>1, RightsStay DEF Safety!Stops, Safety!Fault, Fault
  <2>3. ~Safety!Within(Rights[reg[r].of].out, reg[r].at, 0) BY <2>1, InvariantsAreRights
  <2>4. Safety!Report(reg[r], 0) BY <2>2, <2>3 DEF Safety!Report
  <2> QED BY <1>0, <2>4 DEF Safety!Next
<1>3. ASSUME NEW r \in Register, CallPointer(r) PROVE Safety!Next
  <2>1. pc = "run" /\ UNCHANGED build /\ UNCHANGED <<mem, reg>> BY <1>3 DEF CallPointer
  <2>2. Safety!Stops(pc', Safety!Fault("call", reg[r], 0))
    BY <1>3, <2>1, RightsStay DEF CallPointer, Safety!Stops, Safety!Fault, Fault
  <2>3. /\ TypeOK /\ build \in Builds /\ reg[r].of \in Origin /\ wit[r] \in Int
    BY AddressesAreIntegers DEF Inv, TypeOK, Value
  <2>4. Safety!Report(reg[r], 0) \/ Safety!Crash(reg[r], 0)
    <3>1. CASE CheckDereference(wit[r], reg[r].at, 1)
      <4>1. pc' = "crashed" /\ ~\E f \in Function : Start[f] = reg[r].at
        BY <1>3, <3>1 DEF CallPointer
      <4>2. \A o \in Origin : reg[r].at \notin Rights[o].entry
        BY <4>1, RightsOfOrigin DEF EntryOf
      <4> QED BY <2>2, <4>1, <4>2 DEF Safety!Crash
    <3>2. CASE ~CheckDereference(wit[r], reg[r].at, 1)
      <4>1. pc' = "reported" BY <1>3, <3>2 DEF CallPointer
      <4>2. reg[r].at \notin Rights[reg[r].of].entry
        <5> SUFFICES ASSUME reg[r].at \in Rights[reg[r].of].entry PROVE FALSE OBVIOUS
        <5>1. Assumed /\ reg[r].of \in Bounded \cap Function /\ reg[r].at = Start[reg[r].of]
          <6>1. Rights[reg[r].of].entry # {} OBVIOUS
          <6>2. Assumed /\ Rights[reg[r].of].entry = EntryOf(reg[r].of, Bounded)
            BY <2>3, <6>1, RightsOfOrigin
          <6> QED BY <6>1, <6>2 DEF EntryOf
        <5>2. Found(reg[r], wit[r], known) BY <2>1, <5>1 DEF Inv, AllRight
        <5>3. Lookup(wit[r]) = Region(reg[r].of) BY <2>3, <5>1, <5>2, LookupFinds DEF Found
        <5>4. Region(reg[r].of) = Entry(reg[r].of) BY <2>3, <5>1, Regions
        <5>5. Start[reg[r].of] \in Nat BY <5>1, Layout
        <5> QED BY <3>2, <5>1, <5>3, <5>4, <5>5 DEF CheckDereference, Entry, Between
      <4> QED BY <2>2, <4>1, <4>2 DEF Safety!Report
    <3> QED BY <3>1, <3>2
  <2> QED BY <1>0, <2>4 DEF Safety!Next
<1> QED BY <1>1, <1>2, <1>3

LEMMA SafetyInit == Inv /\ Init => Safety!Init
<1> SUFFICES ASSUME Inv, Init PROVE Safety!Init OBVIOUS
<1>0. TypeOK /\ build \in Builds BY DEF Inv
<1>1. \A l, h \in Int : Between(l, h) \in Safety!Interval BY DEF Between, Safety!Interval
<1>2. Wide \in Safety!Interval /\ Nothing \in Safety!Interval
  BY <1>1, Layout DEF Wide, Nothing
<1>3. ASSUME NEW o \in Origin
      PROVE  /\ MayBounds(o, Bounded) \in Safety!Interval
             /\ MustBounds(o, Bounded) \in Safety!Interval
             /\ OutBounds(o, Bounded) \in Safety!Interval
             /\ EntryOf(o, Bounded) \subseteq Safety!Address
  <2>1. MayBounds(o, Bounded) \in Safety!Interval BY <1>0, <1>1, <1>2, Regions DEF MayBounds
  <2>2. MustBounds(o, Bounded) \in Safety!Interval
    BY <1>1, <1>2, Layout DEF MustBounds, Whole
  <2>3. ASSUME o \in Bounded \cap Object PROVE OutBounds(o, Bounded) \in Safety!Interval
    <3>1. OutBounds(o, Bounded)
            = Between(Start[o], Start[o] + Size[o] - (IF Lowfat THEN 0 ELSE 1))
      BY <2>3, Layout DEF OutBounds
    <3> QED BY <1>1, <2>3, <3>1, Layout
  <2>4. ASSUME o \notin Bounded \cap Object PROVE OutBounds(o, Bounded) \in Safety!Interval
    <3>1. OutBounds(o, Bounded)
            \in (IF o \in Bounded \cap Function THEN {Between(Start[o], Start[o])} ELSE {})
                  \cup {Between(0, 0), Nothing}
      BY <2>4, Layout DEF OutBounds
    <3> QED BY <1>1, <1>2, <3>1, Layout
  <2>5. EntryOf(o, Bounded) \subseteq Safety!Address
    BY Layout DEF EntryOf, Safety!Address
  <2> QED BY <2>1, <2>2, <2>3, <2>4, <2>5
<1>4. RightsWith(Bounded) \in [Origin -> Safety!Rights]
  BY <1>3 DEF RightsWith, Safety!Rights
<1>5. NoRights \in [Origin -> Safety!Rights] BY <1>2 DEF NoRights, Safety!Rights
<1>6. Safety!Value = Value BY DEF Safety!Value, Value, Safety!Address, Address
<1> QED BY <1>0, <1>4, <1>5, <1>6 DEF Init, TypeOK, Rights, Safety!Init, Safety!NoFault

LEMMA SafetyNext == Inv /\ [Next]_vars => [Safety!Next]_(Safety!vars)
<1> SUFFICES ASSUME Inv, [Next]_vars PROVE Safety!Next \/ UNCHANGED Safety!vars OBVIOUS
<1>1. CASE Refuse \/ SetUpGlobals
  <2>1. /\ pc = "compile" /\ pc' \in {"run", "refused"}
        /\ UNCHANGED build /\ UNCHANGED <<mem, reg, fault>>
    BY <1>1 DEF Refuse, SetUpGlobals
  <2> QED BY <2>1, RightsStay DEF Safety!Compile, Safety!Next
<1>2. CASE \/ \E r \in Register, o \in Object \ Global : InstrumentAlloca(r, o)
           \/ \E r \in Register, v \in build.code : UseConstant(r, v)
           \/ \E r \in Register, a \in Word : IntToPtr(r, a)
  BY <1>2, SafetyGiven
<1>3. CASE \/ \E r, s \in Register, d \in Shift : GetElementPtr(r, s, d)
           \/ \E r, s, t \in Register : Select(r, s, t)
           \/ \E r, s \in Register : Load(r, s)
           \/ \E r, s \in Register : Pass(r, s)
  BY <1>3, SafetyDerived
<1>4. CASE \/ \E r, s \in Register : Store(r, s)
           \/ \E d, s \in Register, n \in 0 .. MaxLength : MemCpy(d, s, n)
           \/ \E d \in Register, n \in 0 .. MaxLength, v \in Word : MemSet(d, n, v)
  BY <1>4, SafetyMemory
<1>5. CASE \/ \E r \in Register : Escape(r)
           \/ \E r \in Register : CallPointer(r)
           \/ \E d, s \in Register, n \in 0 .. MaxLength : Stop({d, s}, n)
  BY <1>5, SafetyStops
<1>6. CASE UNCHANGED vars
  <2>1. UNCHANGED build /\ UNCHANGED <<pc, mem, reg, fault>> BY <1>6 DEF vars
  <2> QED BY <2>1, RightsStay DEF Safety!vars
<1> QED BY <1>1, <1>2, <1>3, <1>4, <1>5, <1>6 DEF Next

-----------------------------------------------------------------------------
(* Theorems *)

\* Registers and words keep their types, and only what can have bounds is known.
THEOREM AddressesTypeCorrect == Spec => []TypeOK
<1>1. Inv => TypeOK BY DEF Inv
<1> QED BY <1>1, AlwaysInv, PTL

\* A witness leads to the bounds of the object that its pointer was derived
\* from, through arithmetic, selects, memory and calls, as soon as the pointers
\* that nothing checks are valid.
THEOREM LookupsAreRight == Spec => []WitnessesAreRight
<1> QED BY InvWitnessesAreRight, AlwaysInv, PTL

\* Lowfat refuses a module, or has bounds for each of its objects that no option
\* and no size excludes.
THEOREM NothingLeftOut == Spec => []NothingIsLeftOut
<1> QED BY InvNothingIsLeftOut, AlwaysInv, PTL

\* The program with bounds found by address promises what SpatialSafety says:
\* every initial state and every step of it is one of the ideal program.
THEOREM AddressBoundsAreSafe == Spec => IsSafe
<1>1. Init => Safety!Init BY InvInit, SafetyInit
<1> QED BY <1>1, AlwaysInv, SafetyNext, PTL DEF Spec, IsSafe, Safety!Spec

=============================================================================
