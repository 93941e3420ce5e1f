----------------------- MODULE SoftBoundMetadataProofs -----------------------
(***************************************************************************)
(* For every layout of memory, every module and every option, the table of *)
(* the run-time has the bounds of every pointer in memory, and checks pass *)
(* exactly inside the object that a pointer was derived from.              *)
(***************************************************************************)
EXTENDS SoftBoundMetadata, TLAPS

\* What a module may give to words and use in instructions.
WellFormed(c) ==
  /\ c \in Constant
  /\ c.kind = "object" => c.of \in Object \ Local
  /\ c.kind = "function" => c.of \in Function
  /\ c.kind \in {"null", "undef"} => c.of = "null"
  /\ c.kind = "inttoptr" => c.of \in {"cast", "literal"}
  /\ c.kind = "data" => c.of = "integer"

OptionsOK == source \in Sources /\ intToPtr \in Handling /\ zeroSized \in Handling

\* Every pointer has its bounds, in memory and in registers.
AllFit ==
  /\ \A a \in Memory : Fits(mem[a], table[a])
  /\ \A r \in Register : Fits(reg[r], wit[r])

\* Before the constructor has run, memory is initialized and registers are not.
NothingRan ==
  /\ mem = [a \in Memory |-> IF a \in DOMAIN source.init THEN ValueOf(source.init[a])
                             ELSE Integer(0)]
  /\ \A r \in Register : reg[r] = Integer(0)

Inv ==
  /\ TypeOK /\ OptionsOK
  /\ pc = "compile" => NothingRan
  /\ pc = "run" => ~Refused /\ AllFit

\* The constants of a module are well-formed.
LEMMA SourcesWellFormed ==
  ASSUME NEW s \in Sources
  PROVE  /\ \A a \in DOMAIN s.init :
              WellFormed(s.init[a]) /\ (s.init[a].kind = "inttoptr" => s.init[a].of = "cast")
         /\ \A c \in s.code :
              WellFormed(c) /\ c.kind # "data" /\ (c.kind = "inttoptr" => c.of = "literal")
         /\ DOMAIN s.init \subseteq Memory
BY SourceAssumption DEF WellFormed

\* Bounds of objects and functions are addresses.
LEMMA BoundsAreAddresses ==
  /\ \A o \in Object : Between(Start[o], Start[o] + Size[o]) \in Bounds
  /\ \A o \in Object \cup Function :
       Between(Start[o], Start[o]) \in Bounds /\ Between(Start[o], Highest) \in Bounds
  /\ \A o \in Local : Between(Start[o], Start[o] + Element[o]) \in Bounds
  /\ Between(0, 0) \in Bounds /\ Between(0, Highest) \in Bounds
<1> Highest \in Nat BY LayoutAssumption
<1>1. ASSUME NEW o \in Object PROVE Between(Start[o], Start[o] + Size[o]) \in Bounds
  <2>1. Start[o] \in 1 .. Highest /\ Size[o] \in Nat \ {0} /\ Start[o] + Size[o] <= Highest
    BY LayoutAssumption
  <2> QED BY <2>1 DEF Between, Bounds, Address
<1>2. ASSUME NEW o \in Object \cup Function
      PROVE Between(Start[o], Start[o]) \in Bounds /\ Between(Start[o], Highest) \in Bounds
  <2>1. Start[o] \in 1 .. Highest BY LayoutAssumption
  <2> QED BY <2>1 DEF Between, Bounds, Address
<1>3. ASSUME NEW o \in Local PROVE Between(Start[o], Start[o] + Element[o]) \in Bounds
  <2>1. /\ Start[o] \in 1 .. Highest /\ Size[o] \in Nat \ {0} /\ Start[o] + Size[o] <= Highest
        /\ Element[o] \in 1 .. Size[o]
    BY LayoutAssumption
  <2> QED BY <2>1 DEF Between, Bounds, Address
<1>4. Between(0, 0) \in Bounds /\ Between(0, Highest) \in Bounds
  BY DEF Between, Bounds, Address
<1> QED BY <1>1, <1>2, <1>3, <1>4

\* An initializer that is not refused gives a word the bounds of its value.
LEMMA InitializersFit ==
  ASSUME OptionsOK, NEW c, WellFormed(c), c.kind = "inttoptr" => c.of = "cast",
         HandleInitializer(c) # NoBounds, c.kind # "data"
  PROVE  Fits(ValueOf(c), HandleInitializer(c)) /\ HandleInitializer(c) \in Bounds
<1> USE LayoutAssumption, BoundsAreAddresses
    DEF WellFormed, HandleInitializer, Constant, Fits, ValueOf, BoundsOfOrigin, OptionsOK,
        Handling, Objectless
<1>1. CASE c.kind = "object"
  <2>1. c.of \in Object /\ c.of \notin Local /\ c.of \notin Function BY <1>1
  <2>2. GetBoundsConst(c.of) \in Bounds
    BY <1>1, <2>1 DEF GetBoundsConst, GetBoundsForZeroSizedArray, GetWideBounds, Between
  <2> QED BY <1>1, <2>1, <2>2
<1>2. CASE c.kind = "function"
  BY <1>2 DEF GetBoundsForFun
<1>3. CASE c.kind = "null"
  BY <1>3 DEF GetNullPtrBounds
<1>4. CASE c.kind = "inttoptr"
  BY <1>4 DEF GetBoundsForIntToPtrCast, GetNullPtrBounds, GetWideBounds
<1>5. CASE c.kind = "undef"
  BY <1>5
<1> QED BY <1>1, <1>2, <1>3, <1>4, <1>5

\* The same of a constant in the code.
LEMMA WitnessesFit ==
  ASSUME OptionsOK, NEW c, WellFormed(c), c.kind = "inttoptr" => c.of = "literal",
         GetBoundsForWitness(c) # NoBounds, c.kind # "data"
  PROVE  Fits(ValueOf(c), GetBoundsForWitness(c)) /\ GetBoundsForWitness(c) \in Bounds
<1> USE LayoutAssumption, BoundsAreAddresses
    DEF WellFormed, GetBoundsForWitness, Constant, Fits, ValueOf, BoundsOfOrigin, OptionsOK,
        Handling, Objectless
<1>1. CASE c.kind = "object"
  <2>1. c.of \in Object /\ c.of \notin Local /\ c.of \notin Function BY <1>1
  <2>2. GetBoundsConst(c.of) \in Bounds
    BY <1>1, <2>1 DEF GetBoundsConst, GetBoundsForZeroSizedArray, GetWideBounds, Between
  <2> QED BY <1>1, <2>1, <2>2
<1>2. CASE c.kind = "function"
  BY <1>2 DEF GetBoundsForFun
<1>3. CASE c.kind \in {"null", "undef", "inttoptr"}
  BY <1>3 DEF GetNullPtrBounds
<1> QED BY <1>1, <1>2, <1>3

-----------------------------------------------------------------------------
(* The kinds of steps *)

\* A program that runs gets proper bounds for the constants in its code.
LEMMA CodeFits ==
  ASSUME OptionsOK, ~Refused, NEW c \in source.code
  PROVE  /\ Fits(ValueOf(c), GetBoundsForWitness(c)) /\ GetBoundsForWitness(c) \in Bounds
         /\ ValueOf(c) \in Value
<1>1. WellFormed(c) /\ c.kind # "data" /\ (c.kind = "inttoptr" => c.of = "literal")
  BY SourcesWellFormed DEF OptionsOK
<1>2. GetBoundsForWitness(c) # NoBounds BY DEF Refused
<1>3. ValueOf(c) \in Value BY <1>1 DEF WellFormed, Constant, ValueOf, Value
<1> QED BY <1>1, <1>2, <1>3, WitnessesFit

\* Whether a module is refused depends on the module and the options.
LEMMA RefusedStays ==
  ASSUME UNCHANGED compiled
  PROVE  Refused' = Refused
<1> USE DEF compiled
<1>1. GetBoundsForIntToPtrCast' = GetBoundsForIntToPtrCast
  BY DEF GetBoundsForIntToPtrCast
<1>2. \A o : GetBoundsConst(o)' = GetBoundsConst(o)
  BY DEF GetBoundsConst, GetBoundsForZeroSizedArray
<1>3. \A c : GetBoundsForWitness(c)' = GetBoundsForWitness(c)
  BY <1>2 DEF GetBoundsForWitness
<1>4. \A c : HandleInitializer(c)' = HandleInitializer(c)
  BY <1>1, <1>2 DEF HandleInitializer
<1> QED BY <1>3, <1>4 DEF Refused

\* A step that puts a pointer and its bounds in a register.
LEMMA SettingARegister ==
  ASSUME Inv, pc = "run", NEW r \in Register, NEW v \in Value, NEW b \in Bounds,
         Fits(v, b), Sets(r, v, b)
  PROVE  Inv'
<1> USE DEF Inv
<1>1. TypeOK' BY DEF TypeOK, Sets, Goes
<1>2. OptionsOK' /\ pc' = "run" BY DEF OptionsOK, Sets, Goes, compiled
<1>3. UNCHANGED compiled /\ ~Refused' BY RefusedStays DEF Sets
<1>4. \A a \in Memory : Fits(mem'[a], table'[a])
  BY DEF AllFit, Sets
<1>5. \A s \in Register : Fits(reg'[s], wit'[s])
  BY DEF AllFit, Sets, TypeOK
<1>6. AllFit'
  BY <1>3, <1>4, <1>5 DEF AllFit, Fits, compiled, BoundsOfOrigin, GetBoundsConst,
     GetBoundsForZeroSizedArray, GetBoundsForIntToPtrCast
<1> QED BY <1>1, <1>2, <1>3, <1>6

\* A step that changes words in memory and the table.
LEMMA SettingMemory ==
  ASSUME Inv, pc = "run", Goes, UNCHANGED <<compiled, reg, wit>>,
         mem' \in [Memory -> Value], table' \in [Memory -> Bounds],
         \A a \in Memory : Fits(mem'[a], table'[a])
  PROVE  Inv'
<1> USE DEF Inv
<1>1. TypeOK' BY DEF TypeOK, Goes
<1>2. OptionsOK' /\ pc' = "run" BY DEF OptionsOK, Goes, compiled
<1>3. ~Refused' BY RefusedStays
<1>4. \A s \in Register : Fits(reg'[s], wit'[s])
  BY DEF AllFit
<1>5. AllFit'
  BY <1>4 DEF AllFit, Fits, compiled, BoundsOfOrigin, GetBoundsConst,
     GetBoundsForZeroSizedArray, GetBoundsForIntToPtrCast
<1> QED BY <1>1, <1>2, <1>3, <1>5

\* A step that ends the program.
LEMMA Stopping ==
  ASSUME Inv, UNCHANGED <<compiled, mem, table, reg, wit>>,
         pc' \in {"refused", "reported", "crashed"}
  PROVE  Inv'
BY DEF Inv, TypeOK, OptionsOK, compiled

\* An integer in memory fits any bounds.
LEMMA IntegersFit ==
  ASSUME NEW a \in Address
  PROVE  Integer(a) \in Value /\ \A b : Fits(Integer(a), b)
BY LayoutAssumption DEF Integer, Value, Origin, Objectless, Fits

\* Words that are accessed are in memory, and integers are addresses.
LEMMA AddressesAreIntegers == Address \subseteq Int /\ Highest \in Nat /\ Word \subseteq Address
BY LayoutAssumption DEF Address

LEMMA AccessedWords ==
  ASSUME NEW S, NEW n, Accesses(S, n), NEW s \in S
  PROVE  Words(reg[s].at, n) \subseteq Memory /\ pc = "run"
BY DEF Accesses, Executes, Crashes

-----------------------------------------------------------------------------

LEMMA InvInit == Init => Inv
<1> SUFFICES ASSUME Init PROVE Inv OBVIOUS
<1> USE DEF Init
<1>1. OptionsOK BY DEF OptionsOK
<1>2. NothingRan BY DEF NothingRan
<1>3. 0 \in Address BY AddressesAreIntegers DEF Address
<1>4. mem \in [Memory -> Value]
  <2>1. ASSUME NEW a \in DOMAIN source.init PROVE ValueOf(source.init[a]) \in Value
    <3>1. WellFormed(source.init[a]) BY SourcesWellFormed
    <3> QED BY <3>1 DEF WellFormed, Constant, ValueOf, Value
  <2> QED BY <2>1, <1>3, IntegersFit
<1>5. TypeOK
  BY <1>3, <1>4, IntegersFit, BoundsAreAddresses DEF TypeOK, GetNullPtrBounds
<1> QED BY <1>1, <1>2, <1>5 DEF Inv

\* The constructor gives every word that an initializer makes a pointer the
\* bounds of that pointer; all other words are integers.
LEMMA InvSetUpGlobals == Inv /\ SetUpGlobals => Inv'
<1> SUFFICES ASSUME Inv, SetUpGlobals PROVE Inv' OBVIOUS
<1> USE DEF Inv, SetUpGlobals
<1>1. OptionsOK /\ ~Refused /\ NothingRan OBVIOUS
<1>2. 0 \in Address BY AddressesAreIntegers DEF Address
<1>3. ASSUME NEW a \in Memory
      PROVE  table'[a] \in Bounds /\ Fits(mem[a], table'[a])
  <2>1. CASE a \in DOMAIN source.init /\ source.init[a].kind # "data"
    <3>1. /\ WellFormed(source.init[a])
          /\ source.init[a].kind = "inttoptr" => source.init[a].of = "cast"
      BY <2>1, SourcesWellFormed DEF OptionsOK
    <3>2. HandleInitializer(source.init[a]) # NoBounds BY <2>1 DEF Refused
    <3>3. table'[a] = HandleInitializer(source.init[a]) BY <2>1
    <3>4. mem[a] = ValueOf(source.init[a]) BY <2>1 DEF NothingRan
    <3> QED BY <2>1, <3>1, <3>2, <3>3, <3>4, InitializersFit
  <2>2. CASE ~(a \in DOMAIN source.init /\ source.init[a].kind # "data")
    <3>1. table'[a] = table[a] BY <2>2
    <3>2. table[a] \in Bounds BY DEF TypeOK
    <3>3. mem[a].of = "integer"
      <4>1. CASE a \in DOMAIN source.init
        <5>1. WellFormed(source.init[a]) BY <4>1, SourcesWellFormed DEF OptionsOK
        <5> QED BY <4>1, <5>1, <2>2 DEF NothingRan, WellFormed, ValueOf
      <4>2. CASE a \notin DOMAIN source.init
        BY <4>2 DEF NothingRan, Integer
      <4> QED BY <4>1, <4>2
    <3> QED BY <3>1, <3>2, <3>3, LayoutAssumption DEF Fits, Objectless
  <2> QED BY <2>1, <2>2
<1>4. table' \in [Memory -> Bounds] BY <1>3
<1>5. \A r \in Register : Fits(reg[r], wit[r]) BY <1>2, IntegersFit DEF NothingRan
<1>6. AllFit'
  BY <1>3, <1>5 DEF AllFit, Fits, compiled, BoundsOfOrigin, GetBoundsConst,
     GetBoundsForZeroSizedArray, GetBoundsForIntToPtrCast
<1>7. ~Refused' BY RefusedStays
<1>8. TypeOK' /\ OptionsOK' BY <1>4 DEF TypeOK, OptionsOK, compiled
<1> QED BY <1>6, <1>7, <1>8

\* Registers are set to pointers with their bounds.
LEMMA InvRegisters ==
  ASSUME Inv
  PROVE  /\ \A r \in Register, o \in Local : Alloca(r, o) => Inv'
         /\ \A r \in Register, c \in source.code : UseConstant(r, c) => Inv'
         /\ \A r \in Register, a \in Word : IntToPtr(r, a) => Inv'
         /\ \A r, s \in Register, d \in Shift : GetElementPtr(r, s, d) => Inv'
         /\ \A r, s \in Register : Load(r, s) => Inv'
<1> USE DEF Inv, Executes
<1>1. ASSUME NEW r \in Register, NEW o \in Local, Alloca(r, o) PROVE Inv'
  <2> DEFINE v == [of |-> o, at |-> Start[o]]
             b == GetBoundsOfAlloca(o)
  <2>1. o \in Object \ Function /\ Start[o] \in Address
    BY LayoutAssumption DEF Address
  <2>2. v \in Value BY <2>1 DEF Value, Origin
  <2>3. b \in Bounds BY BoundsAreAddresses DEF GetBoundsOfAlloca
  <2>4. Fits(v, b) BY <2>1, LayoutAssumption DEF Fits, BoundsOfOrigin, Objectless
  <2>5. pc = "run" /\ Sets(r, v, b) BY <1>1 DEF Alloca
  <2> QED BY <2>2, <2>3, <2>4, <2>5, SettingARegister
<1>2. ASSUME NEW r \in Register, NEW c \in source.code, UseConstant(r, c) PROVE Inv'
  BY <1>2, CodeFits, SettingARegister DEF UseConstant
<1>3. ASSUME NEW r \in Register, NEW a \in Word, IntToPtr(r, a) PROVE Inv'
  <2> DEFINE v == [of |-> "cast", at |-> a]
             b == GetBoundsForIntToPtrCast
  <2>1. v \in Value BY AddressesAreIntegers DEF Value, Origin, Objectless
  <2>2. intToPtr \in Handling \ {"Disallow"}
    BY <1>3 DEF IntToPtr, OptionsOK, Refused
  <2>3. b \in Bounds
    BY <2>2, BoundsAreAddresses
       DEF GetBoundsForIntToPtrCast, Handling, GetNullPtrBounds, GetWideBounds
  <2>4. Fits(v, b) BY LayoutAssumption DEF Fits, Objectless
  <2>5. pc = "run" /\ Sets(r, v, b) BY <1>3 DEF IntToPtr
  <2> QED BY <2>1, <2>3, <2>4, <2>5, SettingARegister
<1>4. ASSUME NEW r \in Register, NEW s \in Register, NEW d \in Shift, GetElementPtr(r, s, d)
      PROVE  Inv'
  <2> DEFINE v == [reg[s] EXCEPT !.at = @ + d]
             b == wit[s]
  <2>1. reg[s] \in Value /\ b \in Bounds BY DEF TypeOK
  <2>2. v \in Value /\ v.of = reg[s].of BY <1>4, <2>1 DEF GetElementPtr, Value
  <2>3. pc = "run" /\ Sets(r, v, b) BY <1>4 DEF GetElementPtr
  <2>4. Fits(v, b) BY <2>2, <2>3 DEF AllFit, Fits
  <2> QED BY <2>1, <2>2, <2>3, <2>4, SettingARegister
<1>5. ASSUME NEW r \in Register, NEW s \in Register, Load(r, s) PROVE Inv'
  <2> DEFINE a == reg[s].at
  <2>1. a \in Memory /\ pc = "run"
    <3>1. Words(a, 1) \subseteq Memory /\ pc = "run" BY <1>5, AccessedWords DEF Load
    <3>2. a \in Int BY AddressesAreIntegers DEF TypeOK, Value
    <3> QED BY <3>1, <3>2 DEF Words
  <2>2. mem[a] \in Value /\ table[a] \in Bounds BY <2>1 DEF TypeOK
  <2>3. Fits(mem[a], table[a]) BY <2>1 DEF AllFit
  <2> QED BY <1>5, <2>1, <2>2, <2>3, SettingARegister DEF Load
<1> QED BY <1>1, <1>2, <1>3, <1>4, <1>5

\* Stores of pointers write the table too, copies copy both, and what is
\* overwritten by integers is no pointer any more.
LEMMA InvMemory ==
  ASSUME Inv
  PROVE  /\ \A r, s \in Register : Store(r, s) => Inv'
         /\ \A s \in Register, a \in Word : StoreInteger(s, a) => Inv'
         /\ \A d, s \in Register, n \in 0 .. MaxLength : MemCpy(d, s, n) => Inv'
         /\ \A d \in Register, n \in 0 .. MaxLength, v \in Word : MemSet(d, n, v) => Inv'
<1> USE DEF Inv
<1>0. \A r \in Register : reg[r] \in Value /\ reg[r].at \in Int /\ wit[r] \in Bounds
  BY AddressesAreIntegers DEF TypeOK, Value
<1>1. ASSUME NEW r \in Register, NEW s \in Register, Store(r, s) PROVE Inv'
  <2>1. pc = "run" BY <1>1, AccessedWords DEF Store
  <2>2. mem' \in [Memory -> Value] /\ table' \in [Memory -> Bounds]
    BY <1>0, <1>1 DEF Store, TypeOK
  <2>3. \A a \in Memory : Fits(mem'[a], table'[a])
    BY <1>1, <2>1 DEF Store, TypeOK, AllFit
  <2> QED BY <1>1, <2>1, <2>2, <2>3, SettingMemory DEF Store
<1>2. ASSUME NEW s \in Register, NEW v \in Word, StoreInteger(s, v) PROVE Inv'
  <2>1. pc = "run" BY <1>2, AccessedWords DEF StoreInteger
  <2>2. Integer(v) \in Value /\ \A b : Fits(Integer(v), b)
    BY AddressesAreIntegers, IntegersFit
  <2>3. mem' \in [Memory -> Value] /\ table' \in [Memory -> Bounds]
    BY <1>2, <2>2 DEF StoreInteger, TypeOK
  <2>4. \A a \in Memory : Fits(mem'[a], table'[a])
    BY <1>2, <2>1, <2>2 DEF StoreInteger, TypeOK, AllFit
  <2> QED BY <1>2, <2>1, <2>3, <2>4, SettingMemory DEF StoreInteger
<1>3. ASSUME NEW d \in Register, NEW s \in Register, NEW n \in 0 .. MaxLength, MemCpy(d, s, n)
      PROVE  Inv'
  <2>1. pc = "run" /\ Words(reg[s].at, n) \subseteq Memory
    BY <1>3, AccessedWords DEF MemCpy
  <2>2. n \in Int BY LayoutAssumption
  <2>3. ASSUME NEW a \in Memory
        PROVE  \E e \in Memory : mem'[a] = mem[e] /\ table'[a] = table[e]
    <3>1. CASE a \in Words(reg[d].at, n)
      <4>1. a - reg[d].at + reg[s].at \in Words(reg[s].at, n)
        BY <1>0, <2>2, <3>1 DEF Words
      <4> QED BY <1>3, <2>1, <3>1, <4>1 DEF MemCpy, Copied, TypeOK
    <3>2. CASE a \notin Words(reg[d].at, n)
      BY <1>3, <3>2 DEF MemCpy, Copied, TypeOK
    <3> QED BY <3>1, <3>2
  <2>4. mem' \in [Memory -> Value] /\ table' \in [Memory -> Bounds]
    <3>1. /\ mem' = [a \in Memory |-> mem'[a]]
          /\ table' = [a \in Memory |-> table'[a]]
      BY <1>3 DEF MemCpy, Copied, TypeOK
    <3>2. \A a \in Memory : mem'[a] \in Value /\ table'[a] \in Bounds
      BY <2>3 DEF TypeOK
    <3> QED BY <3>1, <3>2
  <2>5. \A a \in Memory : Fits(mem'[a], table'[a]) BY <2>1, <2>3 DEF AllFit
  <2> QED BY <1>3, <2>1, <2>4, <2>5, SettingMemory DEF MemCpy
<1>4. ASSUME NEW d \in Register, NEW n \in 0 .. MaxLength, NEW v \in Word, MemSet(d, n, v)
      PROVE  Inv'
  <2>1. pc = "run" BY <1>4, AccessedWords DEF MemSet
  <2>2. Integer(v) \in Value /\ \A b : Fits(Integer(v), b)
    BY AddressesAreIntegers, IntegersFit
  <2>3. mem' \in [Memory -> Value] /\ table' \in [Memory -> Bounds]
    BY <1>4, <2>2 DEF MemSet, TypeOK
  <2>4. \A a \in Memory : Fits(mem'[a], table'[a])
    BY <1>4, <2>1, <2>2 DEF MemSet, AllFit
  <2> QED BY <1>4, <2>1, <2>3, <2>4, SettingMemory DEF MemSet
<1> QED BY <1>1, <1>2, <1>3, <1>4

LEMMA InvNext == Inv /\ [Next]_vars => Inv'
<1> SUFFICES ASSUME Inv, [Next]_vars PROVE Inv' OBVIOUS
<1>1. CASE Refuse BY <1>1, Stopping DEF Refuse
<1>2. CASE SetUpGlobals BY <1>2, InvSetUpGlobals
<1>3. CASE \/ \E r \in Register, o \in Local : Alloca(r, o)
           \/ \E r \in Register, c \in source.code : UseConstant(r, c)
           \/ \E r \in Register, a \in Word : IntToPtr(r, a)
           \/ \E r, s \in Register, d \in Shift : GetElementPtr(r, s, d)
           \/ \E r, s \in Register : Load(r, s)
  BY <1>3, InvRegisters
<1>4. CASE \/ \E r, s \in Register : Store(r, s)
           \/ \E s \in Register, a \in Word : StoreInteger(s, a)
           \/ \E d, s \in Register, n \in 0 .. MaxLength : MemCpy(d, s, n)
           \/ \E d \in Register, n \in 0 .. MaxLength, v \in Word : MemSet(d, n, v)
  BY <1>4, InvMemory
<1>5. CASE \E r \in Register : CallPointer(r)
  <2>1. UNCHANGED <<compiled, mem, table, reg, wit>> /\ pc' \in {"crashed", "reported"}
    BY <1>5 DEF CallPointer
  <2> QED BY <2>1, Stopping
<1>6. CASE \E d, s \in Register, n \in 0 .. MaxLength : Stop({d, s}, n)
  <2>1. UNCHANGED <<compiled, mem, table, reg, wit>> /\ pc' \in {"crashed", "reported"}
    BY <1>6 DEF Stop
  <2> QED BY <2>1, Stopping
<1>7. CASE UNCHANGED vars
  <2>1. UNCHANGED <<compiled, pc, mem, table, reg, wit>> /\ UNCHANGED compiled
    BY <1>7 DEF vars, compiled
  <2>2. TypeOK' /\ OptionsOK' /\ (pc = "compile" => NothingRan)
    BY <2>1 DEF Inv, TypeOK, OptionsOK, compiled
  <2>3. pc' = "compile" => NothingRan'
    BY <2>1, <2>2 DEF NothingRan, compiled, ValueOf, Integer
  <2>4. CASE pc = "run"
    <3>1. Goes BY <1>7 DEF vars, Goes
    <3> QED BY <2>1, <2>4, <3>1, SettingMemory DEF Inv, TypeOK, AllFit
  <2> QED BY <2>1, <2>2, <2>3, <2>4 DEF Inv
<1> QED BY <1>1, <1>2, <1>3, <1>4, <1>5, <1>6, <1>7 DEF Next

LEMMA AlwaysInv == Spec => []Inv
<1> QED BY InvInit, InvNext, PTL DEF Spec

-----------------------------------------------------------------------------
(* What the invariant says about checks *)

\* An access that passes the check of a pointer of an object is inside it,
\* and the other way round.
LEMMA ChecksOfObjects ==
  ASSUME Inv, pc = "run", NEW r \in Register, reg[r].of \in Object \ Unsized,
         NEW n \in 1 .. Highest
  PROVE  /\ SpatialCheck(wit[r], reg[r].at, n) => Inside(reg[r], n)
         /\ Inside(reg[r], n) /\ (reg[r].of \in Local => Element[reg[r].of] = Size[reg[r].of])
              => SpatialCheck(wit[r], reg[r].at, n)
         /\ ~SpatialCallCheck(wit[r], reg[r].at)
<1> DEFINE o == reg[r].of
<1>1. Start[o] \in Nat /\ Size[o] \in Nat \ {0} /\ n \in Nat \ {0} /\ reg[r].at \in Int
  <2>1. Start[o] \in 1 .. Highest /\ Size[o] \in Nat \ {0} /\ Highest \in Nat
    BY LayoutAssumption
  <2>2. reg[r].at \in Int BY AddressesAreIntegers DEF Inv, TypeOK, Value
  <2> QED BY <2>1, <2>2
<1>2. wit[r] = BoundsOfOrigin(o) /\ o \notin Function
  BY LayoutAssumption DEF Inv, AllFit, Fits
<1>3. CASE o \in Local
  <2>1. wit[r] = Between(Start[o], Start[o] + Element[o])
    BY <1>2, <1>3 DEF BoundsOfOrigin, GetBoundsOfAlloca
  <2>2. Element[o] \in 1 .. Size[o] BY <1>3, LayoutAssumption
  <2> QED BY <1>1, <2>1, <2>2, <1>3 DEF SpatialCheck, SpatialCallCheck, Inside, Between
<1>4. CASE o \notin Local
  <2>1. wit[r] = Between(Start[o], Start[o] + Size[o])
    BY <1>2, <1>4 DEF BoundsOfOrigin, GetBoundsConst
  <2> QED BY <1>1, <2>1 DEF SpatialCheck, SpatialCallCheck, Inside, Between
<1> QED BY <1>3, <1>4

LEMMA InvChecksAreExact == Inv => ChecksAreExact
<1> SUFFICES ASSUME Inv, pc = "run", NEW r \in Register
    PROVE  /\ reg[r].of \in Object \ Unsized =>
                \A n \in 1 .. Highest :
                  /\ SpatialCheck(wit[r], reg[r].at, n) => Inside(reg[r], n)
                  /\ Inside(reg[r], n)
                       /\ (reg[r].of \in Local => Element[reg[r].of] = Size[reg[r].of])
                       => SpatialCheck(wit[r], reg[r].at, n)
           /\ reg[r].of \in (Object \ Unsized) \cup Function =>
                (SpatialCallCheck(wit[r], reg[r].at)
                   <=> reg[r].of \in Function /\ reg[r].at = Start[reg[r].of])
  BY DEF ChecksAreExact
<1>1. ASSUME reg[r].of \in Function
      PROVE  SpatialCallCheck(wit[r], reg[r].at) <=> reg[r].at = Start[reg[r].of]
  <2>1. wit[r] = Between(Start[reg[r].of], Start[reg[r].of])
    BY <1>1 DEF Inv, AllFit, Fits, BoundsOfOrigin, GetBoundsForFun
  <2> QED BY <2>1 DEF SpatialCallCheck, Between
<1>2. ASSUME reg[r].of \in Object \ Unsized
      PROVE  /\ ~SpatialCallCheck(wit[r], reg[r].at)
             /\ reg[r].of \notin Function
  <2>1. 1 \in 1 .. Highest BY <1>2, LayoutAssumption
  <2> QED BY <1>2, <2>1, ChecksOfObjects, LayoutAssumption
<1> QED BY <1>1, <1>2, ChecksOfObjects

-----------------------------------------------------------------------------
(* Which bounds allow what, and why a program is refused *)

\* Bounds that allow an access to the null address are the wide ones, which
\* are given to pointers made from integers.
Low(b) == b.lo = 0 /\ b.hi > 0 => intToPtr = "WideBounds"

\* All bounds that the inserted code knows of are of this kind, and a program
\* that was refused was refused for what the module holds.
SourcesInv ==
  /\ \A a \in Memory : Low(table[a])
  /\ \A r \in Register : Low(wit[r])
  /\ pc = "refused" => Refused

\* Objects and functions are not at the null address.
LEMMA ObjectsAreNotLow ==
  /\ \A o \in Object \cup Function : \A h : Low(Between(Start[o], h))
  /\ Low(NoBounds) /\ Low(Between(0, 0))
<1>1. ASSUME NEW o \in Object \cup Function PROVE Start[o] # 0
  <2>1. Start[o] \in 1 .. Highest /\ Highest \in Nat BY LayoutAssumption
  <2> QED BY <2>1
<1> QED BY <1>1 DEF Low, Between, NoBounds

\* The bounds of constants that reach the null address are those of casts.
LEMMA ConstantsAreNotLow ==
  ASSUME OptionsOK, NEW c, WellFormed(c), c.kind # "data"
  PROVE  Low(HandleInitializer(c)) /\ Low(GetBoundsForWitness(c))
<1> USE ObjectsAreNotLow DEF WellFormed, OptionsOK, Handling
<1>1. Low(GetNullPtrBounds) BY DEF GetNullPtrBounds
<1>2. Low(GetBoundsForIntToPtrCast)
  BY <1>1 DEF GetBoundsForIntToPtrCast, GetWideBounds, Low
<1>3. CASE c.kind = "object"
  <2>1. c.of \in Object BY <1>3
  <2>2. Low(GetBoundsConst(c.of))
    BY <2>1 DEF GetBoundsConst, GetBoundsForZeroSizedArray
  <2> QED BY <1>3, <2>2 DEF HandleInitializer, GetBoundsForWitness
<1>4. CASE c.kind = "function"
  <2>1. Low(GetBoundsForFun(c.of)) BY <1>4 DEF GetBoundsForFun
  <2> QED BY <1>4, <2>1 DEF HandleInitializer, GetBoundsForWitness
<1>5. CASE c.kind \in {"null", "undef", "inttoptr"}
  BY <1>1, <1>2, <1>5 DEF HandleInitializer, GetBoundsForWitness
<1> QED BY <1>3, <1>4, <1>5 DEF Constant

\* Steps that put bounds in a register.
LEMMA SourcesSetARegister ==
  ASSUME Inv, SourcesInv, NEW r \in Register, NEW v, NEW b, Low(b), pc = "run",
         Sets(r, v, b)
  PROVE  SourcesInv'
<1>1. /\ wit \in [Register -> Bounds]
      /\ wit' = [wit EXCEPT ![r] = b] /\ table' = table /\ pc' = pc
      /\ intToPtr' = intToPtr
  BY DEF Inv, TypeOK, Sets, Goes, compiled
<1> QED BY <1>1 DEF SourcesInv, Low

\* Steps that leave the options and registers alone and take the bounds of
\* words from words or registers.
LEMMA SourcesSetMemory ==
  ASSUME SourcesInv, UNCHANGED <<compiled, wit>>, pc' # "refused",
         \A a \in Memory : Low(table'[a])
  PROVE  SourcesInv'
BY DEF SourcesInv, Low, compiled

LEMMA SourcesNext == Inv /\ SourcesInv /\ [Next]_vars => SourcesInv'
<1> SUFFICES ASSUME Inv, SourcesInv, [Next]_vars PROVE SourcesInv' OBVIOUS
<1>0. OptionsOK BY DEF Inv
<1>1. CASE Refuse
  <2>1. Refused' = Refused BY <1>1, RefusedStays DEF Refuse
  <2> QED BY <1>1, <2>1 DEF Refuse, SourcesInv, Low, compiled
<1>2. CASE SetUpGlobals
  <2>1. ASSUME NEW a \in Memory PROVE Low(table'[a])
    <3>1. CASE a \in DOMAIN source.init /\ source.init[a].kind # "data"
      <4>1. WellFormed(source.init[a]) BY <1>0, <3>1, SourcesWellFormed DEF OptionsOK
      <4>2. table'[a] = HandleInitializer(source.init[a]) BY <1>2, <3>1 DEF SetUpGlobals
      <4> QED BY <1>0, <3>1, <4>1, <4>2, ConstantsAreNotLow
    <3>2. CASE ~(a \in DOMAIN source.init /\ source.init[a].kind # "data")
      BY <1>2, <3>2 DEF SetUpGlobals, SourcesInv
    <3> QED BY <3>1, <3>2
  <2> QED BY <1>2, <2>1, SourcesSetMemory DEF SetUpGlobals
<1>3. ASSUME NEW r \in Register, NEW o \in Local, Alloca(r, o) PROVE SourcesInv'
  <2>1. Low(GetBoundsOfAlloca(o))
    BY ObjectsAreNotLow, LayoutAssumption DEF GetBoundsOfAlloca
  <2> QED BY <1>3, <2>1, SourcesSetARegister DEF Alloca, Executes
<1>4. ASSUME NEW r \in Register, NEW c \in source.code, UseConstant(r, c) PROVE SourcesInv'
  <2>1. WellFormed(c) /\ c.kind # "data" BY <1>0, SourcesWellFormed DEF OptionsOK
  <2>2. Low(GetBoundsForWitness(c)) BY <1>0, <2>1, ConstantsAreNotLow
  <2> QED BY <1>4, <2>2, SourcesSetARegister DEF UseConstant, Executes
<1>5. ASSUME NEW r \in Register, NEW a \in Word, IntToPtr(r, a) PROVE SourcesInv'
  <2>1. Low(GetBoundsForIntToPtrCast)
    BY <1>0, ObjectsAreNotLow DEF GetBoundsForIntToPtrCast, GetNullPtrBounds, Low, OptionsOK,
       Handling
  <2> QED BY <1>5, <2>1, SourcesSetARegister DEF IntToPtr, Executes
<1>6. ASSUME NEW r \in Register, NEW s \in Register, NEW d \in Shift, GetElementPtr(r, s, d)
      PROVE  SourcesInv'
  <2>1. Low(wit[s]) BY DEF SourcesInv
  <2> QED BY <1>6, <2>1, SourcesSetARegister DEF GetElementPtr, Executes
<1>7. ASSUME NEW r \in Register, NEW s \in Register, Load(r, s) PROVE SourcesInv'
  <2>1. reg[s].at \in Memory /\ pc = "run"
    <3>1. Words(reg[s].at, 1) \subseteq Memory /\ pc = "run" BY <1>7, AccessedWords DEF Load
    <3>2. reg[s].at \in Int BY AddressesAreIntegers DEF Inv, TypeOK, Value
    <3> QED BY <3>1, <3>2 DEF Words
  <2>2. Low(table[reg[s].at]) BY <2>1 DEF SourcesInv
  <2> QED BY <1>7, <2>1, <2>2, SourcesSetARegister DEF Load
<1>8. ASSUME NEW r \in Register, NEW s \in Register, Store(r, s) PROVE SourcesInv'
  <2>1. pc = "run" BY <1>8, AccessedWords DEF Store
  <2>2. \A a \in Memory : Low(table'[a]) BY <1>8 DEF Store, SourcesInv, Inv, TypeOK
  <2> QED BY <1>8, <2>1, <2>2, SourcesSetMemory DEF Store, Goes
<1>9. ASSUME NEW d \in Register, NEW s \in Register, NEW n \in 0 .. MaxLength, MemCpy(d, s, n)
      PROVE  SourcesInv'
  <2>1. pc = "run" /\ Words(reg[s].at, n) \subseteq Memory BY <1>9, AccessedWords DEF MemCpy
  <2>2. reg[d].at \in Int /\ reg[s].at \in Int /\ n \in Int
    <3>1. reg[d] \in Value /\ reg[s] \in Value BY DEF Inv, TypeOK
    <3>2. n \in Int BY LayoutAssumption
    <3> QED BY <3>1, <3>2, AddressesAreIntegers DEF Value
  <2>3. ASSUME NEW a \in Memory PROVE \E e \in Memory : table'[a] = table[e]
    <3>1. CASE a \in Words(reg[d].at, n)
      <4>1. a - reg[d].at + reg[s].at \in Words(reg[s].at, n) BY <2>2, <3>1 DEF Words
      <4> QED BY <1>9, <2>1, <3>1, <4>1 DEF MemCpy, Copied, Inv, TypeOK
    <3>2. CASE a \notin Words(reg[d].at, n)
      BY <1>9, <3>2 DEF MemCpy, Copied, Inv, TypeOK
    <3> QED BY <3>1, <3>2
  <2>4. \A a \in Memory : Low(table'[a]) BY <2>3 DEF SourcesInv
  <2> QED BY <1>9, <2>1, <2>4, SourcesSetMemory DEF MemCpy, Goes
<1>10. CASE \/ \E s \in Register, a \in Word : StoreInteger(s, a)
            \/ \E d \in Register, n \in 0 .. MaxLength, v \in Word : MemSet(d, n, v)
  <2>1. UNCHANGED <<compiled, table, wit>> /\ pc' = pc /\ pc = "run"
    BY <1>10 DEF StoreInteger, MemSet, Accesses, Executes, Goes
  <2> QED BY <2>1, SourcesSetMemory DEF SourcesInv
<1>11. CASE \/ \E r \in Register : CallPointer(r)
            \/ \E d, s \in Register, n \in 0 .. MaxLength : Stop({d, s}, n)
  <2>1. UNCHANGED <<compiled, table, wit>> /\ pc' \in {"crashed", "reported"}
    BY <1>11 DEF CallPointer, Stop
  <2> QED BY <2>1, SourcesSetMemory DEF SourcesInv
<1>12. CASE UNCHANGED vars
  <2>1. UNCHANGED <<compiled, table, wit, pc>> /\ UNCHANGED compiled
    BY <1>12 DEF vars, compiled
  <2>2. Refused' = Refused BY <2>1, RefusedStays
  <2> QED BY <2>1, <2>2 DEF SourcesInv, Low, compiled
<1> QED BY <1>1, <1>2, <1>3, <1>4, <1>5, <1>6, <1>7, <1>8, <1>9, <1>10, <1>11, <1>12 DEF Next

\* Whether a check passes follows from where the pointer comes from.
LEMMA PassedChecks ==
  ASSUME Inv, SourcesInv, pc = "run", NEW r \in Register, NEW n \in 1 .. Highest
  PROVE  LET p == reg[r]
             passes == SpatialCheck(wit[r], p.at, n)
         IN
         /\ p.of \in {"null", "literal"} => ~passes
         /\ p.of = "cast" => (passes <=> intToPtr = "WideBounds" /\ p.at + n <= Highest)
         /\ p.of \in Unsized =>
              (passes <=> /\ zeroSized = "WideBounds"
                          /\ Start[p.of] <= p.at /\ p.at + n <= Highest)
         /\ passes /\ p.at = 0 => intToPtr = "WideBounds"
<1> DEFINE p == reg[r]
           b == wit[r]
           passes == SpatialCheck(b, p.at, n)
<1>1. Fits(p, b) /\ Low(b) /\ OptionsOK BY DEF Inv, AllFit, SourcesInv
<1>2. p.at \in Nat /\ n \in Nat \ {0} /\ Highest \in Nat /\ b.lo \in Nat /\ b.hi \in Nat
  BY LayoutAssumption DEF Inv, TypeOK, Value, Bounds, Address
<1>3. passes <=> b.lo <= p.at /\ p.at + n <= b.hi BY DEF SpatialCheck
<1> HIDE DEF p, b, passes
<1>4. ASSUME p.of \in {"null", "literal"} PROVE ~passes
  <2>1. b.hi = 0 BY <1>1, <1>4 DEF Fits, GetNullPtrBounds, Between
  <2> QED BY <1>2, <1>3, <2>1
<1>5. ASSUME p.of = "cast"
      PROVE  passes <=> intToPtr = "WideBounds" /\ p.at + n <= Highest
  <2>1. b = GetBoundsForIntToPtrCast BY <1>1, <1>5 DEF Fits
  <2>2. CASE intToPtr = "WideBounds"
    <3>1. b.lo = 0 /\ b.hi = Highest
      BY <2>1, <2>2 DEF GetBoundsForIntToPtrCast, GetWideBounds, Between
    <3> QED BY <1>2, <1>3, <2>2, <3>1
  <2>3. CASE intToPtr # "WideBounds"
    <3>1. b.hi \in {0, -1}
      BY <1>1, <2>1, <2>3
         DEF GetBoundsForIntToPtrCast, GetNullPtrBounds, NoBounds, Between, OptionsOK, Handling
    <3> QED BY <1>2, <1>3, <2>3, <3>1
  <2> QED BY <2>2, <2>3
<1>6. ASSUME p.of \in Unsized
      PROVE  passes <=> /\ zeroSized = "WideBounds"
                        /\ Start[p.of] <= p.at /\ p.at + n <= Highest
  <2>1. p.of \in Object /\ p.of \notin Local /\ p.of \notin Function
    BY <1>6, LayoutAssumption
  <2>2. b = GetBoundsForZeroSizedArray(p.of)
    BY <1>1, <1>6, <2>1 DEF Fits, BoundsOfOrigin, GetBoundsConst
  <2>3. CASE zeroSized = "WideBounds"
    <3>1. b.lo = Start[p.of] /\ b.hi = Highest
      BY <2>2, <2>3 DEF GetBoundsForZeroSizedArray, GetWideBounds, Between
    <3> QED BY <1>3, <2>3, <3>1
  <2>4. CASE zeroSized # "WideBounds"
    <3>1. b.hi = b.lo
      BY <1>1, <2>2, <2>4
         DEF GetBoundsForZeroSizedArray, NoBounds, Between, OptionsOK, Handling
    <3> QED BY <1>2, <1>3, <2>4, <3>1
  <2> QED BY <2>3, <2>4
<1>7. passes /\ p.at = 0 => intToPtr = "WideBounds"
  BY <1>1, <1>2, <1>3 DEF Low
<1> QED BY <1>4, <1>5, <1>6, <1>7 DEF p, b, passes

\* Bounds are missing only for what an option disallows, or undef.
LEMMA MissingBounds ==
  ASSUME OptionsOK, NEW c, WellFormed(c), c.kind # "data",
         HandleInitializer(c) = NoBounds \/ GetBoundsForWitness(c) = NoBounds
  PROVE  \/ intToPtr = "Disallow" /\ c.kind = "inttoptr"
         \/ zeroSized = "Disallow" /\ c.of \in Unsized
         \/ c.kind = "undef" /\ GetBoundsForWitness(c) # NoBounds
<1> USE DEF WellFormed, OptionsOK, Handling
<1>1. GetNullPtrBounds # NoBounds /\ GetWideBounds # NoBounds
  BY DEF GetNullPtrBounds, GetWideBounds, NoBounds, Between
<1>2. ASSUME NEW o \in Object \cup Function, NEW h PROVE Between(Start[o], h) # NoBounds
  <2>1. Start[o] \in 1 .. Highest /\ Highest \in Nat BY LayoutAssumption
  <2> QED BY <2>1 DEF NoBounds, Between
<1>3. CASE c.kind = "object"
  <2>1. c.of \in Object BY <1>3
  <2>2. GetBoundsConst(c.of) = NoBounds
    BY <1>3 DEF HandleInitializer, GetBoundsForWitness
  <2> QED BY <1>2, <2>1, <2>2 DEF GetBoundsConst, GetBoundsForZeroSizedArray
<1>4. CASE c.kind = "function"
  BY <1>2, <1>4 DEF HandleInitializer, GetBoundsForWitness, GetBoundsForFun
<1>5. CASE c.kind \in {"null", "undef", "inttoptr"}
  BY <1>1, <1>5 DEF HandleInitializer, GetBoundsForWitness, GetBoundsForIntToPtrCast
<1> QED BY <1>3, <1>4, <1>5 DEF Constant

\* A constant that an option disallows has no bounds.
LEMMA DisallowedHasNoBounds ==
  ASSUME NEW c, WellFormed(c), zeroSized = "Disallow", c.of \in Unsized
  PROVE  HandleInitializer(c) = NoBounds /\ GetBoundsForWitness(c) = NoBounds
<1>1. c.of \in Object /\ c.of \notin Function /\ c.of \notin Objectless
  BY LayoutAssumption
<1>2. c.kind = "object"
  <2>1. c.kind = "inttoptr" => c.of \in {"cast", "literal"} BY DEF WellFormed
  <2> QED BY <1>1, <2>1 DEF WellFormed, Constant, Objectless
<1> QED BY <1>1, <1>2
        DEF HandleInitializer, GetBoundsForWitness, GetBoundsConst, GetBoundsForZeroSizedArray

\* A module is refused for what it holds, and for nothing else.
LEMMA RefusalsAreExplained ==
  ASSUME OptionsOK
  PROVE  Refused <=> Disallowed
<1> DEFINE all == source.code \cup {source.init[a] : a \in DOMAIN source.init}
<1>1. /\ \A c \in source.code : WellFormed(c) /\ c.kind # "data"
      /\ \A a \in DOMAIN source.init : WellFormed(source.init[a])
  BY SourcesWellFormed DEF OptionsOK
<1>2. ASSUME Refused PROVE Disallowed
  <2>1. CASE intToPtr = "Disallow" /\ (source.casts \/ \E c \in source.code : c.kind = "inttoptr")
    BY <2>1 DEF Disallowed
  <2>2. CASE \E c \in source.code : GetBoundsForWitness(c) = NoBounds
    <3>1. PICK c \in source.code : GetBoundsForWitness(c) = NoBounds BY <2>2
    <3> QED BY <1>1, <3>1, MissingBounds DEF Disallowed
  <2>3. CASE \E a \in DOMAIN source.init :
               source.init[a].kind # "data" /\ HandleInitializer(source.init[a]) = NoBounds
    <3>1. PICK a \in DOMAIN source.init :
                 source.init[a].kind # "data" /\ HandleInitializer(source.init[a]) = NoBounds
      BY <2>3
    <3>2. source.init[a] \in all OBVIOUS
    <3> QED BY <1>1, <3>1, <3>2, MissingBounds DEF Disallowed
  <2> QED BY <1>2, <2>1, <2>2, <2>3 DEF Refused
<1>3. ASSUME Disallowed PROVE Refused
  <2>1. ASSUME NEW a \in DOMAIN source.init, HandleInitializer(source.init[a]) = NoBounds,
               source.init[a].kind # "data"
        PROVE  Refused
    BY <2>1 DEF Refused
  <2>2. CASE intToPtr = "Disallow" /\ source.casts BY <2>2 DEF Refused
  <2>3. CASE intToPtr = "Disallow" /\ \E c \in all : c.kind = "inttoptr"
    <3>1. PICK c \in all : c.kind = "inttoptr" BY <2>3
    <3>2. CASE c \in source.code BY <2>3, <3>1, <3>2 DEF Refused
    <3>3. CASE \E a \in DOMAIN source.init : c = source.init[a]
      BY <2>1, <2>3, <3>1, <3>3 DEF HandleInitializer, GetBoundsForIntToPtrCast
    <3> QED BY <3>2, <3>3
  <2>4. CASE zeroSized = "Disallow" /\ \E c \in all : c.of \in Unsized
    <3>1. PICK c \in all : c.of \in Unsized BY <2>4
    <3>2. WellFormed(c) BY <1>1
    <3>3. HandleInitializer(c) = NoBounds /\ GetBoundsForWitness(c) = NoBounds
      BY <2>4, <3>1, <3>2, DisallowedHasNoBounds
    <3>4. CASE c \in source.code BY <3>3, <3>4 DEF Refused
    <3>5. c.kind # "data"
      BY <3>1, <3>2, LayoutAssumption DEF WellFormed, Objectless
    <3>6. CASE \E a \in DOMAIN source.init : c = source.init[a] BY <2>1, <3>3, <3>5, <3>6
    <3> QED BY <3>4, <3>6
  <2>5. CASE \E a \in DOMAIN source.init : source.init[a].kind = "undef"
    BY <2>1, <2>5 DEF HandleInitializer
  <2> QED BY <1>3, <2>2, <2>3, <2>4, <2>5 DEF Disallowed
<1> QED BY <1>2, <1>3

LEMMA InvBadSources == Inv /\ SourcesInv => BadSourcesAreHandled
<1> SUFFICES ASSUME Inv, SourcesInv PROVE BadSourcesAreHandled OBVIOUS
<1>1. OptionsOK /\ (pc = "refused" => Refused) /\ (pc = "run" => ~Refused)
  BY DEF Inv, SourcesInv
<1> QED BY <1>1, PassedChecks, RefusalsAreExplained DEF BadSourcesAreHandled

-----------------------------------------------------------------------------
(* The program with bounds implements SpatialSafety *)

\* Rights depend on the options only.
LEMMA RightsStay ==
  ASSUME UNCHANGED compiled
  PROVE  Rights' = Rights
<1>1. \A o : MayBounds(o)' = MayBounds(o) BY DEF compiled, MayBounds
<1>2. \A o : MustBounds(o)' = MustBounds(o) BY DEF compiled, MayBounds, MustBounds
<1> QED BY <1>1, <1>2 DEF Rights

LEMMA Layout ==
  /\ Highest \in Nat
  /\ \A o \in Object : Start[o] \in Nat /\ Size[o] \in Nat /\ Start[o] + Size[o] <= Highest
  /\ \A f \in Function : Start[f] \in Nat
  /\ \A o \in Local : o \in Object \ Unsized /\ Element[o] \in Nat /\ Element[o] <= Size[o]
  /\ \A o \in Object : o \notin Function \cup Objectless
  /\ \A f \in Function : f \notin Objectless
<1>1. /\ Highest \in Nat
      /\ Start \in [Object \cup Function -> 1 .. Highest]
      /\ Size \in [Object -> Nat \ {0}]
      /\ \A o \in Object : Start[o] + Size[o] <= Highest
      /\ \A o \in Local : Element[o] \in 1 .. Size[o]
      /\ Local \subseteq Object /\ Local \cap Unsized = {} /\ Object \cap Function = {}
      /\ Objectless \cap (Object \cup Function) = {}
  BY LayoutAssumption
<1>2. ASSUME NEW o \in Object PROVE Start[o] \in Nat /\ Size[o] \in Nat
  <2>1. Start[o] \in 1 .. Highest /\ Size[o] \in Nat \ {0} BY <1>1
  <2> QED BY <2>1, <1>1
<1>3. ASSUME NEW f \in Function PROVE Start[f] \in Nat
  <2>1. Start[f] \in 1 .. Highest BY <1>1
  <2> QED BY <2>1, <1>1
<1>4. ASSUME NEW o \in Local PROVE Element[o] \in Nat /\ Element[o] <= Size[o] BY <1>1
<1> QED BY <1>1, <1>2, <1>3, <1>4

\* What rights are: intervals and addresses of functions.
LEMMA RightsAreRights ==
  ASSUME NEW o \in Origin
  PROVE  /\ Rights[o].may = MayBounds(o) /\ Rights[o].must = MustBounds(o)
         /\ Rights[o].out = Between(0, Highest)
         /\ Rights[o].entry = (IF o \in Function THEN {Start[o]} ELSE {})
         /\ MayBounds(o) \in Safety!Interval /\ MustBounds(o) \in Safety!Interval
<1>1. MayBounds(o) \in Safety!Interval
  BY Layout DEF Origin, Objectless, MayBounds, Between, Safety!Interval
<1>2. MustBounds(o) \in Safety!Interval
  <2>1. CASE o \in Local
    BY <2>1, Layout DEF MustBounds, Objectless, Between, Safety!Interval
  <2>2. CASE o \notin Local
    <3>1. Nothing \in Safety!Interval BY DEF Nothing, Between, Safety!Interval
    <3>2. MustBounds(o) \in {MayBounds(o), Nothing}
      BY <2>2 DEF MustBounds
    <3> QED BY <1>1, <3>1, <3>2
  <2> QED BY <2>1, <2>2
<1> QED BY <1>1, <1>2 DEF Rights

\* Bounds of a pointer allow no more than the rights of its origin, and no
\* less than it must have.
LEMMA BoundsAreRights ==
  ASSUME Inv, pc = "run", NEW r \in Register, NEW n \in Nat
  PROVE  /\ SpatialCheck(wit[r], reg[r].at, n)
              => Safety!Within(Rights[reg[r].of].may, reg[r].at, n)
         /\ Safety!Within(Rights[reg[r].of].must, reg[r].at, n)
              => SpatialCheck(wit[r], reg[r].at, n)
<1> DEFINE o == reg[r].of
           a == reg[r].at
           b == wit[r]
<1>0. /\ o \in Origin /\ a \in Nat /\ a <= Highest
      /\ b \in Bounds /\ b.lo \in Nat /\ b.hi \in Nat /\ b.hi <= Highest
      /\ Fits(reg[r], b)
  <2>1. reg[r] \in Value /\ b \in Bounds /\ Fits(reg[r], b) BY DEF Inv, TypeOK, AllFit
  <2> QED BY <2>1, Layout DEF Value, Bounds, Address
<1>1. Rights[o].may = MayBounds(o) /\ Rights[o].must = MustBounds(o)
  BY <1>0, RightsAreRights
<1>2. /\ MayBounds(o).lo <= b.lo /\ b.hi <= MayBounds(o).hi
      /\ MayBounds(o).lo \in Int /\ MayBounds(o).hi \in Int
      /\ \/ MustBounds(o) = Nothing
         \/ /\ MustBounds(o).lo \in Int /\ MustBounds(o).hi \in Int
            /\ b.lo <= MustBounds(o).lo /\ MustBounds(o).hi <= b.hi
  <2>1. CASE o \in Local
    <3>1. b = Between(Start[o], Start[o] + Element[o])
      BY <1>0, <2>1, Layout DEF Fits, BoundsOfOrigin, GetBoundsOfAlloca
    <3>2. MustBounds(o) = b BY <2>1, <3>1, Layout DEF MustBounds, Objectless
    <3>3. MayBounds(o) = Between(Start[o], Start[o] + Size[o])
      BY <2>1, Layout DEF MayBounds, Objectless
    <3> QED BY <2>1, <3>1, <3>2, <3>3, Layout DEF Between
  <2>2. CASE o = "integer"
    <3>1. o \notin Object \cup Function \cup Local BY <2>2, Layout DEF Objectless
    <3>2. MayBounds(o) = Between(0, Highest) BY <2>2, <3>1, LayoutAssumption DEF MayBounds
    <3>3. MustBounds(o) = Nothing BY <2>2, <3>1 DEF MustBounds
    <3> QED BY <1>0, <3>2, <3>3, Layout DEF Between
  <2>3. CASE o \notin Local \cup {"integer"}
    <3>1. MustBounds(o) = MayBounds(o) BY <2>3 DEF MustBounds
    <3>2. MayBounds(o) = b
      <4>1. CASE o \in Object \ (Local \cup Unsized)
        BY <1>0, <4>1, Layout DEF Fits, BoundsOfOrigin, GetBoundsConst, MayBounds, Objectless
      <4>2. CASE o \in Object /\ o \in Unsized
        <5>1. b = GetBoundsForZeroSizedArray(o)
          BY <1>0, <4>2, Layout DEF Fits, BoundsOfOrigin, GetBoundsConst
        <5>2. zeroSized \in {"NullBounds", "WideBounds"}
          BY <1>0, <5>1
             DEF Inv, OptionsOK, Handling, GetBoundsForZeroSizedArray, NoBounds, Between
        <5>3. MayBounds(o) =
                Between(Start[o], IF zeroSized = "WideBounds" THEN Highest ELSE Start[o])
          BY <4>2, Layout DEF MayBounds, Objectless
        <5> QED BY <5>1, <5>2, <5>3
                DEF GetBoundsForZeroSizedArray, GetWideBounds, Between
      <4>3. CASE o \in Function
        BY <1>0, <4>3, Layout DEF Fits, BoundsOfOrigin, GetBoundsForFun, MayBounds, Objectless
      <4>4. CASE o \in {"null", "literal"}
        <5>1. b = Between(0, 0) BY <1>0, <4>4 DEF Fits, GetNullPtrBounds
        <5>2. o \notin Object \cup Function \cup Unsized
          BY <4>4, LayoutAssumption DEF Objectless
        <5> QED BY <4>4, <5>1, <5>2 DEF MayBounds
      <4>5. CASE o = "cast"
        <5>1. b = GetBoundsForIntToPtrCast BY <1>0, <4>5 DEF Fits
        <5>2. intToPtr \in {"NullBounds", "WideBounds"}
          BY <1>0, <5>1
             DEF Inv, OptionsOK, Handling, GetBoundsForIntToPtrCast, NoBounds, Between
        <5>3. o \notin Object \cup Function \cup Unsized
          BY <4>5, LayoutAssumption DEF Objectless
        <5>4. MayBounds(o) = Between(0, IF intToPtr = "WideBounds" THEN Highest ELSE 0)
          BY <4>5, <5>3 DEF MayBounds
        <5> QED BY <5>1, <5>2, <5>4
                DEF GetBoundsForIntToPtrCast, GetNullPtrBounds, GetWideBounds
      <4> QED BY <1>0, <2>3, <4>1, <4>2, <4>3, <4>4, <4>5 DEF Origin, Objectless
    <3> QED BY <1>0, <3>1, <3>2
  <2> QED BY <2>1, <2>2, <2>3
<1>3. SpatialCheck(b, a, n) => Safety!Within(Rights[o].may, a, n)
  BY <1>0, <1>1, <1>2 DEF SpatialCheck, Safety!Within
<1>4. Safety!Within(Rights[o].must, a, n) => SpatialCheck(b, a, n)
  BY <1>0, <1>1, <1>2 DEF SpatialCheck, Safety!Within, Nothing, Between
<1> QED BY <1>3, <1>4

\* What is accessed may be accessed.
LEMMA AccessesAreAllowed ==
  ASSUME Inv, NEW S \in SUBSET Register, NEW n \in Nat, Accesses(S, n), NEW s \in S
  PROVE  Safety!MayAccess(reg[s], n)
<1>1. pc = "run" /\ Words(reg[s].at, n) \subseteq Memory BY AccessedWords
<1>2. SpatialCheck(wit[s], reg[s].at, n) BY DEF Accesses, Reported
<1> QED BY <1>1, <1>2, BoundsAreRights DEF Safety!MayAccess, Safety!Words, Words

\* A step of the program that goes on, goes on.
LEMMA SafetyRuns ==
  ASSUME Inv, Goes, UNCHANGED compiled
  PROVE  Safety!Goes
BY RightsStay DEF Goes, Safety!Goes

\* A step that sets a register, from what V names.
LEMMA SafetyGets ==
  ASSUME Inv, pc = "run", NEW r \in Register, NEW V, NEW v \in V, NEW b, Sets(r, v, b)
  PROVE  Safety!Gets(r, V)
<1>1. Safety!Goes BY SafetyRuns DEF Sets
<1>2. reg'[r] = v BY DEF Inv, TypeOK, Sets
<1> QED BY <1>1, <1>2 DEF Sets, Safety!Gets

LEMMA SafetyRegisters ==
  ASSUME Inv
  PROVE  /\ \A r \in Register, o \in Local : Alloca(r, o) => Safety!Next
         /\ \A r \in Register, c \in source.code : UseConstant(r, c) => Safety!Next
         /\ \A r \in Register, a \in Word : IntToPtr(r, a) => Safety!Next
         /\ \A r, s \in Register, d \in Shift : GetElementPtr(r, s, d) => Safety!Next
         /\ \A r, s \in Register : Load(r, s) => Safety!Next
<1> USE DEF Executes
<1>1. ASSUME NEW r \in Register, NEW o \in Local, Alloca(r, o) PROVE Safety!Next
  <2>1. [of |-> o, at |-> Start[o]] \in Given BY DEF Given
  <2>2. Safety!Give(r) BY <1>1, <2>1, SafetyGets DEF Alloca, Safety!Give
  <2> QED BY <2>2 DEF Safety!Next
<1>2. ASSUME NEW r \in Register, NEW c \in source.code, UseConstant(r, c) PROVE Safety!Next
  <2>1. ValueOf(c) \in Given
    <3>1. source \in Sources BY DEF Inv, OptionsOK
    <3> QED BY <3>1 DEF Given
  <2>2. Safety!Give(r) BY <1>2, <2>1, SafetyGets DEF UseConstant, Safety!Give
  <2> QED BY <2>2 DEF Safety!Next
<1>3. ASSUME NEW r \in Register, NEW a \in Word, IntToPtr(r, a) PROVE Safety!Next
  <2>1. [of |-> "cast", at |-> a] \in Given BY DEF Given
  <2>2. Safety!Give(r) BY <1>3, <2>1, SafetyGets DEF IntToPtr, Safety!Give
  <2> QED BY <2>2 DEF Safety!Next
<1>4. ASSUME NEW r \in Register, NEW s \in Register, NEW d \in Shift, GetElementPtr(r, s, d)
      PROVE  Safety!Next
  <2> DEFINE v == [reg[s] EXCEPT !.at = @ + d]
  <2>1. reg[s] \in Value BY DEF Inv, TypeOK
  <2>2. v \in [of : {reg[s].of}, at : Address] BY <1>4, <2>1 DEF GetElementPtr, Value
  <2>3. Safety!Gets(r, [of : {reg[s].of}, at : Address])
    BY <1>4, <2>2, SafetyGets DEF GetElementPtr
  <2>4. Safety!Derive(r, s) BY <2>3 DEF Safety!Derive, Safety!Address, Address
  <2> QED BY <2>4 DEF Safety!Next
<1>5. ASSUME NEW r \in Register, NEW s \in Register, Load(r, s) PROVE Safety!Next
  <2>1. Safety!MayAccess(reg[s], 1) BY <1>5, AccessesAreAllowed DEF Load
  <2>2. pc = "run" BY <1>5, AccessedWords DEF Load
  <2>3. Safety!Gets(r, {mem[reg[s].at]}) BY <1>5, <2>2, SafetyGets DEF Load
  <2>4. Safety!Load(r, s) BY <2>1, <2>3 DEF Safety!Load
  <2> QED BY <2>4 DEF Safety!Next
<1> QED BY <1>1, <1>2, <1>3, <1>4, <1>5

LEMMA SafetyMemory ==
  ASSUME Inv
  PROVE  /\ \A r, s \in Register : Store(r, s) => Safety!Next
         /\ \A s \in Register, a \in Word : StoreInteger(s, a) => Safety!Next
         /\ \A d, s \in Register, n \in 0 .. MaxLength : MemCpy(d, s, n) => Safety!Next
         /\ \A d \in Register, n \in 0 .. MaxLength, v \in Word : MemSet(d, n, v) => Safety!Next
<1>0. /\ mem \in [Memory -> Value] /\ \A r \in Register : reg[r] \in Value /\ reg[r].at \in Nat
      /\ 1 \in 0 .. MaxLength /\ 0 .. MaxLength \subseteq Nat
  BY LayoutAssumption DEF Inv, TypeOK, Value, Address
<1>1. ASSUME NEW r \in Register, NEW s \in Register, Store(r, s) PROVE Safety!Next
  <2>1. Safety!MayAccess(reg[s], 1) BY <1>1, AccessesAreAllowed DEF Store
  <2>2. pc = "run" BY <1>1, AccessedWords DEF Store
  <2>3. Safety!Goes BY <1>1, SafetyRuns DEF Store
  <2>4. Safety!Store(r, s) BY <1>1, <2>1, <2>2, <2>3 DEF Store, Safety!Store
  <2> QED BY <2>4 DEF Safety!Next
<1>2. ASSUME NEW s \in Register, NEW v \in Word, StoreInteger(s, v) PROVE Safety!Next
  <2>1. Safety!MayAccess(reg[s], 1) BY <1>2, AccessesAreAllowed DEF StoreInteger
  <2>2. pc = "run" /\ reg[s].at \in Memory
    <3>1. pc = "run" /\ Words(reg[s].at, 1) \subseteq Memory
      BY <1>2, AccessedWords DEF StoreInteger
    <3> QED BY <3>1, <1>0 DEF Words
  <2>3. Safety!Goes BY <1>2, SafetyRuns DEF StoreInteger
  <2>4. Safety!Words(reg[s].at, 1) = {reg[s].at} BY <1>0 DEF Safety!Words
  <2>5. Integer(v) \in Safety!Integer
    BY AddressesAreIntegers DEF Integer, Safety!Integer, Safety!Address, Address
  <2>6. mem' = [mem EXCEPT ![reg[s].at] = Integer(v)] BY <1>2 DEF StoreInteger
  <2>7. /\ mem' = [a \in Memory |-> IF a \in Safety!Words(reg[s].at, 1) THEN mem'[a] ELSE mem[a]]
        /\ mem'[reg[s].at] = Integer(v)
    BY <1>0, <2>2, <2>4, <2>6
  <2>8. UNCHANGED reg BY <1>2 DEF StoreInteger
  <2>9. Safety!Fill(s, 1)
    BY <2>1, <2>2, <2>3, <2>4, <2>5, <2>7, <2>8 DEF Safety!Fill
  <2> QED BY <2>9, <1>0 DEF Safety!Next
<1>3. ASSUME NEW d \in Register, NEW s \in Register, NEW n \in 0 .. MaxLength, MemCpy(d, s, n)
      PROVE  Safety!Next
  <2>1. Safety!MayAccess(reg[d], n) /\ Safety!MayAccess(reg[s], n)
    <3>1. n \in Nat /\ Accesses({d, s}, n) BY <1>0, <1>3 DEF MemCpy
    <3> QED BY <3>1, AccessesAreAllowed
  <2>2. pc = "run" BY <1>3, AccessedWords DEF MemCpy
  <2>3. Safety!Goes BY <1>3, SafetyRuns DEF MemCpy
  <2>4. Safety!Copy(d, s, n)
    BY <1>0, <1>3, <2>1, <2>2, <2>3 DEF MemCpy, Copied, Words, Safety!Words, Safety!Copy
  <2> QED BY <2>4 DEF Safety!Next
<1>4. ASSUME NEW d \in Register, NEW n \in 0 .. MaxLength, NEW v \in Word, MemSet(d, n, v)
      PROVE  Safety!Next
  <2>1. Safety!MayAccess(reg[d], n) BY <1>0, <1>4, AccessesAreAllowed DEF MemSet
  <2>2. pc = "run" /\ Words(reg[d].at, n) \subseteq Memory BY <1>4, AccessedWords DEF MemSet
  <2>3. Safety!Goes BY <1>4, SafetyRuns DEF MemSet
  <2>4. Integer(v) \in Safety!Integer
    BY AddressesAreIntegers DEF Integer, Safety!Integer, Safety!Address, Address
  <2>5. mem' = [a \in Memory |-> IF a \in Words(reg[d].at, n) THEN Integer(v) ELSE mem[a]]
    BY <1>4 DEF MemSet
  <2>6. \A a \in Words(reg[d].at, n) : mem'[a] \in Safety!Integer BY <2>2, <2>4, <2>5
  <2>7. mem' = [a \in Memory |-> IF a \in Words(reg[d].at, n) THEN mem'[a] ELSE mem[a]]
    BY <2>5
  <2>8. UNCHANGED reg BY <1>4 DEF MemSet
  <2>9. Safety!Fill(d, n)
    BY <2>1, <2>2, <2>3, <2>6, <2>7, <2>8 DEF Safety!Fill, Safety!Words, Words
  <2> QED BY <2>9 DEF Safety!Next
<1> QED BY <1>1, <1>2, <1>3, <1>4

\* A program is stopped by a check only where the pointer lacks the right, and
\* otherwise only by words that do not exist.
LEMMA SafetyStops ==
  ASSUME Inv
  PROVE  /\ \A d, s \in Register, n \in 0 .. MaxLength : Stop({d, s}, n) => Safety!Next
         /\ \A r \in Register : CallPointer(r) => Safety!Next
<1> USE DEF Executes
<1>0. 0 .. MaxLength \subseteq Nat BY LayoutAssumption
<1>1. ASSUME NEW d \in Register, NEW e \in Register, NEW n \in 0 .. MaxLength, Stop({d, e}, n)
      PROVE  Safety!Next
  <2>1. PICK s \in {d, e} :
          /\ \/ Reported({s}, n) /\ pc' = "reported"
             \/ Crashes({d, e}, n) /\ ~(Words(reg[s].at, n) \subseteq Memory) /\ pc' = "crashed"
          /\ fault' = Fault("access", s, n)
    BY <1>1 DEF Stop
  <2>2. pc = "run" /\ UNCHANGED <<compiled, mem, reg>> /\ n \in Nat BY <1>0, <1>1 DEF Stop
  <2>3. Safety!Stops(pc', Safety!Fault("access", reg[s], n))
    BY <2>1, <2>2, RightsStay DEF Safety!Stops, Safety!Fault, Fault
  <2>4. Safety!Report(reg[s], n) \/ Safety!Crash(reg[s], n)
    <3>1. CASE Reported({s}, n) /\ pc' = "reported"
      <4>1. ~Safety!Within(Rights[reg[s].of].must, reg[s].at, n)
        BY <2>2, <3>1, BoundsAreRights DEF Reported
      <4> QED BY <2>3, <3>1, <4>1 DEF Safety!Report
    <3>2. CASE Crashes({d, e}, n) /\ ~(Words(reg[s].at, n) \subseteq Memory) /\ pc' = "crashed"
      <4>1. SpatialCheck(wit[s], reg[s].at, n) BY <3>2 DEF Crashes, Reported
      <4>2. Safety!Within(Rights[reg[s].of].may, reg[s].at, n)
        BY <2>2, <4>1, BoundsAreRights
      <4> QED BY <2>3, <3>2, <4>2 DEF Safety!Crash, Safety!Words, Words
    <3> QED BY <2>1, <3>1, <3>2
  <2> QED BY <2>4 DEF Safety!Next
<1>2. ASSUME NEW r \in Register, CallPointer(r) PROVE Safety!Next
  <2>1. pc = "run" /\ UNCHANGED <<compiled, mem, reg>> /\ 0 \in 0 .. MaxLength
    BY <1>2, LayoutAssumption DEF CallPointer
  <2>2. Safety!Stops(pc', Safety!Fault("call", reg[r], 0))
    BY <1>2, <2>1, RightsStay DEF CallPointer, Safety!Stops, Safety!Fault, Fault
  <2>3. reg[r].of \in Origin BY DEF Inv, TypeOK, Value
  <2>4. Safety!Report(reg[r], 0) \/ Safety!Crash(reg[r], 0)
    <3>1. CASE SpatialCallCheck(wit[r], reg[r].at)
      <4>1. pc' = "crashed" /\ ~\E f \in Function : Start[f] = reg[r].at
        BY <1>2, <3>1 DEF CallPointer
      <4>2. \A o \in Origin : reg[r].at \notin Rights[o].entry
        BY <4>1, RightsAreRights
      <4> QED BY <2>2, <4>1, <4>2 DEF Safety!Crash
    <3>2. CASE ~SpatialCallCheck(wit[r], reg[r].at)
      <4>1. pc' = "reported" BY <1>2, <3>2 DEF CallPointer
      <4>2. reg[r].at \notin Rights[reg[r].of].entry
        <5>1. CASE reg[r].of \in Function
          <6>1. wit[r] = Between(Start[reg[r].of], Start[reg[r].of])
            BY <2>1, <5>1 DEF Inv, AllFit, Fits, BoundsOfOrigin, GetBoundsForFun
          <6>2. reg[r].at # Start[reg[r].of] BY <3>2, <6>1 DEF SpatialCallCheck, Between
          <6>3. Rights[reg[r].of].entry = {Start[reg[r].of]} BY <2>3, <5>1, RightsAreRights
          <6> QED BY <6>2, <6>3
        <5>2. CASE reg[r].of \notin Function
          BY <2>3, <5>2, RightsAreRights
        <5> QED BY <5>1, <5>2
      <4> QED BY <2>2, <4>1, <4>2 DEF Safety!Report
    <3> QED BY <3>1, <3>2
  <2> QED BY <2>1, <2>4 DEF Safety!Next
<1> QED BY <1>1, <1>2

LEMMA SafetyInit == Inv /\ Init => Safety!Init
<1> SUFFICES ASSUME Inv, Init PROVE Safety!Init OBVIOUS
<1>1. \A o \in Origin : Rights[o] \in Safety!Rights
  <2> SUFFICES ASSUME NEW o \in Origin PROVE Rights[o] \in Safety!Rights OBVIOUS
  <2> DEFINE entry == IF o \in Function THEN {Start[o]} ELSE {}
  <2>1. Rights[o] = [may |-> MayBounds(o), must |-> MustBounds(o),
                     out |-> Between(0, Highest), entry |-> entry]
    BY DEF Rights
  <2>2. Between(0, Highest) \in Safety!Interval BY Layout DEF Between, Safety!Interval
  <2>3. entry \subseteq Safety!Address
    <3>1. ASSUME o \in Function PROVE Start[o] \in 0 .. Highest
      <4>1. Start[o] \in 1 .. Highest /\ Highest \in Nat BY <3>1, LayoutAssumption
      <4> QED BY <4>1
    <3> QED BY <3>1 DEF Safety!Address
  <2> QED BY <2>1, <2>2, <2>3, RightsAreRights DEF Safety!Rights
<1>2. Rights \in [Origin -> Safety!Rights] BY <1>1 DEF Rights
<1>3. Safety!Value = Value BY DEF Safety!Value, Value, Safety!Address, Address
<1> QED BY <1>2, <1>3 DEF Init, Inv, TypeOK, Safety!Init, Safety!NoFault

LEMMA SafetyNext == Inv /\ [Next]_vars => [Safety!Next]_(Safety!vars)
<1> SUFFICES ASSUME Inv, [Next]_vars PROVE Safety!Next \/ UNCHANGED Safety!vars OBVIOUS
<1>1. CASE Refuse \/ SetUpGlobals
  <2>1. /\ pc = "compile" /\ pc' \in {"run", "refused"}
        /\ UNCHANGED <<compiled, mem, reg, fault>>
    BY <1>1 DEF Refuse, SetUpGlobals
  <2> QED BY <2>1, RightsStay DEF Safety!Compile, Safety!Next
<1>2. CASE \/ \E r \in Register, o \in Local : Alloca(r, o)
           \/ \E r \in Register, c \in source.code : UseConstant(r, c)
           \/ \E r \in Register, a \in Word : IntToPtr(r, a)
           \/ \E r, s \in Register, d \in Shift : GetElementPtr(r, s, d)
           \/ \E r, s \in Register : Load(r, s)
  BY <1>2, SafetyRegisters
<1>3. CASE \/ \E r, s \in Register : Store(r, s)
           \/ \E s \in Register, a \in Word : StoreInteger(s, a)
           \/ \E d, s \in Register, n \in 0 .. MaxLength : MemCpy(d, s, n)
           \/ \E d \in Register, n \in 0 .. MaxLength, v \in Word : MemSet(d, n, v)
  BY <1>3, SafetyMemory
<1>4. CASE \/ \E r \in Register : CallPointer(r)
           \/ \E d, s \in Register, n \in 0 .. MaxLength : Stop({d, s}, n)
  BY <1>4, SafetyStops
<1>5. CASE UNCHANGED vars
  <2>1. UNCHANGED <<compiled, pc, mem, reg, fault>> BY <1>5 DEF vars, compiled
  <2> QED BY <2>1, RightsStay DEF Safety!vars
<1> QED BY <1>1, <1>2, <1>3, <1>4, <1>5 DEF Next

-----------------------------------------------------------------------------
(* Theorems *)

\* Words, registers and the table keep their types: no step finds the pair of
\* null pointers that the pass uses for missing bounds in place of bounds.
THEOREM MetadataTypeCorrect == Spec => []TypeOK
<1>1. Inv => TypeOK BY DEF Inv
<1> QED BY <1>1, AlwaysInv, PTL

\* The bounds of pointers follow them through memory.
THEOREM MetadataFollowsPointers == Spec => []MetadataIsRight
<1>1. Inv => MetadataIsRight BY DEF Inv, AllFit, MetadataIsRight
<1> QED BY <1>1, AlwaysInv, PTL

\* Checks pass inside the object of a pointer and nowhere else.
THEOREM ChecksSoundAndComplete == Spec => []ChecksAreExact
<1> QED BY InvChecksAreExact, AlwaysInv, PTL

\* Whatever a program did with a pointer without an object, the checks of it
\* pass exactly where its kind and its option let them; of an integer that a
\* constant in an instruction casts, nowhere. A program is refused exactly for
\* holding what an option disallows, or an undefined pointer in memory.
THEOREM BadSourcesHandled == Spec => []BadSourcesAreHandled
<1>1. Init => SourcesInv
  BY ObjectsAreNotLow DEF Init, SourcesInv, GetNullPtrBounds
<1> QED BY <1>1, SourcesNext, InvBadSources, AlwaysInv, PTL DEF Spec

\* With its bounds, a program stops before an access leaves the object that the
\* pointer was derived from, and otherwise does what the original does.
THEOREM SoftBoundIsSafe == Spec => IsSafe
<1>1. Init => Safety!Init BY InvInit, SafetyInit
<1> QED BY <1>1, AlwaysInv, SafetyNext, PTL DEF Spec, IsSafe, Safety!Spec

=============================================================================
