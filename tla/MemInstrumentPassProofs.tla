----------------------- MODULE MemInstrumentPassProofs -----------------------
(***************************************************************************)
(* What runOnModule does to a function before it generates code for it.    *)
(* Setup marks what belongs to va_lists, whatever the order of users; the  *)
(* optimizations lose no target that they did not choose to drop, for      *)
(* every program and command line; and no attribute is left that inserted  *)
(* code denies, if there are no external checks and no invokes: under      *)
(* these conditions the loops of dropFunctionAttributes see everything.    *)
(***************************************************************************)
EXTENDS TargetFiltering, AttributeDropping, VarArgMarking,
        FiniteSetTheorems, SequenceTheorems, TLAPS

(***************************************************************************)
(* VarArgMarking. Soundness is an invariant of the worklist: an entry with *)
(* n loads left is a user of a value at that distance. Completeness is one *)
(* of what was marked: its users are marked, calls, or on the worklist at  *)
(* the distance that the value has, and it has only one.                   *)
(***************************************************************************)

OnList == Range(worklist)

\* Values that are `level` loads away from arguments.
Level(f, level) == IF level = 2 THEN InList(f) ELSE FromList(f)

Values == Inst \cup Arg
Calls == {"call", "list call"}

\* The users of v have been seen at this level, or will be.
Followed(v, level) ==
  \A i \in fun.users[v] : fun.op[i] \in Calls \/ i \in marked \/ <<i, level>> \in OnList

Sound ==
  /\ \A e \in OnList : \E v \in Level(fun, e[2]) : e[1] \in fun.users[v]
  /\ marked \subseteq Bookkeeping(fun)
  /\ loadArg \subseteq Arguments(fun)

Complete ==
  /\ \A v \in (Handles(fun) \ handles) \cup (marked \cap InList(fun)) : Followed(v, 2)
  /\ \A v \in marked \cap FromList(fun) : Followed(v, 1)
  /\ marked \cap Arguments(fun) \subseteq loadArg

MarkingInv ==
  /\ MarkingTypeOK
  /\ fun \in Functions
  /\ (Handles(fun) \ handles) \cap Inst \subseteq marked
  /\ progress = "handles" => marked \cap handles = {}
  /\ progress # "handles" => handles = {}
  /\ progress \in {"done", "reported"} => worklist = <<>>
  /\ Sound
  /\ Consistent(fun) => Complete

-----------------------------------------------------------------------------
(* Users and the worklist.                                                  *)

\* An order of users has each of them, with the level.
LEMMA UsersFacts ==
  ASSUME fun \in Functions, NEW v \in Values, NEW level, NEW users \in Users(v, level)
  PROVE  /\ users \in Seq(Inst \X {level})
         /\ Range(users) = {<<i, level>> : i \in fun.users[v]}
<1> DEFINE S == fun.users[v]
           D == 1 .. Cardinality(S)
<1>1. S \subseteq Inst /\ IsFiniteSet(S)
  BY FunctionsAssumption, FS_Subset DEF FunctionsAssumption, Values
<1>2. Cardinality(S) \in Nat
  BY <1>1, FS_CardinalityType
<1>3. PICK order \in SetToSeqs(S) : users = [n \in DOMAIN order |-> <<order[n], level>>]
  BY DEF Users
<1>4. order \in [D -> S] /\ \A i, j \in D : i # j => order[i] # order[j]
  BY <1>3 DEF SetToSeqs
<1>5. order \in Injection(D, S)
  BY <1>4 DEF Injection, IsInjective
<1>6. IsFiniteSet(D) /\ Cardinality(D) = Cardinality(S)
  BY <1>2, FS_Interval
<1>7. order \in Surjection(D, S)
  BY <1>1, <1>5, <1>6, FS_Injection
<1>8. \A i \in S : \E n \in D : order[n] = i
  BY <1>7 DEF Surjection
<1>9. users = [n \in D |-> <<order[n], level>>]
  BY <1>3, <1>4
<1>10. users \in Seq(Inst \X {level})
  <2>1. \A n \in D : <<order[n], level>> \in Inst \X {level}
    BY <1>1, <1>4
  <2> HIDE DEF D
  <2>2. users \in [D -> Inst \X {level}]
    BY <1>9, <2>1
  <2> QED BY <1>2, <2>2 DEF D
<1>11. Range(users) = {<<i, level>> : i \in S}
  BY <1>4, <1>8, <1>9 DEF Range
<1> QED BY <1>10, <1>11

\* What is left of the list without its first entry.
LEMMA PopFacts ==
  ASSUME NEW S, NEW w \in Seq(S), w # <<>>
  PROVE  /\ Tail(w) \in Seq(S) /\ Head(w) \in S
         /\ Range(w) = {Head(w)} \cup Range(Tail(w))
<1>1. Tail(w) \in Seq(S) /\ Head(w) \in S /\ Len(w) \in Nat \ {0} /\ Head(w) = w[1]
  BY EmptySeq, HeadTailProperties
<1>2. Len(Tail(w)) = Len(w) - 1 /\ \A n \in 1 .. Len(Tail(w)) : Tail(w)[n] = w[n + 1]
  BY HeadTailProperties
<1>3. ASSUME NEW n \in DOMAIN w
      PROVE  w[n] \in {Head(w)} \cup {Tail(w)[m] : m \in DOMAIN Tail(w)}
  <2>1. CASE n = 1
    BY <1>1, <2>1
  <2>2. CASE n # 1
    <3>1. n - 1 \in DOMAIN Tail(w) /\ Tail(w)[n - 1] = w[n]
      BY <1>1, <1>2, <1>3, <2>2
    <3> QED BY <3>1
  <2> QED BY <2>1, <2>2
<1>4. \A m \in DOMAIN Tail(w) : \E n \in DOMAIN w : w[n] = Tail(w)[m]
  <2> TAKE m \in DOMAIN Tail(w)
  <2>1. m + 1 \in DOMAIN w
    BY <1>1, <1>2
  <2> QED BY <1>1, <1>2, <2>1
<1>5. Head(w) \in {w[n] : n \in DOMAIN w}
  BY <1>1
<1>6. Range(w) = {Head(w)} \cup Range(Tail(w))
  BY <1>3, <1>4, <1>5 DEF Range
<1> QED BY <1>1, <1>6

-----------------------------------------------------------------------------
(* Closures.                                                                *)

LEMMA ComputedFromFacts ==
  ASSUME NEW f \in Functions, NEW S \in SUBSET Values
  PROVE  /\ S \subseteq ComputedFrom(f, S)
         /\ ComputedFrom(f, S) \subseteq Values
         /\ Closed(f, ComputedFrom(f, S))
         /\ \A T \in SUBSET Values :
              S \subseteq T /\ Closed(f, T) => ComputedFrom(f, S) \subseteq T
         /\ \A v \in ComputedFrom(f, S) \ S : v \in Inst /\ f.op[v] = "value"
<1> DEFINE C == ComputedFrom(f, S)
<1>1. C = {v \in Values : \A T \in SUBSET Values : S \subseteq T /\ Closed(f, T) => v \in T}
  BY DEF ComputedFrom, Values
<1>2. S \subseteq C /\ C \subseteq Values
  BY <1>1
<1>3. \A T \in SUBSET Values : S \subseteq T /\ Closed(f, T) => C \subseteq T
  BY <1>1
<1>users. \A v \in Values : f.users[v] \subseteq Inst
  BY FunctionsAssumption DEF FunctionsAssumption, Values
<1>4. Closed(f, C)
  <2> SUFFICES ASSUME NEW v \in C, NEW i \in f.users[v], f.op[i] = "value",
                      NEW T \in SUBSET Values, S \subseteq T, Closed(f, T)
               PROVE  i \in T
    BY <1>1, <1>2, <1>users DEF Closed, Values
  <2>1. v \in T
    BY <1>1
  <2> QED BY <2>1 DEF Closed
<1>5. ASSUME NEW v \in C \ S
      PROVE  v \in Inst /\ f.op[v] = "value"
  <2> DEFINE T == S \cup {i \in Inst : f.op[i] = "value"}
  <2>1. T \in SUBSET Values /\ S \subseteq T
    BY DEF Values
  <2>2. Closed(f, T)
    BY <1>users, <2>1 DEF Closed
  <2>3. v \in T
    BY <1>3, <2>1, <2>2
  <2> QED BY <2>3, <1>5
<1> QED BY <1>2, <1>3, <1>4, <1>5

\* The levels of a function, and what belongs to them.
LEMMA LevelFacts ==
  ASSUME NEW f \in Functions
  PROVE  /\ InList(f) \subseteq Values /\ FromList(f) \subseteq Inst
         /\ Handles(f) \subseteq InList(f)
         /\ Closed(f, InList(f)) /\ Closed(f, FromList(f))
         /\ \A v \in InList(f) \ Handles(f) : v \in Inst /\ f.op[v] = "value"
         /\ \A v \in FromList(f) : f.op[v] \in {"load", "value"}
         /\ \A i \in Inst, v \in InList(f) :
              i \in f.users[v] /\ f.op[i] = "load" => i \in FromList(f)
         /\ \A i \in Inst : i \in Arguments(f) <=>
              f.op[i] = "load" /\ \E v \in FromList(f) : i \in f.users[v]
         /\ Arguments(f) \subseteq Inst
         /\ \A T \in SUBSET Values :
              Handles(f) \subseteq T /\ Closed(f, T) => InList(f) \subseteq T
         /\ \A T \in SUBSET Values :
              UsersOf(f, InList(f), {"load"}) \subseteq T /\ Closed(f, T)
                => FromList(f) \subseteq T
         /\ \A i \in Inst : i \in Bookkeeping(f) <=>
              \/ i \in InList(f) \cup FromList(f) \cup Arguments(f)
              \/ /\ f.op[i] \in {"store", "va"}
                 /\ \E v \in InList(f) \cup FromList(f) : i \in f.users[v]
         /\ Bookkeeping(f) \subseteq Inst
<1> DEFINE loads == UsersOf(f, InList(f), {"load"})
<1>users. \A v \in Values : f.users[v] \subseteq Inst
  BY FunctionsAssumption DEF FunctionsAssumption, Values
<1>1. Handles(f) \in SUBSET Values
  BY DEF Handles, Values
<1>2. /\ InList(f) \subseteq Values /\ Handles(f) \subseteq InList(f)
      /\ Closed(f, InList(f))
      /\ \A v \in InList(f) \ Handles(f) : v \in Inst /\ f.op[v] = "value"
      /\ \A T \in SUBSET Values : Handles(f) \subseteq T /\ Closed(f, T) => InList(f) \subseteq T
  BY <1>1, ComputedFromFacts DEF InList
<1>3. loads \subseteq Inst /\ \A i \in Inst : i \in loads <=>
          f.op[i] = "load" /\ \E v \in InList(f) : i \in f.users[v]
  BY <1>2, <1>users DEF UsersOf
<1>4. FromList(f) = ComputedFrom(f, loads)
  BY DEF FromList
<1>5. loads \in SUBSET Values
  BY <1>3 DEF Values
<1>6. /\ FromList(f) \subseteq Values /\ loads \subseteq FromList(f)
      /\ Closed(f, FromList(f))
      /\ \A v \in FromList(f) \ loads : v \in Inst /\ f.op[v] = "value"
      /\ \A T \in SUBSET Values : loads \subseteq T /\ Closed(f, T) => FromList(f) \subseteq T
  <2> HIDE DEF loads
  <2> QED BY <1>4, <1>5, ComputedFromFacts
<1>7. FromList(f) \subseteq Inst /\ \A v \in FromList(f) : f.op[v] \in {"load", "value"}
  <2> HIDE DEF loads
  <2> QED BY <1>3, <1>6
<1>8. Arguments(f) \subseteq Inst /\ \A i \in Inst : i \in Arguments(f) <=>
          f.op[i] = "load" /\ \E v \in FromList(f) : i \in f.users[v]
  BY <1>6, <1>users DEF Arguments, UsersOf
<1>9. Bookkeeping(f) \subseteq Inst /\ \A i \in Inst : i \in Bookkeeping(f) <=>
              \/ i \in InList(f) \cup FromList(f) \cup Arguments(f)
              \/ /\ f.op[i] \in {"store", "va"}
                 /\ \E v \in InList(f) \cup FromList(f) : i \in f.users[v]
  BY <1>2, <1>6, <1>users DEF Bookkeeping, UsersOf
<1>10. \A i \in Inst, v \in InList(f) :
              i \in f.users[v] /\ f.op[i] = "load" => i \in FromList(f)
  <2> HIDE DEF loads
  <2> QED BY <1>3, <1>6
<1> QED BY <1>2, <1>6, <1>7, <1>8, <1>9, <1>10

-----------------------------------------------------------------------------
(* Steps of the worklist.                                                   *)

\* The list after the users of v were pushed onto w.
LEMMA Pushed ==
  ASSUME fun \in Functions, NEW v \in Values, NEW level \in 1 .. 2,
         NEW users \in Users(v, level), NEW w \in Seq(Inst \X (1 .. 2)),
         worklist' = users \o w
  PROVE  /\ worklist' \in Seq(Inst \X (1 .. 2))
         /\ OnList' = {<<i, level>> : i \in fun.users[v]} \cup Range(w)
<1>1. users \in Seq(Inst \X (1 .. 2))
  <2>1. users \in Seq(Inst \X {level})
    BY UsersFacts
  <2>2. Inst \X {level} \subseteq Inst \X (1 .. 2)
    OBVIOUS
  <2> QED BY <2>1, <2>2, SeqMonotonic
<1>2. Range(users) = {<<i, level>> : i \in fun.users[v]}
  BY UsersFacts
<1>3. worklist' \in Seq(Inst \X (1 .. 2)) /\ Range(worklist') = Range(users) \cup Range(w)
  BY <1>1, ConcatProperties, RangeConcatenation
<1> QED BY <1>2, <1>3 DEF OnList

Others == Range(Rest)

\* The entry that is taken, and the others.
LEMMA Popped ==
  ASSUME MarkingInv, worklist # <<>>
  PROVE  /\ Rest \in Seq(Inst \X (1 .. 2))
         /\ Entry[1] \in Inst /\ Entry[2] \in 1 .. 2 /\ Entry = <<Entry[1], Entry[2]>>
         /\ OnList = {Entry} \cup Others
         /\ \E v \in Level(fun, Entry[2]) : v \in Values /\ Entry[1] \in fun.users[v]
<1>1. worklist \in Seq(Inst \X (1 .. 2))
  BY DEF MarkingInv, MarkingTypeOK
<1>2. Rest \in Seq(Inst \X (1 .. 2)) /\ Entry \in Inst \X (1 .. 2) /\ OnList = {Entry} \cup Others
  BY <1>1, PopFacts DEF Rest, Entry, Others, OnList
<1>3. \E v \in Level(fun, Entry[2]) : Entry[1] \in fun.users[v]
  BY <1>2 DEF MarkingInv, Sound
<1>4. Level(fun, Entry[2]) \subseteq Values
  BY LevelFacts DEF MarkingInv, Level, Values
<1> QED BY <1>2, <1>3, <1>4

\* What is not on the list any more is marked or a call: all values stay
\* followed, and those that are new to a level are followed now.
LEMMA StillComplete ==
  ASSUME Complete, fun' = fun, marked \subseteq marked', handles' \subseteq handles,
         \A e \in OnList \ OnList' : e[1] \in marked' \/ fun.op[e[1]] \in Calls,
         \A v \in (handles \ handles') \cup ((marked' \ marked) \cap InList(fun)) : Followed(v, 2)',
         \A v \in (marked' \ marked) \cap FromList(fun) : Followed(v, 1)',
         marked' \cap Arguments(fun) \subseteq loadArg'
  PROVE  Complete'
<1>1. ASSUME NEW v, NEW level, Followed(v, level)
      PROVE  Followed(v, level)'
  BY <1>1 DEF Followed
<1>2. \A v \in (Handles(fun) \ handles') \cup (marked' \cap InList(fun)) : Followed(v, 2)'
  BY <1>1 DEF Complete
<1>3. \A v \in marked' \cap FromList(fun) : Followed(v, 1)'
  BY <1>1 DEF Complete
<1>4. /\ Handles(fun)' = Handles(fun) /\ InList(fun)' = InList(fun)
      /\ FromList(fun)' = FromList(fun) /\ Arguments(fun)' = Arguments(fun)
  OBVIOUS
<1> QED BY <1>2, <1>3, <1>4 DEF Complete

\* Nothing is on the list but users of values at its level.
LEMMA StillSound ==
  ASSUME Sound, fun' = fun,
         \A e \in OnList' \ OnList : \E v \in Level(fun, e[2]) : e[1] \in fun.users[v],
         marked' \subseteq marked \cup Bookkeeping(fun),
         loadArg' \subseteq loadArg \cup Arguments(fun)
  PROVE  Sound'
<1>1. \A e \in OnList' : \E v \in Level(fun, e[2]) : e[1] \in fun.users[v]
  BY DEF Sound
<1>2. marked' \subseteq Bookkeeping(fun) /\ loadArg' \subseteq Arguments(fun)
  BY DEF Sound
<1> QED BY <1>1, <1>2 DEF Sound

LEMMA MarkingInitInv == MarkingInit => MarkingInv
<1> SUFFICES ASSUME MarkingInit PROVE MarkingInv
  OBVIOUS
<1>1. fun \in Functions /\ MarkingTypeOK
  <2>1. <<>> \in Seq(Inst \X (1 .. 2))
    BY EmptySeq
  <2> QED BY <2>1, FunctionsAssumption DEF MarkingInit, MarkingTypeOK, FunctionsAssumption
<1>2. OnList = {}
  BY DEF MarkingInit, OnList, Range
<1>3. Sound
  BY <1>2 DEF MarkingInit, Sound
<1>4. Complete
  BY DEF MarkingInit, Complete
<1> QED BY <1>1, <1>3, <1>4 DEF MarkingInit, MarkingInv

\* Handles are values of no level but two, and no stores or intrinsics.
LEMMA HandleFacts ==
  ASSUME NEW f \in Functions, NEW h \in Handles(f)
  PROVE  /\ h \in Values /\ h \in InList(f) /\ h \notin Arguments(f)
         /\ h \in Inst => h \notin FromList(f)
         /\ h \in Inst => h \in Bookkeeping(f)
         /\ h \in Inst => f.op[h] \in {"alloca", "list load", "list call"}
<1>1. h \in Inst => f.op[h] \in {"alloca", "list load", "list call"}
  BY FunctionsAssumption DEF Handles, FunctionsAssumption
<1>2. h \in Values /\ h \in InList(f)
  BY LevelFacts
<1>3. h \in Arguments(f) => h \in Inst /\ f.op[h] = "load"
  BY LevelFacts
<1>4. h \in Inst => h \notin FromList(f)
  BY <1>1, LevelFacts
<1>5. h \in Inst => h \in Bookkeeping(f)
  BY <1>2, LevelFacts
<1> QED BY <1>1, <1>2, <1>3, <1>4, <1>5

LEMMA StartHandleInv ==
  ASSUME MarkingInv, NEW h \in handles, StartHandle(h)
  PROVE  MarkingInv'
<1> USE DEF MarkingInv
<1>1. /\ h \in Handles(fun) /\ h \in Values /\ h \in InList(fun)
      /\ h \notin Arguments(fun)
      /\ h \in Inst => h \notin FromList(fun) /\ h \in Bookkeeping(fun)
  BY HandleFacts DEF MarkingTypeOK
<1>2. PICK users \in Users(h, 2) : worklist' = users \o worklist
  BY DEF StartHandle
<1>3. /\ worklist' \in Seq(Inst \X (1 .. 2))
      /\ OnList' = {<<i, 2>> : i \in fun.users[h]} \cup OnList
  BY <1>1, <1>2, Pushed DEF MarkingTypeOK, OnList
<1>4. MarkingTypeOK'
  BY <1>3 DEF StartHandle, MarkingTypeOK, Handles
<1>5. Sound'
  <2>1. \A e \in OnList' \ OnList : \E v \in Level(fun, e[2]) : e[1] \in fun.users[v]
    BY <1>1, <1>3 DEF Level
  <2> QED BY <1>1, <2>1, StillSound DEF StartHandle
<1>6. ASSUME Consistent(fun) PROVE Complete'
  <2>1. Followed(h, 2)'
    BY <1>3 DEF Followed, StartHandle
  <2>2. (handles \ handles') \cup ((marked' \ marked) \cap InList(fun)) \subseteq {h}
    BY DEF StartHandle
  <2>3. (marked' \ marked) \cap FromList(fun) = {}
    BY <1>1 DEF StartHandle
  <2>4. marked' \cap Arguments(fun) \subseteq loadArg'
    BY <1>1, <1>6 DEF StartHandle, Complete
  <2>5. OnList \ OnList' = {}
    BY <1>3
  <2> QED BY <1>6, <2>1, <2>2, <2>3, <2>4, <2>5, StillComplete DEF StartHandle
<1>7. (Handles(fun) \ handles)' \cap Inst \subseteq marked'
  BY <1>1 DEF StartHandle, Handles
<1> QED BY <1>4, <1>5, <1>6, <1>7 DEF StartHandle

LEMMA PopCallInv ==
  ASSUME MarkingInv, PopCall
  PROVE  MarkingInv'
<1> USE DEF MarkingInv
<1>1. worklist # <<>> /\ progress = "work" /\ fun.op[Entry[1]] \in {"va", "call", "list call"}
  BY DEF PopCall, Is
<1> DEFINE i == Entry[1]
<1>2. /\ Rest \in Seq(Inst \X (1 .. 2)) /\ i \in Inst
      /\ OnList = {Entry} \cup Others
  BY <1>1, Popped
<1>3. PICK v \in Level(fun, Entry[2]) : v \in Values /\ i \in fun.users[v]
  BY <1>1, Popped
<1>4. OnList' = Others
  BY DEF PopCall, OnList, Others, Rest
<1>5. MarkingTypeOK'
  BY <1>1, <1>2 DEF PopCall, MarkingTypeOK, Handles
<1>6. Sound'
  <2>1. fun.op[i] = "va" => i \in Bookkeeping(fun)
    BY <1>2, <1>3, LevelFacts DEF Level
  <2> QED BY <1>2, <1>4, <2>1, StillSound DEF PopCall
<1>7. ASSUME Consistent(fun) PROVE Complete'
  <2>1. fun.op[i] = "va" => i \notin InList(fun) \cup FromList(fun) \cup Arguments(fun)
    BY <1>2, LevelFacts, FunctionsAssumption DEF Handles, FunctionsAssumption
  <2>2. \A e \in OnList \ OnList' : e[1] \in marked' \/ fun.op[e[1]] \in Calls
    BY <1>1, <1>2, <1>4 DEF PopCall, Calls
  <2>3. Complete
    BY <1>7
  <2>4. marked' \ marked \subseteq {i} /\ (marked' # marked => fun.op[i] = "va")
    BY DEF PopCall
  <2>5. marked' \cap Arguments(fun) \subseteq loadArg'
    BY <2>1, <2>3, <2>4 DEF PopCall, Complete
  <2> QED BY <2>1, <2>2, <2>3, <2>4, <2>5, StillComplete DEF PopCall
<1> QED BY <1>1, <1>5, <1>6, <1>7 DEF PopCall

LEMMA PopMarkedInv ==
  ASSUME MarkingInv, PopMarked
  PROVE  MarkingInv'
<1> USE DEF MarkingInv
<1>1. worklist # <<>> /\ progress = "work" /\ Entry[1] \in marked
  BY DEF PopMarked, Is
<1>2. Rest \in Seq(Inst \X (1 .. 2)) /\ OnList = {Entry} \cup Others
  BY <1>1, Popped
<1>3. OnList' = Others
  BY DEF PopMarked, OnList, Others, Rest
<1>4. MarkingTypeOK'
  BY <1>1, <1>2 DEF PopMarked, MarkingTypeOK, Handles
<1>5. Sound'
  BY <1>2, <1>3, StillSound DEF PopMarked
<1>6. ASSUME Consistent(fun) PROVE Complete'
  <2>1. \A e \in OnList \ OnList' : e[1] \in marked'
    BY <1>1, <1>2, <1>3 DEF PopMarked
  <2>2. marked' \cap Arguments(fun) \subseteq loadArg'
    BY <1>6 DEF PopMarked, Complete
  <2> QED BY <1>6, <2>1, <2>2, StillComplete DEF PopMarked
<1> QED BY <1>1, <1>4, <1>5, <1>6 DEF PopMarked

LEMMA PopLoadInv ==
  ASSUME MarkingInv, PopLoad
  PROVE  MarkingInv'
<1> USE DEF MarkingInv
<1>work. worklist # <<>> /\ progress = "work"
  BY DEF PopLoad, Is
<1>i. PICK i \in Inst : i = Entry[1]
  BY <1>work, Popped
<1>1. i \notin marked /\ fun.op[i] \in {"load", "list load"} /\ progress = "work"
  BY <1>i, <1>work DEF PopLoad, Is
<1>2. /\ Rest \in Seq(Inst \X (1 .. 2)) /\ i \in Inst /\ Entry[2] \in 1 .. 2
      /\ OnList = {Entry} \cup Others
  BY <1>work, Popped
<1>3. PICK v \in Level(fun, Entry[2]) : v \in Values /\ i \in fun.users[v]
  BY <1>i, <1>work, Popped
<1>4. fun.op[i] = "load"
  BY <1>1, <1>2 DEF Handles
<1>5. i \in Values /\ i \notin InList(fun) /\ i \notin Handles(fun)
  BY <1>2, <1>4, LevelFacts, FunctionsAssumption DEF Handles, Values, FunctionsAssumption
<1>6. CASE Entry[2] = 2
  <2>follow. Follow(i, 1)
    <3>1. Entry[2] - 1 = 1
      BY <1>6
    <3> QED BY <1>i, <3>1 DEF PopLoad
  <2>1. PICK users \in Users(i, 1) : worklist' = users \o Rest
    BY <2>follow DEF Follow
  <2>2. /\ worklist' \in Seq(Inst \X (1 .. 2))
        /\ OnList' = {<<j, 1>> : j \in fun.users[i]} \cup Others
    BY <1>2, <1>5, <2>1, Pushed DEF Others
  <2>3. i \in FromList(fun) /\ i \in Bookkeeping(fun)
    BY <1>2, <1>3, <1>4, <1>6, LevelFacts DEF Level
  <2>4. marked' = marked \cup {i} /\ loadArg' = loadArg /\ UNCHANGED <<fun, handles, progress>>
    <3>1. loadArg' = loadArg
      <4>1. Entry[2] # 1
        BY <1>6
      <4> QED BY <4>1, Zenon DEF PopLoad
    <3> QED BY <2>follow, <3>1 DEF Follow
  <2>5. MarkingTypeOK'
    BY <1>2, <2>2, <2>4 DEF MarkingTypeOK, Handles
  <2>6. Sound'
    <3>1. \A e \in OnList' \ OnList : \E w \in Level(fun, e[2]) : e[1] \in fun.users[w]
      BY <1>2, <2>2, <2>3 DEF Level
    <3> QED BY <2>3, <2>4, <3>1, StillSound
  <2>7. ASSUME Consistent(fun) PROVE Complete'
    <3>1. Followed(i, 1)'
      BY <2>2, <2>4 DEF Followed
    <3>2. i \notin Arguments(fun)
      BY <2>3, <2>7 DEF Consistent
    <3>3. \A e \in OnList \ OnList' : e[1] \in marked'
      BY <1>i, <1>2, <2>2, <2>4
    <3>4. marked' \cap Arguments(fun) \subseteq loadArg'
      BY <2>4, <2>7, <3>2 DEF Complete
    <3> QED BY <1>5, <2>4, <2>7, <3>1, <3>3, <3>4, StillComplete
  <2> QED BY <1>1, <2>4, <2>5, <2>6, <2>7
<1>7. CASE Entry[2] = 1
  <2>follow. Follow(i, 0)
    <3>1. Entry[2] - 1 = 0
      BY <1>7
    <3> QED BY <1>i, <3>1 DEF PopLoad
  <2>1. worklist' = Rest
    BY <2>follow DEF Follow
  <2>2. OnList' = Others
    BY <2>1 DEF OnList, Others
  <2>3. i \in Arguments(fun) /\ i \in Bookkeeping(fun)
    BY <1>2, <1>3, <1>4, <1>7, LevelFacts DEF Level
  <2>4. marked' = marked \cup {i} /\ loadArg' = loadArg \cup {i} /\ UNCHANGED <<fun, handles, progress>>
    <3>1. loadArg' = loadArg \cup {i}
      BY <1>7, <1>i DEF PopLoad
    <3> QED BY <2>follow, <3>1 DEF Follow
  <2>5. MarkingTypeOK'
    BY <1>2, <2>1, <2>4 DEF MarkingTypeOK, Handles
  <2>6. Sound'
    BY <1>2, <2>2, <2>3, <2>4, StillSound
  <2>7. ASSUME Consistent(fun) PROVE Complete'
    <3>1. i \notin FromList(fun)
      BY <2>3, <2>7 DEF Consistent
    <3>2. \A e \in OnList \ OnList' : e[1] \in marked'
      BY <1>i, <1>2, <2>2, <2>4
    <3>3. marked' \cap Arguments(fun) \subseteq loadArg'
      BY <2>4, <2>7 DEF Complete
    <3> QED BY <1>5, <2>4, <2>7, <3>1, <3>2, <3>3, StillComplete
  <2> QED BY <1>1, <2>4, <2>5, <2>6, <2>7
<1> QED BY <1>2, <1>6, <1>7

LEMMA PopOtherInv ==
  ASSUME MarkingInv, PopOther
  PROVE  MarkingInv'
<1> USE DEF MarkingInv
<1>work. worklist # <<>> /\ progress = "work"
  BY DEF PopOther, Is
<1>i. PICK i \in Inst, level \in 1 .. 2 : i = Entry[1] /\ level = Entry[2]
  BY <1>work, Popped
<1>1. i \notin marked /\ fun.op[i] \in {"alloca", "store", "value"}
  BY <1>i DEF PopOther, Is
<1>2. /\ Rest \in Seq(Inst \X (1 .. 2)) /\ Entry = <<i, level>>
      /\ OnList = {Entry} \cup Others
  BY <1>i, <1>work, Popped
<1>3. PICK v \in Level(fun, level) : v \in Values /\ i \in fun.users[v]
  BY <1>i, <1>work, Popped
<1>4. fun.op[i] \in {"store", "value"} /\ i \notin Handles(fun)
  BY <1>1, <1>work, FunctionsAssumption DEF Handles, FunctionsAssumption
<1>follow. Follow(i, level) /\ loadArg' = loadArg
  BY <1>i DEF PopOther
<1>5. PICK users \in Users(i, level) : worklist' = users \o Rest
  BY <1>follow DEF Follow
<1>6. marked' = marked \cup {i} /\ UNCHANGED <<fun, handles, loadArg, progress>>
  BY <1>follow DEF Follow
<1>7. i \in Values
  BY DEF Values
<1>8. /\ worklist' \in Seq(Inst \X (1 .. 2))
      /\ OnList' = {<<j, level>> : j \in fun.users[i]} \cup Others
  BY <1>2, <1>5, <1>7, Pushed DEF Others
<1>9. MarkingTypeOK'
  BY <1>6, <1>8 DEF MarkingTypeOK, Handles
<1>10. fun.op[i] = "value" => i \in Level(fun, level)
  BY <1>3, LevelFacts DEF Level, Closed
<1>11. fun.op[i] = "store" => fun.users[i] = {}
  BY FunctionsAssumption DEF FunctionsAssumption
<1>12. Sound'
  <2>1. \A e \in OnList' \ OnList : \E w \in Level(fun, e[2]) : e[1] \in fun.users[w]
    BY <1>2, <1>4, <1>8, <1>10, <1>11
  <2>2. i \in Bookkeeping(fun)
    BY <1>3, <1>4, <1>10, LevelFacts DEF Level
  <2> QED BY <1>6, <2>1, <2>2, StillSound
<1>13. ASSUME Consistent(fun) PROVE Complete'
  <2>1. Followed(i, level)'
    BY <1>6, <1>8 DEF Followed
  <2>2. i \in InList(fun) => level = 2
    <3>1. i \in InList(fun) => fun.op[i] = "value"
      BY <1>4, LevelFacts
    <3> QED BY <1>10, <1>13, <3>1 DEF Level, Consistent
  <2>3. i \in FromList(fun) => level = 1
    <3>1. i \in FromList(fun) => fun.op[i] = "value"
      BY <1>4, LevelFacts
    <3> QED BY <1>10, <1>13, <3>1 DEF Level, Consistent
  <2>4. i \notin Arguments(fun)
    BY <1>4, LevelFacts
  <2>5. \A e \in OnList \ OnList' : e[1] \in marked'
    BY <1>2, <1>6, <1>8
  <2>6. marked' \cap Arguments(fun) \subseteq loadArg'
    BY <1>6, <1>13, <2>4 DEF Complete
  <2>7. \A w \in (handles \ handles') \cup ((marked' \ marked) \cap InList(fun)) : Followed(w, 2)'
    BY <1>6, <2>1, <2>2
  <2>8. \A w \in (marked' \ marked) \cap FromList(fun) : Followed(w, 1)'
    BY <1>6, <2>1, <2>3
  <2> QED BY <1>6, <1>13, <2>5, <2>6, <2>7, <2>8, StillComplete
<1> QED BY <1>6, <1>9, <1>12, <1>13, <1>work

\* Steps that only change pc.
LEMMA OtherStepsInv ==
  ASSUME MarkingInv, HandlesDone \/ Finish \/ UNCHANGED markingVars
  PROVE  MarkingInv'
<1> USE DEF MarkingInv
<1>1. UNCHANGED <<fun, handles, worklist, marked, loadArg>>
  BY DEF HandlesDone, Finish, markingVars
<1>2. Sound' /\ (Consistent(fun) => Complete')
  BY <1>1 DEF Sound, Complete, Followed, OnList
<1>3. MarkingTypeOK'
  BY <1>1 DEF MarkingTypeOK, Handles, HandlesDone, Finish, markingVars
<1> QED BY <1>1, <1>2, <1>3 DEF HandlesDone, Finish, markingVars

LEMMA InvInductive == MarkingInv /\ [MarkingNext]_markingVars => MarkingInv'
<1> SUFFICES ASSUME MarkingInv, [MarkingNext]_markingVars PROVE MarkingInv'
  OBVIOUS
<1> QED BY StartHandleInv, PopCallInv, PopMarkedInv, PopLoadInv, PopOtherInv, OtherStepsInv DEF MarkingNext

LEMMA MarkingSpecInv == MarkingSpec => []MarkingInv
<1>1. MarkingInit => MarkingInv
  BY MarkingInitInv
<1>2. MarkingInv /\ [MarkingNext]_markingVars => MarkingInv'
  BY InvInductive
<1> QED BY <1>1, <1>2, PTL DEF MarkingSpec

-----------------------------------------------------------------------------

\* When the worklist is empty, what is followed is marked, so the marked
\* values of each level are closed and contain the whole level.
LEMMA AllIsMarked ==
  ASSUME MarkingInv, progress \in {"done", "reported"}, Consistent(fun)
  PROVE  Bookkeeping(fun) \subseteq marked /\ Arguments(fun) \subseteq loadArg
<1> USE DEF MarkingInv
<1>1. OnList = {} /\ handles = {}
  BY DEF OnList, Range
<1>users. \A v \in Values : fun.users[v] \subseteq Inst
  BY FunctionsAssumption DEF FunctionsAssumption, Values
<1>2. \A v \in Handles(fun) \cup (marked \cap InList(fun)), i \in Inst :
        i \in fun.users[v] /\ fun.op[i] \notin Calls => i \in marked
  BY <1>1 DEF Complete, Followed
<1>3. \A v \in marked \cap FromList(fun), i \in Inst :
        i \in fun.users[v] /\ fun.op[i] \notin Calls => i \in marked
  BY <1>1 DEF Complete, Followed
<1>4. InList(fun) \subseteq marked \cup Handles(fun)
  <2> DEFINE T == (marked \cap InList(fun)) \cup Handles(fun)
  <2>1. T \subseteq InList(fun) /\ T \in SUBSET Values /\ Handles(fun) \subseteq T
    BY LevelFacts
  <2>2. Closed(fun, T)
    <3> SUFFICES ASSUME NEW v \in T, NEW i \in fun.users[v], fun.op[i] = "value"
                 PROVE  i \in T
      BY DEF Closed
    <3>1. i \in Inst /\ i \in InList(fun)
      BY <1>users, <2>1, LevelFacts DEF Closed
    <3>2. i \in marked
      BY <1>2, <3>1 DEF Calls
    <3> QED BY <3>1, <3>2
  <2>3. InList(fun) \subseteq T
    BY <2>1, <2>2, LevelFacts
  <2> QED BY <2>3
<1>5. \A v \in InList(fun), i \in Inst :
        i \in fun.users[v] /\ fun.op[i] \notin Calls => i \in marked
  BY <1>2, <1>4
<1>6. FromList(fun) \subseteq marked
  <2> DEFINE T == marked \cap FromList(fun)
             loads == UsersOf(fun, InList(fun), {"load"})
  <2>1. T \in SUBSET Values
    BY DEF MarkingTypeOK, Values
  <2>2. loads \subseteq T
    <3> SUFFICES ASSUME NEW i \in loads PROVE i \in T
      OBVIOUS
    <3>1. PICK v \in InList(fun) : i \in fun.users[v] /\ fun.op[i] = "load"
      BY DEF UsersOf
    <3>2. v \in Values
      BY LevelFacts
    <3>3. i \in Inst
      BY <1>users, <3>1, <3>2
    <3> QED BY <1>5, <3>1, <3>3, LevelFacts DEF Calls
  <2>3. Closed(fun, T)
    <3> SUFFICES ASSUME NEW v \in T, NEW i \in fun.users[v], fun.op[i] = "value"
                 PROVE  i \in T
      BY DEF Closed
    <3>1. i \in Inst /\ i \in FromList(fun)
      BY <1>users, <2>1, LevelFacts DEF Closed
    <3> QED BY <1>3, <3>1 DEF Calls
  <2> HIDE DEF T
  <2>4. FromList(fun) \subseteq T
    BY <2>1, <2>2, <2>3, LevelFacts
  <2> QED BY <2>4 DEF T
<1>7. Arguments(fun) \subseteq marked
  BY <1>3, <1>6, LevelFacts DEF Calls
<1>8. \A v \in InList(fun) \cup FromList(fun), i \in Inst :
        i \in fun.users[v] /\ fun.op[i] \notin Calls => i \in marked
  BY <1>3, <1>5, <1>6
<1>9. Handles(fun) \cap Inst \subseteq marked
  BY <1>1
<1>10. Bookkeeping(fun) \subseteq marked
  <2> SUFFICES ASSUME NEW i \in Bookkeeping(fun) PROVE i \in marked
    OBVIOUS
  <2>1. i \in Inst
    BY LevelFacts
  <2>2. \/ i \in InList(fun) \cup FromList(fun) \cup Arguments(fun)
        \/ /\ fun.op[i] \in {"store", "va"}
           /\ \E v \in InList(fun) \cup FromList(fun) : i \in fun.users[v]
    BY <2>1, LevelFacts
  <2> QED BY <1>4, <1>6, <1>7, <1>8, <1>9, <2>1, <2>2 DEF Calls
<1>11. Arguments(fun) \subseteq loadArg
  BY <1>7 DEF Complete
<1> QED BY <1>10, <1>11

\* Marks and worklist keep their types. No load is reached with no loads
\* left, so the assertion in markVarargInsts holds.
THEOREM MarkingTypeCorrect == MarkingSpec => []MarkingTypeOK
<1>1. MarkingInv => MarkingTypeOK
  BY DEF MarkingInv
<1> QED BY <1>1, MarkingSpecInv, PTL

\* In every function and for every order of users, only bookkeeping of lists
\* is marked, and all of it if every value has one distance from arguments.
THEOREM MarkingIsRight == MarkingSpec => []BookkeepingIsMarked
<1>1. MarkingInv => BookkeepingIsMarked
  BY AllIsMarked DEF MarkingInv, Sound, BookkeepingIsMarked
<1> QED BY <1>1, MarkingSpecInv, PTL

\* The same of the loads that get arguments.
THEOREM ArgumentLoadsAreRight == MarkingSpec => []ArgumentLoadsAreMarked
<1>1. MarkingInv => ArgumentLoadsAreMarked
  BY AllIsMarked DEF MarkingInv, Sound, ArgumentLoadsAreMarked
<1> QED BY <1>1, MarkingSpecInv, PTL

-----------------------------------------------------------------------------
(***************************************************************************)
(* TargetFiltering. The dominance filter never loses a target that the     *)
(* other optimizations did not choose to drop.                             *)
(***************************************************************************)

\* Coverage is transitive: this is why a chain of removals is harmless.
LEMMA CoversTransitive ==
  ASSUME it \in [Target -> ITarget],
         NEW a \in Target, NEW b \in Target, NEW c \in Target,
         Covers(a, b), Covers(b, c)
  PROVE  Covers(a, c)
<1>1. /\ it[a].location \in Loc /\ it[b].location \in Loc /\ it[c].location \in Loc
      /\ it[a].kind = "const" => it[a].width \in Nat
      /\ it[b].kind = "const" => it[b].width \in Nat
      /\ it[c].kind = "const" => it[c].width \in Nat
  BY SizeAssumption DEF ITarget
<1>2. <<it[a].location, it[c].location>> \in Dom
  BY <1>1, DomAssumption DEF Covers
<1>3. QED
  BY <1>1, <1>2 DEF Covers

\* What the filter tests implies what the property asks for.
LEMMA SubsumingCovers ==
  ASSUME it \in [Target -> ITarget],
         NEW a \in Target, NEW b \in Target, Subsuming(a, b)
  PROVE  /\ Covers(a, b)
         /\ Live(a) /\ Live(b) /\ a # b
<1>1. /\ it[a].kind = "const" => it[a].width \in Nat
      /\ it[b].kind = "const" => it[b].width \in Nat
  BY SizeAssumption DEF ITarget
<1>2. \A t \in {a, b} : it[t].instrumentee # NoValue => it[t].kind # "callinv"
  BY DEF ITarget
<1>3. QED
  BY <1>1, <1>2
     DEF Subsuming, Comparable, Subsumes, Covers, InvariantKind, Live

-----------------------------------------------------------------------------
\* Every phase of runOnModule keeps the targets and the loop positions of the
\* optimizations within their types.
THEOREM TypeCorrect == Spec => []TypeOK
<1>1. Init => TypeOK
  BY DEF Init, TypeOK, Fate
<1>2. TypeOK /\ [Next]_vars => TypeOK'
  <2> SUFFICES ASSUME TypeOK, [Next]_vars
               PROVE  TypeOK'
    OBVIOUS
  <2> USE DEF TypeOK, program, NextOptimization
  <2>1. CASE RejectDominance
    BY <2>1 DEF RejectDominance
  <2>2. CASE DominanceCompare
    <3>1. pair' \in (Nat \ {0}) \X (Nat \ {0})
      BY <2>2 DEF DominanceCompare, After
    <3>2. fate' \in [Target -> Fate]
      BY <2>2 DEF DominanceCompare, Invalidate, Fate
    <3>3. QED
      BY <2>2, <3>1, <3>2 DEF DominanceCompare
  <2>3. CASE DominanceDone
    BY <2>3 DEF DominanceDone
  <2>4. CASE AnnotationRemoval
    BY <2>4 DEF AnnotationRemoval, Invalidate, Fate
  <2>5. CASE HotnessRemoval
    BY <2>5 DEF HotnessRemoval, Invalidate, Fate
  <2>6. CASE ExampleUpdate
    BY <2>6 DEF ExampleUpdate, Invalidate, Fate, EarlyTargets
  <2>7. CASE OptimizationsDone
    BY <2>7 DEF OptimizationsDone
  <2>8. CASE SimplifyWitnessGraph
    BY <2>8 DEF SimplifyWitnessGraph, Invalidate, Fate
  <2>9. CASE RejectSimplification
    BY <2>9 DEF RejectSimplification
  <2>10. CASE KeepWitnessGraph
    BY <2>10 DEF KeepWitnessGraph
  <2>11. CASE GenerateInvariants
    BY <2>11 DEF GenerateInvariants
  <2>12. CASE PlaceExternalChecks
    BY <2>12 DEF PlaceExternalChecks
  <2>13. CASE GenerateChecks
    BY <2>13 DEF GenerateChecks
  <2>14. CASE UNCHANGED vars
    BY <2>14 DEF vars
  <2>15. QED
    BY <2>1, <2>2, <2>3, <2>4, <2>5, <2>6, <2>7, <2>8, <2>9, <2>10, <2>11,
       <2>12, <2>13, <2>14 DEF Next, Optimize, Generate
<1>3. QED
  BY <1>1, <1>2, PTL DEF Spec

-----------------------------------------------------------------------------
\* Every subsumed target is covered by one whose fate is in K.
CoveredBy(K) ==
  \A t \in Target : fate[t] = "subsumed" =>
    \E c \in Target : fate[c] \in K /\ Covers(c, t)

\* One comparison of the filter keeps every coverage guarantee: the target
\* it removes hands everything it covered to the one that removes it.
LEMMA CompareKeepsCover ==
  ASSUME NEW K, "live" \in K, "subsumed" \notin K,
         TypeOK, CoveredBy(K), DominanceCompare
  PROVE  CoveredBy(K)'
<1> DEFINE a == pair[1]
<1> DEFINE Gone(t) == t = pair[2] /\ Subsuming(a, t)
<1>1. /\ it \in [Target -> ITarget]
      /\ it' = it
      /\ a \in Target
      /\ fate \in [Target -> Fate]
  BY NAssumption DEF TypeOK, DominanceCompare, program, Target
<1>2. \A t \in Target : fate'[t] = IF Gone(t) THEN "subsumed" ELSE fate[t]
  BY DEF DominanceCompare, Invalidate
<1>3. \A c, t \in Target : Covers(c, t)' <=> Covers(c, t)
  BY <1>1 DEF Covers
<1>4. \A t \in Target : Gone(t) => /\ Covers(a, t)
                                  /\ fate'[a] = "live"
  <2>1. SUFFICES ASSUME NEW t \in Target, Gone(t)
                 PROVE  Covers(a, t) /\ fate'[a] = "live"
    OBVIOUS
  <2>2. Covers(a, t) /\ Live(a) /\ a # t
    BY <1>1, <2>1, SubsumingCovers
  <2>3. ~Gone(a)
    BY <2>1, <2>2
  <2>4. QED
    BY <1>1, <1>2, <2>2, <2>3 DEF Live
<1>5. SUFFICES ASSUME NEW t \in Target, fate'[t] = "subsumed"
               PROVE  \E c \in Target : fate'[c] \in K /\ Covers(c, t)
  BY <1>3 DEF CoveredBy
<1>6. CASE Gone(t)
  BY <1>1, <1>4, <1>6
<1>7. CASE ~Gone(t)
  <2>1. PICK c \in Target : fate[c] \in K /\ Covers(c, t)
    BY <1>2, <1>5, <1>7 DEF CoveredBy
  <2>2. CASE Gone(c)
    <3>1. Covers(a, c) /\ fate'[a] = "live"
      BY <1>4, <2>2
    <3>2. Covers(a, t)
      BY <1>1, <2>1, <3>1, CoversTransitive
    <3>3. QED
      BY <1>1, <3>1, <3>2
  <2>3. CASE ~Gone(c)
    BY <1>2, <2>1, <2>3
  <2>4. QED
    BY <2>2, <2>3
<1>8. QED
  BY <1>6, <1>7

\* A step that only turns targets of fate in K into targets of fate in K,
\* and subsumes none, keeps the guarantee as well.
LEMMA OthersKeepCover ==
  ASSUME NEW K, CoveredBy(K), it' = it,
         \A t \in Target : \/ fate'[t] = fate[t]
                           \/ fate'[t] \in K /\ fate'[t] # "subsumed"
  PROVE  CoveredBy(K)'
<1>1. \A c, t \in Target : Covers(c, t)' <=> Covers(c, t)
  BY DEF Covers
<1>2. SUFFICES ASSUME NEW t \in Target, fate'[t] = "subsumed"
               PROVE  \E c \in Target : fate'[c] \in K /\ Covers(c, t)
  BY <1>1 DEF CoveredBy
<1>3. PICK c \in Target : fate[c] \in K /\ Covers(c, t)
  BY <1>2 DEF CoveredBy
<1>4. fate'[c] \in K
  BY <1>3
<1>5. QED
  BY <1>3, <1>4

NotSubsumed == Fate \ {"subsumed"}

\* SubsumedAreCovered holds for every list of optimizations.
THEOREM FilteringLosesNothing == Spec => []SubsumedAreCovered
<1>1. Init => CoveredBy(NotSubsumed)
  BY DEF Init, CoveredBy
<1>2. TypeOK /\ CoveredBy(NotSubsumed) /\ [Next]_vars => CoveredBy(NotSubsumed)'
  <2> SUFFICES ASSUME TypeOK, CoveredBy(NotSubsumed), [Next]_vars
               PROVE  CoveredBy(NotSubsumed)'
    OBVIOUS
  <2>1. CASE DominanceCompare
    BY <2>1, CompareKeepsCover DEF NotSubsumed, Fate
  <2>2. CASE ~DominanceCompare
    <3>1. it' = it
      BY <2>2 DEF Next, Optimize, Generate, program, vars, RejectDominance,
         DominanceDone, AnnotationRemoval, HotnessRemoval, ExampleUpdate,
         OptimizationsDone, SimplifyWitnessGraph, RejectSimplification,
         KeepWitnessGraph, GenerateInvariants, PlaceExternalChecks,
         GenerateChecks
    <3>2. \A t \in Target : fate'[t] = fate[t] \/ fate'[t] \in NotSubsumed
      BY <2>2 DEF Next, Optimize, Generate, vars, RejectDominance,
         DominanceDone, AnnotationRemoval, HotnessRemoval, ExampleUpdate,
         OptimizationsDone, SimplifyWitnessGraph, RejectSimplification,
         KeepWitnessGraph, GenerateInvariants, PlaceExternalChecks,
         GenerateChecks, Invalidate, NotSubsumed, Fate
    <3>3. QED
      BY <3>1, <3>2, OthersKeepCover DEF NotSubsumed
  <2>3. QED
    BY <2>1, <2>2
<1>3. TypeOK /\ CoveredBy(NotSubsumed) => SubsumedAreCovered
  BY DEF CoveredBy, SubsumedAreCovered, NotSubsumed, TypeOK
<1>4. QED
  BY <1>1, <1>2, <1>3, TypeCorrect, PTL DEF Spec

-----------------------------------------------------------------------------
\* While the optimizations run, a subsumed target shows that the dominance
\* filter is running or has run.
SubsumedBy ==
  pc = "optimize" /\ (\E t \in Target : fate[t] = "subsumed") =>
    \E k \in DOMAIN config.opts : k <= oi /\ config.opts[k] = "dominance"

GuardFate == {"live", "early", "unchanged"}

GuardInv == SubsumedBy /\ (DominanceLast => CoveredBy(GuardFate))

\* An optimization that drops checks outright finds no subsumed target when
\* the command line runs the dominance filter after it.
LEMMA RemovalFindsNoneSubsumed ==
  ASSUME TypeOK, SubsumedBy, DominanceLast,
         Running("annotation") \/ Running("hotness")
  PROVE  \A t \in Target : fate[t] # "subsumed"
<1>1. SUFFICES ASSUME NEW t \in Target, fate[t] = "subsumed"
               PROVE  FALSE
  OBVIOUS
<1>2. PICK k \in DOMAIN config.opts : k <= oi /\ config.opts[k] = "dominance"
  BY <1>1 DEF SubsumedBy, Running
<1>3. oi \in DOMAIN config.opts /\ config.opts[oi] \in {"annotation", "hotness"}
  BY DEF Running
<1>4. k \in Nat /\ oi \in Nat
  <2>1. config.opts \in Seq(Optimization)
    BY ConfigAssumption DEF TypeOK, Config
  <2>2. QED
    BY <2>1, <1>2 DEF TypeOK
<1>5. k # oi
  BY <1>2, <1>3
<1>6. k < oi
  BY <1>2, <1>4, <1>5
<1>7. QED
  BY <1>2, <1>3, <1>6 DEF DominanceLast

\* Every step keeps the covering target of a subsumed one in place.
LEMMA GuardInvStep == TypeOK /\ GuardInv /\ [Next]_vars => GuardInv'
<1> SUFFICES ASSUME TypeOK, GuardInv, [Next]_vars
             PROVE  GuardInv'
  OBVIOUS
<1>1. /\ it' = it
      /\ config' = config
      /\ DominanceLast' <=> DominanceLast
  BY DEF Next, Optimize, Generate, program, vars, RejectDominance,
     DominanceCompare, DominanceDone, AnnotationRemoval, HotnessRemoval,
     ExampleUpdate, OptimizationsDone, SimplifyWitnessGraph,
     RejectSimplification, KeepWitnessGraph, GenerateInvariants,
     PlaceExternalChecks, GenerateChecks, DominanceLast
<1>2. oi \in Nat
  BY DEF TypeOK
<1>a. \A k \in DOMAIN config.opts : k \in Nat
  BY ConfigAssumption DEF TypeOK, Config
<1>3. CASE DominanceCompare
  <2>1. SubsumedBy'
    BY <1>1, <1>2, <1>3 DEF DominanceCompare, SubsumedBy, Running
  <2>2. DominanceLast => CoveredBy(GuardFate)'
    BY <1>3, CompareKeepsCover DEF GuardInv, GuardFate
  <2>3. QED
    BY <1>1, <2>1, <2>2 DEF GuardInv
<1>4. CASE AnnotationRemoval \/ HotnessRemoval
  <2>1. \A t \in Target : fate'[t] = "subsumed" => fate[t] = "subsumed"
    BY <1>4 DEF AnnotationRemoval, HotnessRemoval, Invalidate
  <2>2. SubsumedBy'
    BY <1>1, <1>2, <1>4, <1>a, <2>1
       DEF AnnotationRemoval, HotnessRemoval, NextOptimization, GuardInv,
           SubsumedBy
  <2>3. DominanceLast => CoveredBy(GuardFate)'
    BY <1>4, <2>1, RemovalFindsNoneSubsumed
       DEF AnnotationRemoval, HotnessRemoval, GuardInv, CoveredBy
  <2>4. QED
    BY <1>1, <2>2, <2>3 DEF GuardInv
<1>5. CASE /\ ~DominanceCompare /\ ~AnnotationRemoval /\ ~HotnessRemoval
  <2>1. \A t \in Target : fate'[t] = fate[t] \/ fate'[t] \in GuardFate
    BY <1>5 DEF Next, Optimize, Generate, vars, RejectDominance,
       DominanceDone, ExampleUpdate, OptimizationsDone, SimplifyWitnessGraph,
       RejectSimplification, KeepWitnessGraph, GenerateInvariants,
       PlaceExternalChecks, GenerateChecks, Invalidate, GuardFate
  <2>2. pc' = "optimize" => pc = "optimize" /\ oi' \in {oi, oi + 1}
    BY <1>5 DEF Next, Optimize, Generate, vars, RejectDominance,
       DominanceDone, ExampleUpdate, OptimizationsDone, SimplifyWitnessGraph,
       RejectSimplification, KeepWitnessGraph, GenerateInvariants,
       PlaceExternalChecks, GenerateChecks, NextOptimization
  <2>3. SubsumedBy'
    <3>1. \A t \in Target : fate'[t] = "subsumed" => fate[t] = "subsumed"
      BY <2>1 DEF GuardFate
    <3>2. QED
      BY <1>1, <1>2, <1>a, <2>2, <3>1 DEF GuardInv, SubsumedBy
  <2>4. DominanceLast => CoveredBy(GuardFate)'
    BY <1>1, <2>1, OthersKeepCover DEF GuardInv, GuardFate
  <2>5. QED
    BY <1>1, <2>3, <2>4 DEF GuardInv
<1>6. QED
  BY <1>3, <1>4, <1>5

\* SubsumedKeepGuard: with the removing optimizations first, what covers a
\* subsumed target is still there to be emitted, or is an external check.
THEOREM FilteringKeepsGuards == Spec => []SubsumedKeepGuard
<1>1. Init => GuardInv
  BY DEF Init, GuardInv, SubsumedBy, CoveredBy
<1>2. GuardInv => SubsumedKeepGuard
  BY DEF GuardInv, CoveredBy, GuardFate, SubsumedKeepGuard
<1>3. QED
  BY <1>1, <1>2, GuardInvStep, TypeCorrect, PTL DEF Spec

-----------------------------------------------------------------------------
\* Only a comparison of the dominance filter moves its loop positions; every
\* other step of an optimization starts the next one from the first pair.
LEMMA LoopsStartAnew ==
  ASSUME TypeOK, [Next]_vars, ~DominanceCompare, Running("dominance")'
  PROVE  \/ pair' = <<1, 1>>
         \/ UNCHANGED vars
<1>1. CASE DominanceDone \/ AnnotationRemoval \/ HotnessRemoval \/ ExampleUpdate
  BY <1>1 DEF DominanceDone, AnnotationRemoval, HotnessRemoval, ExampleUpdate,
     NextOptimization
<1>2. CASE RejectDominance \/ OptimizationsDone \/ Generate
  BY <1>2 DEF RejectDominance, OptimizationsDone, Generate, Running,
     SimplifyWitnessGraph, RejectSimplification, KeepWitnessGraph,
     GenerateInvariants, PlaceExternalChecks, GenerateChecks
<1>3. QED
  BY <1>1, <1>2 DEF Next, Optimize

\* What the filter removes is all that the meaning of targets lets it remove,
\* invariants aside.
LEMMA CoversSubsuming ==
  ASSUME it \in [Target -> ITarget],
         NEW a \in Target, NEW b \in Target, a # b,
         Live(a), Live(b), Covers(a, b), it[b].kind \notin InvariantKind
  PROVE  Subsuming(a, b)
<1>1. /\ it[a].kind \in {"const", "var"}
      /\ it[b].kind \in {"const", "var"}
  BY DEF Covers, InvariantKind
<1>2. it[a].instrumentee # NoValue
  BY <1>1, ValueAssumption DEF ITarget
<1>3. QED
  BY <1>1, <1>2 DEF Subsuming, Comparable, Subsumes, Covers

\* The pairs passed after a comparison are those passed before and its own.
LEMMA PassedGrows ==
  ASSUME TypeOK, DominanceCompare, NEW a \in Target, NEW b \in Target,
         Passed(<<a, b>>)'
  PROVE  Passed(<<a, b>>) \/ (a = pair[1] /\ b = pair[2])
<1>1. /\ pair[1] \in Nat /\ pair[2] \in Nat /\ N \in Nat
      /\ a \in 1 .. N /\ b \in 1 .. N
  BY NAssumption DEF TypeOK, Target
<1>2. CASE pair[2] < N
  <2>1. pair' = <<pair[1], pair[2] + 1>>
    BY <1>2 DEF DominanceCompare, After
  <2>2. QED
    BY <1>1, <2>1 DEF Passed
<1>3. CASE ~(pair[2] < N)
  <2>1. pair' = <<pair[1] + 1, 1>>
    BY <1>3 DEF DominanceCompare, After
  <2>2. QED
    BY <1>1, <1>3, <2>1 DEF Passed
<1>4. QED
  BY <1>2, <1>3

\* A comparison leaves no covered target valid among the pairs it has passed.
LEMMA CompareSuffices ==
  ASSUME TypeOK, OnePassSuffices, DominanceCompare
  PROVE  OnePassSuffices'
<1>1. /\ it \in [Target -> ITarget]
      /\ it' = it
      /\ Running("dominance")
      /\ fate \in [Target -> Fate]
  BY DEF TypeOK, DominanceCompare, program
<1>2. \A t \in Target : fate'[t] = IF t = pair[2] /\ Subsuming(pair[1], t)
                                     THEN "subsumed" ELSE fate[t]
  BY DEF DominanceCompare, Invalidate
<1>3. \A a, b \in Target : Covers(a, b)' <=> Covers(a, b)
  BY <1>1 DEF Covers
<1>4. SUFFICES ASSUME NEW a \in Target, NEW b \in Target, Passed(<<a, b>>)', a # b,
                      it[b].kind \notin InvariantKind,
                      fate'[a] = "live", fate'[b] = "live", Covers(a, b)
               PROVE  FALSE
  BY <1>1, <1>3 DEF OnePassSuffices, Live
<1>5. Live(a) /\ Live(b)
  BY <1>2, <1>4 DEF Live
<1>6. ~Passed(<<a, b>>)
  BY <1>1, <1>4, <1>5 DEF OnePassSuffices
<1>7. a = pair[1] /\ b = pair[2]
  BY <1>4, <1>6, PassedGrows
<1>8. Subsuming(a, b)
  BY <1>1, <1>4, <1>5, CoversSubsuming
<1>9. QED
  BY <1>2, <1>4, <1>7, <1>8

\* OnePassSuffices: the filter needs no second pass, whatever it removes on
\* the way and whatever ran before it.
THEOREM FilteringNeedsOnePass == Spec => []OnePassSuffices
<1>1. pair = <<1, 1>> => OnePassSuffices
  BY NAssumption DEF OnePassSuffices, Passed, Target
<1>2. Init => OnePassSuffices
  BY <1>1 DEF Init
<1>3. TypeOK /\ OnePassSuffices /\ [Next]_vars => OnePassSuffices'
  <2> SUFFICES ASSUME TypeOK, OnePassSuffices, [Next]_vars
               PROVE  OnePassSuffices'
    OBVIOUS
  <2>1. CASE DominanceCompare
    BY <2>1, CompareSuffices
  <2>2. CASE ~Running("dominance")'
    BY <2>2 DEF OnePassSuffices
  <2>3. CASE pair' = <<1, 1>>
    BY <2>3, NAssumption DEF OnePassSuffices, Passed, Target
  <2>4. CASE UNCHANGED vars
    BY <2>4 DEF vars, OnePassSuffices, Running, Passed, Live, Covers
  <2>5. QED
    BY <2>1, <2>2, <2>3, <2>4, LoopsStartAnew
<1>4. QED
  BY <1>2, <1>3, TypeCorrect, PTL DEF Spec

-----------------------------------------------------------------------------
\* Targets that went to the example optimization are on its worklist, and
\* simplification takes invariants only.
FatesAreExplained ==
  \A t \in Target : /\ fate[t] = "early" => t \in currentWL
                    /\ fate[t] = "unchanged" => IsInvariant(t)

\* The worklist is that of an optimization of the command line, and is
\* placed once materialization has passed this optimization.
WorklistIsPlaced ==
  /\ currentWL # {} => \E k \in DOMAIN config.opts : config.opts[k] = "example"
  /\ pc \in {"place", "done"} =>
       \A k \in DOMAIN config.opts :
         k < oi /\ config.opts[k] = "example" => currentWL \subseteq guards

\* At the end every optimization was materialized and every check that is
\* still valid was emitted.
EndIsReached ==
  pc = "done" => /\ oi > Len(config.opts)
                 /\ \A t \in Target : Live(t) /\ IsCheck(t) => t \in emitted

EmissionInv == FatesAreExplained /\ WorklistIsPlaced /\ EndIsReached

\* Each phase keeps the reason for which a target was invalidated true.
LEMMA EmissionInvStep == TypeOK /\ EmissionInv /\ [Next]_vars => EmissionInv'
<1> SUFFICES ASSUME TypeOK, EmissionInv, [Next]_vars
             PROVE  EmissionInv'
  OBVIOUS
<1> USE DEF EmissionInv
<1>1. it' = it /\ config' = config
  BY DEF Next, Optimize, Generate, program, vars, RejectDominance,
     DominanceCompare, DominanceDone, AnnotationRemoval, HotnessRemoval,
     ExampleUpdate, OptimizationsDone, SimplifyWitnessGraph,
     RejectSimplification, KeepWitnessGraph, GenerateInvariants,
     PlaceExternalChecks, GenerateChecks
<1>2. /\ oi \in Nat
      /\ \A k \in DOMAIN config.opts : k \in Nat
      /\ Len(config.opts) \in Nat /\ DOMAIN config.opts = 1 .. Len(config.opts)
  BY ConfigAssumption DEF TypeOK, Config
<1>3. \A t \in Target : IsInvariant(t)' <=> IsInvariant(t)
  BY <1>1 DEF IsInvariant
<1>4. CASE \/ DominanceCompare \/ DominanceDone \/ AnnotationRemoval
           \/ HotnessRemoval
  <2>1. /\ currentWL' = currentWL /\ pc' = "optimize"
        /\ \A t \in Target : fate'[t] = fate[t] \/ fate'[t] \notin {"early", "unchanged"}
    BY <1>4 DEF DominanceCompare, DominanceDone, AnnotationRemoval,
       HotnessRemoval, NextOptimization, Invalidate, Running
  <2>2. QED
    BY <1>1, <1>3, <2>1 DEF FatesAreExplained, WorklistIsPlaced, EndIsReached
<1>5. CASE ExampleUpdate
  <2>1. pc' = "optimize" /\ oi \in DOMAIN config.opts /\ config.opts[oi] = "example"
    BY <1>5 DEF ExampleUpdate, Running, NextOptimization
  <2>2. \A t \in Target : /\ fate'[t] = IF t \in EarlyTargets THEN "early" ELSE fate[t]
                          /\ t \in EarlyTargets \cup currentWL => t \in currentWL'
    BY <1>5 DEF ExampleUpdate, Invalidate
  <2>3. QED
    BY <1>1, <1>3, <2>1, <2>2 DEF FatesAreExplained, WorklistIsPlaced, EndIsReached
<1>6. CASE SimplifyWitnessGraph
  <2>1. \A t \in Target : fate'[t] = fate[t] \/ (fate'[t] = "unchanged" /\ IsInvariant(t))
    BY <1>6 DEF SimplifyWitnessGraph, Invalidate
  <2>2. currentWL' = currentWL /\ pc' = "invariants"
    BY <1>6 DEF SimplifyWitnessGraph
  <2>3. QED
    BY <1>1, <1>3, <2>1, <2>2 DEF FatesAreExplained, WorklistIsPlaced, EndIsReached
<1>7. CASE \/ RejectDominance \/ OptimizationsDone \/ RejectSimplification
           \/ KeepWitnessGraph
  <2>1. fate' = fate /\ currentWL' = currentWL /\ pc' \notin {"place", "done"}
    BY <1>7 DEF RejectDominance, OptimizationsDone, RejectSimplification,
       KeepWitnessGraph
  <2>2. QED
    BY <1>1, <1>3, <2>1 DEF FatesAreExplained, WorklistIsPlaced, EndIsReached
<1>8. CASE GenerateInvariants
  <2>1. fate' = fate /\ currentWL' = currentWL /\ pc' = "place" /\ oi' = 1
    BY <1>8 DEF GenerateInvariants
  <2>2. QED
    BY <1>1, <1>2, <1>3, <2>1 DEF FatesAreExplained, WorklistIsPlaced, EndIsReached
<1>9. CASE PlaceExternalChecks
  <2>1. /\ fate' = fate /\ currentWL' = currentWL /\ oi' = oi + 1
        /\ pc = "place" /\ pc' \in {"place", "abort"}
        /\ guards \subseteq guards'
        /\ pc' = "place" /\ config.opts[oi] = "example" => currentWL \subseteq guards'
    BY <1>9 DEF PlaceExternalChecks
  <2>2. pc' = "place" =>
          \A k \in DOMAIN config.opts :
            k < oi + 1 /\ config.opts[k] = "example" => currentWL \subseteq guards'
    <3>1. SUFFICES ASSUME NEW k \in DOMAIN config.opts, pc' = "place", k < oi + 1,
                          config.opts[k] = "example"
                   PROVE  currentWL \subseteq guards'
      OBVIOUS
    <3>2. CASE k < oi
      BY <2>1, <3>1, <3>2 DEF WorklistIsPlaced
    <3>3. CASE k = oi
      BY <2>1, <3>1, <3>3
    <3>4. QED
      BY <1>2, <3>1, <3>2, <3>3
  <2>3. QED
    BY <1>1, <1>3, <2>1, <2>2 DEF FatesAreExplained, WorklistIsPlaced, EndIsReached
<1>10. CASE GenerateChecks
  <2>1. /\ fate' = fate /\ currentWL' = currentWL /\ oi' = oi /\ guards' = guards
        /\ pc = "place" /\ oi > Len(config.opts)
        /\ \A t \in Target : Live(t) /\ IsCheck(t) => t \in emitted'
    BY <1>10 DEF GenerateChecks
  <2>2. QED
    BY <1>1, <1>3, <2>1
       DEF FatesAreExplained, WorklistIsPlaced, EndIsReached, Live, IsCheck
<1>11. CASE UNCHANGED vars
  BY <1>11 DEF vars, FatesAreExplained, WorklistIsPlaced, EndIsReached,
     IsInvariant, IsCheck, Live
<1>12. QED
  BY <1>4, <1>5, <1>6, <1>7, <1>8, <1>9, <1>10, <1>11
     DEF Next, Optimize, Generate

\* At the end what is still valid is emitted and the worklist is placed, so a
\* subsumed access check is covered by one of these.
LEMMA EmittedOrPlaced ==
  ASSUME TypeOK, GuardInv, EmissionInv
  PROVE  AccessesAreGuarded
<1>1. SUFFICES ASSUME pc = "done", DominanceLast, NEW t \in Target,
                      it[t].kind \in {"const", "var"},
                      fate[t] \notin {"annotated", "filtered"}
               PROVE  \/ t \in emitted \cup guards
                      \/ \E c \in emitted \cup guards : IsCheck(c) /\ Covers(c, t)
  BY DEF AccessesAreGuarded
<1>2. currentWL \subseteq guards
  <2>1. CASE currentWL = {}
    BY <2>1
  <2>2. CASE currentWL # {}
    <3>1. PICK k \in DOMAIN config.opts : config.opts[k] = "example"
      BY <2>2 DEF EmissionInv, WorklistIsPlaced
    <3>2. /\ oi \in Nat /\ k \in Nat /\ Len(config.opts) \in Nat
          /\ k <= Len(config.opts)
      BY ConfigAssumption DEF TypeOK, Config
    <3>3. k < oi
      BY <1>1, <3>2 DEF EmissionInv, EndIsReached
    <3>4. QED
      BY <1>1, <3>1, <3>3 DEF EmissionInv, WorklistIsPlaced
  <2>3. QED
    BY <2>1, <2>2
<1>3. ASSUME NEW c \in Target, it[c].kind \in {"const", "var"}, fate[c] \in GuardFate
      PROVE  c \in emitted \cup guards /\ IsCheck(c)
  <2>1. IsCheck(c) /\ ~IsInvariant(c)
    BY <1>3 DEF IsCheck, CheckKind, IsInvariant, InvariantKind
  <2>2. fate[c] # "unchanged" /\ (fate[c] = "early" => c \in currentWL)
    BY <2>1 DEF EmissionInv, FatesAreExplained
  <2>3. fate[c] = "live" => c \in emitted
    BY <1>1, <2>1 DEF EmissionInv, EndIsReached, Live
  <2>4. QED
    BY <1>2, <1>3, <2>1, <2>2, <2>3 DEF GuardFate
<1>4. CASE fate[t] # "subsumed"
  <2>1. fate[t] \in GuardFate
    BY <1>1, <1>4 DEF TypeOK, Fate, GuardFate
  <2>2. QED
    BY <1>1, <1>3, <2>1
<1>5. CASE fate[t] = "subsumed"
  <2>1. PICK c \in Target : fate[c] \in GuardFate /\ Covers(c, t)
    BY <1>1, <1>5 DEF GuardInv, CoveredBy
  <2>2. it[c].kind \in {"const", "var"}
    BY <1>1, <2>1 DEF Covers
  <2>3. QED
    BY <1>3, <2>1, <2>2
<1>6. QED
  BY <1>4, <1>5

\* AccessesAreGuarded: with the removing optimizations first, every access
\* that no option gave up has its check, its external check or a covering one.
THEOREM FilteringGuardsAccesses == Spec => []AccessesAreGuarded
<1>1. Init => GuardInv
  BY DEF Init, GuardInv, SubsumedBy, CoveredBy
<1>2. Init => EmissionInv
  BY DEF Init, EmissionInv, FatesAreExplained, WorklistIsPlaced, EndIsReached
<1>3. TypeOK /\ GuardInv /\ EmissionInv => AccessesAreGuarded
  BY EmittedOrPlaced
<1>4. QED
  BY <1>1, <1>2, <1>3, GuardInvStep, EmissionInvStep, TypeCorrect, PTL DEF Spec

-----------------------------------------------------------------------------
(***************************************************************************)
(* AttributeDropping. No function keeps a wrong attribute without external *)
(* checks, and no call without invokes.                                    *)
(***************************************************************************)

WillReturnKinds == {"check"} \cup IF invariantsAreChecks THEN {"invariant"} ELSE {}
NoMemKinds == {"check", "invariant"}

\* What is known of the attributes that are left after each of the two passes.
DroppingInv ==
  /\ DroppingTypeOK
  /\ phase \in {"nomem", "generate", "done"} =>
       /\ \A f \in Function : "willreturn" \in attrs[f] =>
                                f \in Intrinsic \cup Clean(WillReturnKinds)
       /\ \A f \in Defined : call[f].kind = "call" => "willreturn" \notin callAttrs[f]
  /\ phase \in {"generate", "done"} =>
       /\ \A f \in Function : "nomem" \in attrs[f] =>
                                f \in Intrinsic \cup Clean(NoMemKinds)
       /\ \A f \in Defined : call[f].kind = "call" => "nomem" \notin callAttrs[f]
  /\ phase = "done" =>
       inserted =
         [f \in Defined |->
            (IF targets[f] # {} THEN {"memory"} ELSE {})
              \cup (IF \/ targets[f] \cap {"check", "bounds"} # {}
                       \/ invariantsAreChecks /\ "invariant" \in targets[f]
                      THEN {"abort"} ELSE {})]

\* One pass of dropFunctionAttributes: the attribute stays on the functions
\* to skip alone, and on no CallInst, for none of those functions has a call.
LEMMA DropFacts ==
  ASSUME DroppingTypeOK, NEW kinds, NEW a \in Attribute, Drop(a, Clean(kinds))
  PROVE  /\ attrs' \in [Function -> SUBSET Attribute]
         /\ callAttrs' \in [Defined -> SUBSET Attribute]
         /\ \A f \in Function :
              /\ attrs'[f] \subseteq attrs[f]
              /\ a \in attrs'[f] => f \in Intrinsic \cup Clean(kinds)
         /\ \A f \in Defined :
              /\ callAttrs'[f] \subseteq callAttrs[f]
              /\ call[f].kind = "call" => a \notin callAttrs'[f]
<1>1. /\ attrs' = [f \in Function |-> IF f \in Intrinsic \cup Clean(kinds)
                                        THEN attrs[f]
                                        ELSE attrs[f] \ {a}]
      /\ callAttrs' =
           [f \in Defined |->
              IF /\ call[f].kind = "call"
                 /\ call[f].callee = Indirect \/ f \notin Clean(kinds)
                THEN callAttrs[f] \ {a}
                ELSE callAttrs[f]]
  BY DEF Drop
<1>2. attrs \in [Function -> SUBSET Attribute] /\ callAttrs \in [Defined -> SUBSET Attribute]
  BY DEF DroppingTypeOK
<1>3. ASSUME NEW f \in Defined, call[f].kind = "call"
      PROVE  f \notin Clean(kinds)
  BY <1>3 DEF Clean, HasCall
<1>4. QED
  BY <1>1, <1>2, <1>3

\* The invariant is inductive: one step for each of the three phases.
LEMMA DroppingStepInv == DroppingInv /\ [DroppingNext]_droppingVars => DroppingInv'
<1> SUFFICES ASSUME DroppingInv, [DroppingNext]_droppingVars PROVE DroppingInv'
  OBVIOUS
<1>1. ASSUME DropWillReturn PROVE DroppingInv'
  <2>1. /\ phase = "willreturn" /\ phase' = "nomem"
        /\ Drop("willreturn", Clean(WillReturnKinds))
        /\ UNCHANGED <<invariantsAreChecks, targets, call, inserted>>
    BY <1>1 DEF DropWillReturn, fixed, WillReturnKinds
  <2>2. Clean(WillReturnKinds)' = Clean(WillReturnKinds)
    BY <2>1 DEF Clean, WillReturnKinds, HasCall
  <2>3. /\ attrs' \in [Function -> SUBSET Attribute]
        /\ callAttrs' \in [Defined -> SUBSET Attribute]
        /\ \A f \in Function : "willreturn" \in attrs'[f] =>
                                 f \in Intrinsic \cup Clean(WillReturnKinds)
        /\ \A f \in Defined : call[f].kind = "call" => "willreturn" \notin callAttrs'[f]
    BY <2>1, DropFacts DEF DroppingInv, Attribute
  <2>4. DroppingTypeOK'
    BY <2>1, <2>3 DEF DroppingInv, DroppingTypeOK
  <2>5. QED
    BY <2>1, <2>2, <2>3, <2>4 DEF DroppingInv
<1>2. ASSUME DropNoMem PROVE DroppingInv'
  <2>1. /\ phase = "nomem" /\ phase' = "generate"
        /\ Drop("nomem", Clean(NoMemKinds))
        /\ UNCHANGED <<invariantsAreChecks, targets, call, inserted>>
    BY <1>2 DEF DropNoMem, fixed, NoMemKinds
  <2>2. /\ Clean(WillReturnKinds)' = Clean(WillReturnKinds)
        /\ Clean(NoMemKinds)' = Clean(NoMemKinds)
    BY <2>1 DEF Clean, WillReturnKinds, NoMemKinds, HasCall
  <2>3. /\ attrs' \in [Function -> SUBSET Attribute]
        /\ callAttrs' \in [Defined -> SUBSET Attribute]
        /\ \A f \in Function :
             /\ attrs'[f] \subseteq attrs[f]
             /\ "nomem" \in attrs'[f] => f \in Intrinsic \cup Clean(NoMemKinds)
        /\ \A f \in Defined :
             /\ callAttrs'[f] \subseteq callAttrs[f]
             /\ call[f].kind = "call" => "nomem" \notin callAttrs'[f]
    BY <2>1, DropFacts DEF DroppingInv, Attribute
  <2>4. DroppingTypeOK'
    BY <2>1, <2>3 DEF DroppingInv, DroppingTypeOK
  <2>5. QED
    BY <2>1, <2>2, <2>3, <2>4 DEF DroppingInv
<1>3. ASSUME InsertCode PROVE DroppingInv'
  <2>1. /\ phase = "generate" /\ phase' = "done"
        /\ inserted' =
             [f \in Defined |->
                (IF targets[f] # {} THEN {"memory"} ELSE {})
                  \cup (IF \/ targets[f] \cap {"check", "bounds"} # {}
                           \/ invariantsAreChecks /\ "invariant" \in targets[f]
                          THEN {"abort"} ELSE {})]
        /\ UNCHANGED <<invariantsAreChecks, targets, call, attrs, callAttrs>>
    BY <1>3 DEF InsertCode, fixed
  <2>2. /\ Clean(WillReturnKinds)' = Clean(WillReturnKinds)
        /\ Clean(NoMemKinds)' = Clean(NoMemKinds)
    BY <2>1 DEF Clean, WillReturnKinds, NoMemKinds, HasCall
  <2>3. inserted' \in [Defined -> SUBSET {"abort", "memory"}]
    BY <2>1
  <2>4. DroppingTypeOK'
    BY <2>1, <2>3 DEF DroppingInv, DroppingTypeOK
  <2>5. QED
    BY <2>1, <2>2, <2>4 DEF DroppingInv
<1>4. ASSUME UNCHANGED droppingVars PROVE DroppingInv'
  BY <1>4
     DEF DroppingInv, DroppingTypeOK, droppingVars, Clean, WillReturnKinds, NoMemKinds,
         HasCall, Call, NoCall
<1>5. QED
  BY <1>1, <1>2, <1>3, <1>4 DEF DroppingNext

\* The invariant holds initially.
LEMMA DroppingInitInv == DroppingInit => DroppingInv
  BY DEF DroppingInit, DroppingInv, DroppingTypeOK

\* The invariant holds throughout the pass.
LEMMA DroppingSpecInv == DroppingSpec => []DroppingInv
  BY DroppingInitInv, DroppingStepInv, PTL DEF DroppingSpec

\* A function without calls executes itself alone.
LEMMA CleanExecutesItself ==
  ASSUME NEW f \in Defined, ~HasCall(f)
  PROVE  Executed(f) \subseteq {f}
<1>1. Callees(f) = {} /\ f \in Function /\ f # Indirect
  BY FunctionAssumption DEF Callees
<1>2. {f} \in SUBSET Function /\ {f} \subseteq {f}
      /\ \A g \in {f} : Callees(g) \subseteq {f}
  BY <1>1
<1>3. QED
  BY <1>1, <1>2 DEF Executed

\* The passes keep the attributes well-formed, and code is only inserted
\* where there is a body.
THEOREM AttributesTypeCorrect == DroppingSpec => []DroppingTypeOK
  BY DroppingSpecInv, PTL DEF DroppingInv

\* FunctionAttributesStayTrue, if no target was replaced by an external check.
THEOREM FunctionAttributesSound ==
  ASSUME TargetKind \subseteq {"check", "invariant"}
  PROVE  DroppingSpec => []FunctionAttributesStayTrue
<1>1. ASSUME DroppingInv, phase = "done", NEW f \in Function \ Intrinsic
      PROVE  attrs[f] \cap Denied(f) = {}
  <2>1. targets \in [Defined -> SUBSET {"check", "invariant"}]
    BY <1>1 DEF DroppingInv, DroppingTypeOK
  <2>2. attrs[f] \subseteq Attribute
    BY <1>1 DEF DroppingInv, DroppingTypeOK
  <2>3. /\ "willreturn" \in attrs[f] => f \in Clean(WillReturnKinds)
        /\ "nomem" \in attrs[f] => f \in Clean(NoMemKinds)
    BY <1>1 DEF DroppingInv
  <2>4. ASSUME f \in Defined
        PROVE  inserted[f] =
                 (IF targets[f] # {} THEN {"memory"} ELSE {})
                   \cup (IF \/ targets[f] \cap {"check", "bounds"} # {}
                            \/ invariantsAreChecks /\ "invariant" \in targets[f]
                           THEN {"abort"} ELSE {})
    BY <1>1, <2>4 DEF DroppingInv
  <2>5. ASSUME f \in Clean(WillReturnKinds)
        PROVE  "willreturn" \notin Denied(f)
    <3>1. f \in Defined /\ ~HasCall(f) /\ targets[f] \cap WillReturnKinds = {}
      BY <2>5 DEF Clean
    <3>2. "abort" \notin inserted[f]
      BY <2>1, <2>4, <3>1 DEF WillReturnKinds
    <3>3. Executed(f) \subseteq {f}
      BY <3>1, CleanExecutesItself
    <3>4. "abort" \notin UNION {inserted[g] : g \in Executed(f) \cap Defined}
      BY <3>2, <3>3
    <3>5. QED
      BY <3>4 DEF Denied
  <2>6. ASSUME f \in Clean(NoMemKinds)
        PROVE  "nomem" \notin Denied(f)
    <3>1. f \in Defined /\ ~HasCall(f) /\ targets[f] \cap NoMemKinds = {}
      BY <2>6 DEF Clean
    <3>2. targets[f] = {}
      BY <2>1, <3>1 DEF NoMemKinds
    <3>3. "memory" \notin inserted[f]
      BY <2>4, <3>1, <3>2
    <3>4. Executed(f) \subseteq {f}
      BY <3>1, CleanExecutesItself
    <3>5. "memory" \notin UNION {inserted[g] : g \in Executed(f) \cap Defined}
      BY <3>3, <3>4
    <3>6. QED
      BY <3>5 DEF Denied
  <2>7. QED
    BY <2>2, <2>3, <2>5, <2>6 DEF Attribute
<1>2. DroppingInv => FunctionAttributesStayTrue
  BY <1>1 DEF FunctionAttributesStayTrue
<1>3. QED
  BY <1>2, DroppingSpecInv, PTL

\* CallAttributesStayTrue, if no function is called by an invoke.
THEOREM CallAttributesSound ==
  ASSUME CallKind \subseteq {"call"}
  PROVE  DroppingSpec => []CallAttributesStayTrue
<1>1. ASSUME DroppingInv, phase = "done", NEW f \in Defined, HasCall(f)
      PROVE  callAttrs[f] = {}
  <2>1. call[f] \in Call \cup {NoCall} /\ callAttrs[f] \subseteq Attribute
    BY <1>1 DEF DroppingInv, DroppingTypeOK
  <2>2. CASE call[f] = NoCall
    BY <1>1, <2>2 DEF NoCall, HasCall
  <2>3. CASE call[f] \in Call
    <3>1. call[f].kind \in CallKind
      BY <2>3 DEF Call
    <3>2. call[f].kind = "call"
      BY <3>1
    <3>3. QED
      BY <1>1, <2>1, <3>2 DEF DroppingInv, Attribute
  <2>4. QED
    BY <2>1, <2>2, <2>3
<1>2. DroppingInv => CallAttributesStayTrue
  BY <1>1 DEF CallAttributesStayTrue
<1>3. QED
  BY <1>2, DroppingSpecInv, PTL

\* CleanFunctionsKeepAttributes: neither pass takes an attribute from a function
\* that nothing is inserted into and that calls nothing.
THEOREM CleanFunctionsKeep == DroppingSpec => CleanFunctionsKeepAttributes
<1>1. ASSUME DroppingTypeOK, NEW a, NEW kinds, Drop(a, Clean(kinds)), NEW f \in Defined,
             targets[f] = {}, ~HasCall(f)
      PROVE  attrs'[f] = attrs[f]
  <2>1. f \in Clean(kinds) /\ f \in Function
    BY <1>1, FunctionAssumption DEF Clean
  <2>2. QED
    BY <1>1, <2>1 DEF Drop
<1>2. DroppingTypeOK /\ [DroppingNext]_droppingVars =>
        \A f \in Defined : targets[f] = {} /\ ~HasCall(f) => attrs'[f] = attrs[f]
  BY <1>1 DEF DroppingNext, DropWillReturn, DropNoMem, InsertCode, droppingVars
<1>3. DroppingTypeOK /\ [DroppingNext]_droppingVars =>
        [\A f \in Defined : targets[f] = {} /\ ~HasCall(f) => attrs'[f] = attrs[f]]_droppingVars
  BY <1>2
<1>4. QED
  BY <1>3, AttributesTypeCorrect, PTL DEF DroppingSpec, CleanFunctionsKeepAttributes
=============================================================================
