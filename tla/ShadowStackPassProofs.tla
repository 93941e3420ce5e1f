------------------------- MODULE ShadowStackPassProofs -------------------------
(***************************************************************************)
(* What SoftBound inserts for calls and returns, in every program: after   *)
(* each step of the pass the code of a function is laid out as Layout      *)
(* says, and the witnesses of its values fit (PassInv). Every load has its *)
(* own slot, every choice and store finds its registers filled, and what a *)
(* call or return needs is there when the pass is through. The loads of    *)
(* what a call returned stay right behind it, unless a select follows the  *)
(* call immediately.                                                       *)
(***************************************************************************)
EXTENDS ShadowStack, FiniteSetTheorems, TLAPS

-----------------------------------------------------------------------------
(* What the pass leaves behind. F is a function, c its code, m the witnesses *)
(* of its values, and the invariants of instructions before h are handled.   *)

WellFormed(p) == \A f \in Function : IsFunction(p, p[f])

IsSequence(s) == Len(s) \in Nat /\ s = [k \in 1 .. Len(s) |-> s[k]]

\* The values that witnesses are created for.
IsNode(F, o) ==
  \/ o = Global
  \/ \E j \in DOMAIN F.params : o = Arg(j) /\ F.params[j] = "p"
  \/ \E d \in DOMAIN F.body : o = Inst(d) /\ Produces(F.body[d])
  \/ \E d \in DOMAIN F.body : o = Undef(d) /\ F.body[d].op = "insert"

\* The values that code is inserted for.
IsSource(F, o) ==
  \/ o.kind = "arg"
  \/ o.kind = "inst" /\ F.body[o.at].op \in {"call", "select"}

\* A register that the witness of o may consist of.
ComesFrom(F, m, o, r) ==
  /\ r = Register(r.of, r.k)
  /\ r.of \in DOMAIN m /\ r.k \in DOMAIN m[r.of] /\ m[r.of][r.k] = r
  /\ r.of.kind \in {"global", "undef"} \/ IsSource(F, r.of)
  /\ r.of.kind = "inst" => o.kind = "inst" /\ r.of.at <= o.at

WitnessesFit(F, m) ==
  /\ m = [o \in DOMAIN m |-> m[o]]
  /\ \A o \in DOMAIN m :
       /\ IsNode(F, o)
       /\ \A n \in DOMAIN Uses(F, o) : Uses(F, o)[n] \in DOMAIN m
       /\ m[o] = Witness(F, m, o)
       /\ DOMAIN m[o] = PointersIn(TypeOf(F, o))
       /\ \A k \in DOMAIN m[o] : ComesFrom(F, m, o, m[o][k])

Fills == {"load", "choice"}

\* The register is filled before the k-th item in front of instruction i.
Ready(F, c, i, k, r) ==
  \/ r.of.kind \in {"global", "undef"}
  \/ Location(F, r.of) < i
  \/ Location(F, r.of) = i /\ \E q \in 1 .. k - 1 : c[i][q].op \in Fills /\ c[i][q].reg = r

IsLoad(F, m, i, x) ==
  \/ /\ i = 1
     /\ \E j \in DOMAIN F.params :
          /\ F.params[j] = "p" /\ Arg(j) \in DOMAIN m
          /\ x = Load(Register(Arg(j), 1), ArgumentSlot(F, j))
  \/ /\ i > 1 /\ F.body[i - 1].op = "call" /\ Inst(i - 1) \in DOMAIN m
     /\ \E n \in DOMAIN ComputeIndices(F.body[i - 1].ret) :
          x = Load(Register(Inst(i - 1), ComputeIndices(F.body[i - 1].ret)[n]), n - 1)

IsChoice(F, c, m, i, k, x) ==
  /\ F.body[i].op = "select" /\ Inst(i) \in DOMAIN m
  /\ x.reg = Register(Inst(i), x.reg.k) /\ x.reg.k \in DOMAIN m[Inst(i)]
  /\ x = Choice(x.reg, m[F.body[i].yes][x.reg.k], m[F.body[i].no][x.reg.k])
  /\ Ready(F, c, i, k, x.yes) /\ Ready(F, c, i, k, x.no)

ArgumentStore(m, call, j) == Store(m[call.args[j]][1], CallSlot(call, j))
ReturnStore(F, m, val, n) == Store(m[val][ComputeIndices(F.ret)[n]], n - 1)

IsStore(F, m, i, x) ==
  \/ /\ F.body[i].op = "call"
     /\ \E j \in PointerArguments(F.body[i]) :
          /\ F.body[i].args[j] \in DOMAIN m
          /\ x = ArgumentStore(m, F.body[i], j)
  \/ /\ F.body[i].op = "ret" /\ F.body[i].val \in DOMAIN m
     /\ \E n \in DOMAIN ComputeIndices(F.ret) : x = ReturnStore(F, m, F.body[i].val, n)

\* Instruction i is a call that gets a frame.
HasFrame(F, i) == F.body[i].op = "call" /\ FrameSize(F.body[i]) # 0

IsItem(F, c, m, h, i, k) ==
  LET x == c[i][k] IN
  \/ x.op = "load" /\ IsLoad(F, m, i, x)
  \/ x.op = "choice" /\ IsChoice(F, c, m, i, k, x)
  \/ x.op = "store" /\ i < h /\ IsStore(F, m, i, x) /\ Ready(F, c, i, k, x.reg)
  \/ x.op = "alloc" /\ i < h /\ HasFrame(F, i) /\ x = Allocate(FrameSize(F.body[i]))
  \/ x.op = "dealloc" /\ i \in 2 .. h /\ HasFrame(F, i - 1)

\* What comes before what in front of an instruction.
IsOrdered(s) ==
  \A k, l \in DOMAIN s :
    /\ s[k].op \in Fills \cup {"dealloc"} /\ s[l].op \in {"alloc", "store"} => k < l
    /\ s[k].op = "alloc" /\ s[l].op = "store" => k < l
    /\ s[k].op = s[l].op /\ s[k].op \in {"alloc", "dealloc"} => k = l

\* Every register is filled.
IsFilled(s, r) == \E q \in DOMAIN s : s[q].op \in Fills /\ s[q].reg = r

SourcesAreFilled(F, c, m) ==
  \A o \in DOMAIN m : IsSource(F, o) =>
    \A k \in DOMAIN m[o] : IsFilled(c[Location(F, o)], Register(o, k))

\* What has to be done for a call or a return is there.
IsHandled(F, c, m, i) ==
  /\ HasFrame(F, i) => /\ \E k \in DOMAIN c[i] : c[i][k].op = "alloc"
                       /\ \E k \in DOMAIN c[i + 1] : c[i + 1][k].op = "dealloc"
  /\ F.body[i].op = "call" =>
       \A j \in PointerArguments(F.body[i]) :
         /\ F.body[i].args[j] \in DOMAIN m
         /\ \E k \in DOMAIN c[i] : c[i][k] = ArgumentStore(m, F.body[i], j)
  /\ F.body[i].op = "ret" =>
       \A n \in DOMAIN ComputeIndices(F.ret) :
         /\ F.body[i].val \in DOMAIN m
         /\ \E k \in DOMAIN c[i] : c[i][k] = ReturnStore(F, m, F.body[i].val, n)

Layout(F, c, m, h) ==
  /\ c = [i \in DOMAIN F.body |-> c[i]]
  /\ \A i \in DOMAIN F.body : IsSequence(c[i]) /\ IsOrdered(c[i])
  /\ WitnessesFit(F, m)
  /\ \A i \in DOMAIN F.body : \A k \in DOMAIN c[i] : IsItem(F, c, m, h, i, k)
  /\ SourcesAreFilled(F, c, m)
  /\ \A i \in DOMAIN F.body : i < h => IsHandled(F, c, m, i)

\* The witnesses that the targets of instruction i need.
NeedsMet(F, m, i) ==
  \A n \in DOMAIN Needs(F, F.body[i]) : Needs(F, F.body[i])[n] \in DOMAIN m

HasBody(f) == prog[f].body # <<>>

HandledUpTo(f) ==
  IF f \notin left THEN Len(prog[f].body) + 1
  ELSE IF f = now /\ step = "invariants" THEN at ELSE 1

PassTypes ==
  /\ prog \in Programs
  /\ \A f \in Function : IsSupported(prog[f])
  /\ code = [f \in Function |-> code[f]] /\ made = [f \in Function |-> made[f]]
  /\ left \subseteq Function
  /\ \A f \in left : HasBody(f)
  /\ step \in {"witnesses", "invariants", "done"}
  /\ step = "done" <=> left = {}
  /\ step # "done" => now \in left

\* The witnesses that instruction i needs are there or will be.
NeedsComing(i) ==
  \A n \in DOMAIN Needs(Current, Current.body[i]) :
    \/ Needs(Current, Current.body[i])[n] \in DOMAIN made[now]
    \/ \E l \in DOMAIN calls : calls[l] = Needs(Current, Current.body[i])[n]

CallsInv ==
  /\ IsSequence(calls)
  /\ \A n \in DOMAIN calls : IsNode(Current, calls[n])
  /\ step = "witnesses" =>
       /\ at \in 0 .. Len(Current.body)
       /\ \A i \in 1 .. at : NeedsComing(i)
  /\ step = "invariants" =>
       /\ at \in 1 .. Len(Current.body) + 1
       /\ calls = <<>>
       /\ \A i \in DOMAIN Current.body : NeedsMet(Current, made[now], i)

PassInv ==
  /\ PassTypes
  /\ CallsInv
  /\ \A f \in Function : HasBody(f) => Layout(prog[f], code[f], made[f], HandledUpTo(f))
  /\ \A f \in Function \ left : HasBody(f) =>
       \A i \in DOMAIN prog[f].body : NeedsMet(prog[f], made[f], i)

-----------------------------------------------------------------------------
(* Counting                                                                 *)

\* A proper subset of a finite set has fewer members.
LEMMA FewerInSubset ==
  ASSUME NEW S, IsFiniteSet(S), NEW T, T \subseteq S, T # S
  PROVE  IsFiniteSet(T) /\ Cardinality(T) \in Nat /\ Cardinality(S) \in Nat
         /\ Cardinality(T) < Cardinality(S)
<1>1. IsFiniteSet(T) /\ Cardinality(T) <= Cardinality(S)
      /\ (Cardinality(S) = Cardinality(T) => S = T)
  BY FS_Subset
<1>2. Cardinality(T) \in Nat /\ Cardinality(S) \in Nat
  BY <1>1, FS_CardinalityType
<1> QED  BY <1>1, <1>2

\* A function on 1 .. n is a sequence of length n.
LEMMA FunctionIsSequence ==
  ASSUME NEW n \in Nat, NEW s, DOMAIN s = 1 .. n, s = [k \in 1 .. n |-> s[k]]
  PROVE  IsSequence(s) /\ Len(s) = n
<1> DEFINE T == {s[k] : k \in 1 .. n}
<1>1. s \in [1 .. n -> T]
  OBVIOUS
<1>2. s \in Seq(T) /\ Len(s) = n
  BY <1>1
<1> QED  BY <1>2 DEF IsSequence

\* Ascending lists the members of a set, each once.
LEMMA AscendingLists ==
  ASSUME NEW S, IsFiniteSet(S), S \subseteq Int
  PROVE  /\ IsSequence(Ascending(S))
         /\ Len(Ascending(S)) = Cardinality(S)
         /\ DOMAIN Ascending(S) = 1 .. Cardinality(S)
         /\ Cardinality(S) \in Nat
         /\ \A n \in DOMAIN Ascending(S) : Ascending(S)[n] \in S
         /\ \A k \in S : \E n \in DOMAIN Ascending(S) : Ascending(S)[n] = k
         /\ \A n, l \in DOMAIN Ascending(S) : Ascending(S)[n] = Ascending(S)[l] => n = l
         /\ \A n \in DOMAIN Ascending(S) :
              Cardinality({j \in S : j < Ascending(S)[n]}) = n - 1
<1> DEFINE below(k) == {j \in S : j < k}
           rank == [k \in S |-> Cardinality(below(k)) + 1]
           size == Cardinality(S)
<1>1. size \in Nat
  BY FS_CardinalityType
<1>2. ASSUME NEW k \in S  PROVE Cardinality(below(k)) \in Nat /\ Cardinality(below(k)) < size
  <2>1. below(k) \subseteq S /\ k \notin below(k)
    OBVIOUS
  <2> QED  BY <2>1, FewerInSubset
<1>3. rank \in [S -> 1 .. size]
  BY <1>1, <1>2
<1>4. ASSUME NEW k \in S, NEW j \in S, k < j  PROVE rank[k] < rank[j]
  <2>1. below(k) \subseteq below(j) /\ below(k) # below(j)
    <3>1. k \in below(j) /\ k \notin below(k)
      BY <1>4
    <3>2. ASSUME NEW i \in below(k)  PROVE i \in below(j)
      BY <1>4, <3>2
    <3> QED  BY <3>1, <3>2
  <2>2. IsFiniteSet(below(j))
    <3>1. below(j) \subseteq S
      OBVIOUS
    <3> QED  BY <3>1, FS_Subset
  <2>3. Cardinality(below(k)) < Cardinality(below(j))
    BY <2>1, <2>2, FewerInSubset
  <2> QED  BY <2>3, <1>2
<1>5. rank \in Injection(S, 1 .. size)
  <2>1. ASSUME NEW k \in S, NEW j \in S, rank[k] = rank[j]  PROVE k = j
    <3>1. k < j \/ j < k \/ k = j
      OBVIOUS
    <3>2. ~ (k < j) /\ ~ (j < k)
      BY <1>4, <2>1, <1>3, <1>1
    <3> QED  BY <3>1, <3>2
  <2> QED  BY <2>1, <1>3 DEF Injection, IsInjective
<1>6. rank \in Surjection(S, 1 .. size)
  <2>1. IsFiniteSet(1 .. size) /\ Cardinality(1 .. size) = size
    BY <1>1, FS_Interval
  <2> QED  BY <2>1, <1>5, FS_Injection
<1>7. ASSUME NEW n \in 1 .. size
      PROVE  Ascending(S)[n] \in S /\ rank[Ascending(S)[n]] = n
  <2>1. PICK k \in S : rank[k] = n
    BY <1>6 DEF Surjection
  <2>2. Cardinality(below(k)) = n - 1
    BY <2>1, <1>2
  <2>3. Ascending(S)[n] = CHOOSE i \in S : Cardinality({j \in S : j < i}) = n - 1
    BY DEF Ascending
  <2>4. Ascending(S)[n] \in S /\ Cardinality(below(Ascending(S)[n])) = n - 1
    BY <2>2, <2>3
  <2> QED  BY <2>4
<1>8. Ascending(S) = [n \in 1 .. size |-> Ascending(S)[n]] /\ Len(Ascending(S)) = size
      /\ DOMAIN Ascending(S) = 1 .. size
  <2>1. DOMAIN Ascending(S) = 1 .. size
    BY DEF Ascending
  <2>2. Ascending(S) = [n \in 1 .. size |-> Ascending(S)[n]]
    BY DEF Ascending
  <2>3. Len(Ascending(S)) = size
    BY <1>1, <2>1, <2>2, FunctionIsSequence
  <2> QED  BY <2>1, <2>2, <2>3
<1>9. ASSUME NEW k \in S  PROVE \E n \in 1 .. size : Ascending(S)[n] = k
  <2>1. Ascending(S)[rank[k]] \in S /\ rank[Ascending(S)[rank[k]]] = rank[k] /\ rank[k] \in 1 .. size
    BY <1>3, <1>7
  <2>2. Ascending(S)[rank[k]] = k
    BY <2>1, <1>5 DEF Injection, IsInjective
  <2> QED  BY <2>1, <2>2
<1>10. IsSequence(Ascending(S))
  BY <1>1, <1>8 DEF IsSequence
<1>11. ASSUME NEW n \in 1 .. size, NEW l \in 1 .. size, Ascending(S)[n] = Ascending(S)[l]
       PROVE  n = l
  BY <1>7, <1>11
<1>12. ASSUME NEW n \in 1 .. size
       PROVE  Cardinality({j \in S : j < Ascending(S)[n]}) = n - 1
  <2>1. PICK k \in S : k = Ascending(S)[n] /\ rank[k] = n
    BY <1>7
  <2>2. Cardinality(below(k)) \in Nat /\ Cardinality(below(k)) + 1 = n
    BY <2>1, <1>2
  <2>3. below(k) = {j \in S : j < Ascending(S)[n]}
    BY <2>1
  <2> HIDE DEF below
  <2> QED  BY <2>2, <2>3
<1> HIDE DEF rank
<1>13. DOMAIN Ascending(S) = 1 .. size
  BY <1>8
<1> HIDE DEF size
<1>14. \A n \in DOMAIN Ascending(S) : Cardinality({j \in S : j < Ascending(S)[n]}) = n - 1
  BY <1>12, <1>13
<1> QED  BY <1>1, <1>7, <1>8, <1>9, <1>10, <1>11, <1>13, <1>14 DEF size

\* A finite set of numbers has a least one.
LEMMA LeastExists ==
  ASSUME NEW S, IsFiniteSet(S), S \subseteq Int, S # {}
  PROVE  \E k \in S : \A j \in S : k <= j
<1>1. Cardinality(S) \in Nat /\ Cardinality(S) # 0
  BY FS_CardinalityType, FS_EmptySet
<1> DEFINE before == {j \in S : j < Ascending(S)[1]}
<1>2. 1 \in DOMAIN Ascending(S) /\ Ascending(S)[1] \in S /\ Cardinality(before) = 0
  <2>1. 1 \in DOMAIN Ascending(S)
    <3>1. DOMAIN Ascending(S) = 1 .. Cardinality(S)
      BY AscendingLists
    <3> QED  BY <3>1, <1>1
  <2>2. Ascending(S)[1] \in S
    BY <2>1, AscendingLists
  <2>3. \A n \in DOMAIN Ascending(S) :
          Cardinality({j \in S : j < Ascending(S)[n]}) = n - 1
    BY AscendingLists
  <2>4. Cardinality({j \in S : j < Ascending(S)[1]}) = 1 - 1
    BY <2>1, <2>3
  <2>5. Cardinality(before) = 0
    BY <2>4
  <2> QED  BY <2>1, <2>2, <2>5
<1>3. before = {}
  <2>1. before \subseteq S
    OBVIOUS
  <2>2. IsFiniteSet(before)
    BY <2>1, FS_Subset
  <2> QED  BY <2>2, <1>2, FS_EmptySet
<1>4. \A j \in S : ~ (j < Ascending(S)[1])
  BY <1>3
<1>5. Ascending(S)[1] \in Int /\ S \subseteq Int
  BY <1>2
<1>6. \A j \in S : Ascending(S)[1] <= j
  BY <1>4, <1>5
<1> QED  BY <1>2, <1>6

-----------------------------------------------------------------------------
(* Types and slots                                                          *)

\* The elements of a type are counted.
LEMMA TypesList ==
  ASSUME NEW ty, IsType(ty)
  PROVE  /\ DOMAIN ty.elems = 1 .. Len(ty.elems) /\ Len(ty.elems) \in Nat \ {0}
         /\ \A k \in DOMAIN ty.elems : ty.elems[k] \in ElementType
         /\ PointersIn(ty) \subseteq 1 .. Len(ty.elems) /\ PointersIn(ty) \subseteq Int
         /\ IsFiniteSet(PointersIn(ty))
         /\ NumberOfPointers(ty) \in Nat
         /\ Cardinality(PointersIn(ty)) \in Nat
         /\ Cardinality(PointersIn(ty)) <= NumberOfPointers(ty)
<1>1. ty.elems \in Seq(ElementType) /\ ty.elems # <<>>
  BY DEF IsType
<1>2. DOMAIN ty.elems = 1 .. Len(ty.elems) /\ Len(ty.elems) \in Nat
      /\ \A k \in DOMAIN ty.elems : ty.elems[k] \in ElementType
  BY <1>1
<1>3. Len(ty.elems) # 0
  BY <1>1
<1>4. IsFiniteSet(DOMAIN ty.elems)
  <2>1. IsFiniteSet(1 .. Len(ty.elems))
    <3> DEFINE n == Len(ty.elems)
    <3>1. n \in Int /\ 1 \in Int
      BY <1>2
    <3> HIDE DEF n
    <3>2. IsFiniteSet(1 .. n)
      BY <3>1, FS_Interval
    <3> QED  BY <3>2 DEF n
  <2> QED  BY <2>1, <1>2
<1> DEFINE counted == {k \in DOMAIN ty.elems : ty.array \/ ty.elems[k] = "p"}
<1>5. IsFiniteSet(counted) /\ Cardinality(counted) \in Nat
  <2>1. counted \subseteq DOMAIN ty.elems
    OBVIOUS
  <2> QED  BY <2>1, <1>4, FS_Subset, FS_CardinalityType
<1>6. PointersIn(ty) \subseteq counted /\ PointersIn(ty) \subseteq DOMAIN ty.elems
  BY DEF PointersIn
<1>7. IsFiniteSet(PointersIn(ty)) /\ Cardinality(PointersIn(ty)) <= Cardinality(counted)
      /\ Cardinality(PointersIn(ty)) \in Nat
  BY <1>5, <1>6, FS_Subset, FS_CardinalityType
<1>8. NumberOfPointers(ty) = Cardinality(counted)
  BY DEF NumberOfPointers
<1> QED  BY <1>2, <1>3, <1>5, <1>6, <1>7, <1>8

\* The pointers of a type in order.
LEMMA IndicesList ==
  ASSUME NEW ty, IsType(ty)
  PROVE  LET indices == ComputeIndices(ty) IN
         /\ IsSequence(indices)
         /\ DOMAIN indices = 1 .. Len(indices)
         /\ \A n \in DOMAIN indices : n - 1 \in Nat /\ n - 1 < NumberOfPointers(ty)
                                      /\ indices[n] \in PointersIn(ty)
         /\ \A k \in PointersIn(ty) : \E n \in DOMAIN indices : indices[n] = k
         /\ \A n, l \in DOMAIN indices : indices[n] = indices[l] => n = l
<1>1. IsFiniteSet(PointersIn(ty)) /\ PointersIn(ty) \subseteq Int
      /\ Cardinality(PointersIn(ty)) <= NumberOfPointers(ty)
      /\ NumberOfPointers(ty) \in Nat
  BY TypesList
<1> DEFINE A == Ascending(PointersIn(ty))
<1>2. /\ IsSequence(A)
      /\ Len(A) = Cardinality(PointersIn(ty))
      /\ DOMAIN A = 1 .. Cardinality(PointersIn(ty))
      /\ Cardinality(PointersIn(ty)) \in Nat
      /\ \A n \in DOMAIN A : A[n] \in PointersIn(ty)
      /\ \A k \in PointersIn(ty) : \E n \in DOMAIN A : A[n] = k
      /\ \A n, l \in DOMAIN A : A[n] = A[l] => n = l
  BY <1>1, AscendingLists
<1>3. ComputeIndices(ty) = A
  BY DEF ComputeIndices
<1> HIDE DEF A
<1>4. \A n \in DOMAIN A : n - 1 \in Nat /\ n - 1 < NumberOfPointers(ty)
  BY <1>1, <1>2
<1> QED  BY <1>2, <1>3, <1>4

\* A pointer and whatever is none.
LEMMA PointerIsType ==
  /\ IsType(Pointer) /\ IsType(Integer)
  /\ PointersIn(Pointer) = {1} /\ PointersIn(Integer) = {}
  /\ DOMAIN Pointer.elems = {1} /\ DOMAIN Integer.elems = {1}
  /\ NumberOfPointers(Pointer) = 1
  /\ Pointer # Integer
<1>1. Pointer = [array |-> FALSE, elems |-> <<"p">>]
      /\ Integer = [array |-> FALSE, elems |-> <<"i">>]
  BY DEF Pointer, Integer, Type
<1>2. <<"p">> \in Seq(ElementType) \ {<<>>} /\ <<"i">> \in Seq(ElementType) \ {<<>>}
  BY DEF ElementType
<1>3. IsType(Pointer) /\ IsType(Integer)
  BY <1>1, <1>2 DEF IsType
<1>4. DOMAIN <<"p">> = {1} /\ DOMAIN <<"i">> = {1} /\ <<"p">>[1] = "p" /\ <<"i">>[1] = "i"
  OBVIOUS
<1>5. PointersIn(Pointer) = {1} /\ PointersIn(Integer) = {}
  BY <1>1, <1>4 DEF PointersIn
<1>6. {k \in DOMAIN Pointer.elems : Pointer.array \/ Pointer.elems[k] = "p"} = {1}
  BY <1>1, <1>4
<1>7. NumberOfPointers(Pointer) = 1
  BY <1>6, FS_Singleton DEF NumberOfPointers
<1>8. Pointer # Integer
  BY <1>1, <1>4
<1> QED  BY <1>1, <1>3, <1>4, <1>5, <1>7, <1>8

\* What computeShadowStackLocation returns in the callee is what it returns at
\* the call; arguments have slots of their own, behind the returned pointers.
LEMMA ArgumentSlots ==
  ASSUME NEW call, NEW G, IsType(G.ret), G.params \in Seq(ElementType),
         call.ret = G.ret, DOMAIN call.args = DOMAIN G.params,
         \A j \in DOMAIN G.params : IsPointer(call.args[j]) <=> G.params[j] = "p"
  PROVE  /\ FrameSize(call) \in Nat
         /\ NumberOfPointers(call.ret) <= FrameSize(call)
         /\ IsFiniteSet(PointerArguments(call)) /\ PointerArguments(call) \subseteq Int
         /\ FrameSize(call) # 0 <=> PassesPointers(call)
         /\ \A j \in DOMAIN G.params : CallSlot(call, j) = ArgumentSlot(G, j)
         /\ \A j \in PointerArguments(call) :
              /\ CallSlot(call, j) \in Nat
              /\ CallSlot(call, j) < FrameSize(call)
         /\ \A i, j \in PointerArguments(call) : CallSlot(call, i) = CallSlot(call, j) => i = j
<1> DEFINE A == PointerArguments(call)
           before(j) == {i \in 1 .. j - 1 : IsPointer(call.args[i])}
           ret == NumberOfPointers(call.ret)
<1>1. DOMAIN call.args = 1 .. Len(G.params) /\ Len(G.params) \in Nat
  OBVIOUS
<1>2. IsFiniteSet(DOMAIN call.args)
  BY <1>1, FS_Interval
<1>3. A \subseteq DOMAIN call.args /\ IsFiniteSet(A) /\ Cardinality(A) \in Nat /\ A \subseteq Int
  <2>1. A \subseteq DOMAIN call.args
    BY DEF PointerArguments
  <2> QED  BY <2>1, <1>1, <1>2, FS_Subset, FS_CardinalityType
<1>4. ret \in Nat
  BY TypesList
<1>5. FrameSize(call) = ret + Cardinality(A)
  BY DEF FrameSize, PointerArguments
<1>6. FrameSize(call) # 0 <=> PassesPointers(call)
  <2>1. Cardinality(A) = 0 <=> A = {}
    BY <1>3, FS_EmptySet
  <2> HIDE DEF A, ret
  <2>2. PassesPointers(call) <=> (ret > 0 \/ A # {})
    BY DEF PassesPointers, A, ret
  <2> QED  BY <2>1, <2>2, <1>3, <1>4, <1>5
<1>7. ASSUME NEW j \in DOMAIN G.params
      PROVE  CallSlot(call, j) = ArgumentSlot(G, j)
  <2>1. {i \in 1 .. j - 1 : G.params[i] = "p"} = before(j)
    BY <1>1
  <2> QED  BY <2>1 DEF CallSlot, ArgumentSlot
<1>8. ASSUME NEW j \in A
      PROVE  /\ IsFiniteSet(before(j)) /\ Cardinality(before(j)) \in Nat
             /\ Cardinality(before(j)) < Cardinality(A)
             /\ CallSlot(call, j) = ret + Cardinality(before(j))
  <2>1. before(j) \subseteq A /\ j \notin before(j)
    BY <1>1, <1>3 DEF PointerArguments
  <2>2. before(j) # A
    BY <2>1
  <2> HIDE DEF before, A
  <2>3. IsFiniteSet(before(j)) /\ Cardinality(before(j)) \in Nat
        /\ Cardinality(before(j)) < Cardinality(A)
    BY <2>1, <2>2, <1>3, FewerInSubset
  <2> QED  BY <2>3 DEF CallSlot, before
<1>9. ASSUME NEW i \in A, NEW j \in A, i < j
      PROVE  CallSlot(call, i) < CallSlot(call, j)
  <2>1. i \in before(j) /\ i \notin before(i)
    BY <1>9, <1>1, <1>3 DEF PointerArguments
  <2>2. before(i) \subseteq before(j)
    BY <1>9, <1>1, <1>3
  <2>3. before(i) # before(j)
    BY <2>1
  <2> HIDE DEF before, A
  <2>4. Cardinality(before(i)) < Cardinality(before(j))
    BY <2>2, <2>3, <1>8, FewerInSubset
  <2> QED  BY <2>4, <1>8, <1>4
<1>10. ASSUME NEW i \in A, NEW j \in A, CallSlot(call, i) = CallSlot(call, j)
       PROVE  i = j
  <2> HIDE DEF A, before, ret
  <2>1. i \in Int /\ j \in Int /\ CallSlot(call, i) \in Int /\ CallSlot(call, j) \in Int
    BY <1>3, <1>4, <1>8
  <2>2. ~ (i < j) /\ ~ (j < i)
    BY <2>1, <1>9, <1>10
  <2> QED  BY <2>1, <2>2
<1> HIDE DEF before, A, ret
<1>11. \A j \in A : CallSlot(call, j) \in Nat /\ CallSlot(call, j) < FrameSize(call)
  BY <1>3, <1>4, <1>5, <1>8
<1>12. FrameSize(call) \in Nat /\ ret <= FrameSize(call)
  BY <1>3, <1>4, <1>5
<1> QED  BY <1>3, <1>6, <1>7, <1>10, <1>11, <1>12 DEF A, ret

-----------------------------------------------------------------------------
(* Well-formed programs                                                     *)

\* What the values are.
LEMMA Kinds ==
  /\ \A j : Arg(j).kind = "arg" /\ Arg(j).at = j
  /\ \A i : Inst(i).kind = "inst" /\ Inst(i).at = i
  /\ \A i : Undef(i).kind = "undef" /\ Undef(i).at = i
  /\ Global.kind = "global" /\ NoPointer.kind = "int"
BY DEF Arg, Inst, Undef, Global, NoPointer

\* What an instruction produces has a type.
LEMMA ResultTyped ==
  ASSUME NEW p, WellFormed(p), NEW F, IsFunction(p, F), NEW d \in DOMAIN F.body,
         F.body[d].op \in {"call", "select", "extract", "insert"}
  PROVE  IsType(ResultType(F.body[d]))
<1> DEFINE ins == F.body[d]
<1>1. IsInstruction(p, F, d)
  BY DEF IsFunction
<1>2. CASE ins.op = "call"
  <2>1. ins.fun \in Function /\ ins.ret = p[ins.fun].ret
    BY <1>1, <1>2 DEF IsInstruction
  <2>2. IsType(p[ins.fun].ret)
    BY <2>1 DEF WellFormed, IsFunction
  <2> QED  BY <1>2, <2>1, <2>2 DEF ResultType
<1>3. CASE ins.op = "select"
  <2>1. IsType(ins.ty)
    BY <1>1, <1>3 DEF IsInstruction
  <2> QED  BY <2>1, <1>3 DEF ResultType
<1>4. CASE ins.op = "insert"
  <2>1. IsType(ins.ty)
    BY <1>1, <1>4 DEF IsInstruction
  <2> QED  BY <2>1, <1>4 DEF ResultType
<1>5. CASE ins.op = "extract"
  BY <1>5, PointerIsType DEF ResultType
<1> QED  BY <1>2, <1>3, <1>4, <1>5

\* An argument or element of the type named by one letter.
LEMMA LetterTypes ==
  ASSUME NEW e \in ElementType
  PROVE  /\ IsType(Type(<<e>>)) /\ (e = "p" <=> Type(<<e>>) = Pointer)
         /\ (e = "i" <=> Type(<<e>>) = Integer)
<1>1. e = "p" \/ e = "i"
  BY DEF ElementType
<1>2. Type(<<"p">>) = Pointer /\ Type(<<"i">>) = Integer
  BY DEF Pointer, Integer
<1> QED  BY <1>1, <1>2, PointerIsType

\* A value that an instruction uses is NoPointer or has a witness to be made.
LEMMA ValueTyped ==
  ASSUME NEW p, WellFormed(p), NEW F, IsFunction(p, F), NEW i \in DOMAIN F.body,
         NEW o, IsValue(F, o, i)
  PROVE  /\ IsType(TypeOf(F, o))
         /\ IsPointer(o) <=> o # NoPointer
         /\ o = NoPointer => TypeOf(F, o) = Integer
         /\ o # NoPointer => IsNode(F, o) /\ TypeOf(F, o) # Integer
         /\ o.kind \in {"arg", "inst", "global", "int"}
         /\ o.kind = "inst" => o.at \in 1 .. i - 1 /\ o = Inst(o.at)
                               /\ Dominates(F, o.at, i) /\ Produces(F.body[o.at])
         /\ o.kind = "arg" => o.at \in DOMAIN F.params /\ o = Arg(o.at)
                              /\ F.params[o.at] = "p"
         /\ o.kind = "global" => o = Global
<1>1. CASE o = Global
  <2>1. TypeOf(F, o) = Pointer
    BY <1>1, Kinds DEF TypeOf
  <2> QED  BY <1>1, <2>1, Kinds, PointerIsType DEF IsNode, IsPointer
<1>2. CASE o = NoPointer
  <2>1. TypeOf(F, o) = Integer
    BY <1>2, Kinds DEF TypeOf
  <2> QED  BY <1>2, <2>1, Kinds, PointerIsType DEF IsPointer
<1>3. CASE \E j \in DOMAIN F.params : o = Arg(j) /\ F.params[j] = "p"
  <2>1. PICK j \in DOMAIN F.params : o = Arg(j) /\ F.params[j] = "p"
    BY <1>3
  <2>2. TypeOf(F, o) = Pointer
    BY <2>1, Kinds DEF TypeOf, Pointer
  <2> QED  BY <2>1, <2>2, Kinds, PointerIsType DEF IsNode, IsPointer
<1>4. CASE \E d \in 1 .. i - 1 : o = Inst(d) /\ Produces(F.body[d]) /\ Dominates(F, d, i)
  <2>1. PICK d \in 1 .. i - 1 : o = Inst(d) /\ Produces(F.body[d]) /\ Dominates(F, d, i)
    BY <1>4
  <2>2. d \in DOMAIN F.body
    BY <2>1 DEF IsFunction
  <2>3. TypeOf(F, o) = ResultType(F.body[d])
    BY <2>1, Kinds DEF TypeOf
  <2>4. F.body[d].op \in {"call", "select", "extract", "insert"} /\ TypeOf(F, o) # Integer
    BY <2>1, <2>3 DEF Produces
  <2>5. IsType(TypeOf(F, o))
    BY <2>2, <2>3, <2>4, ResultTyped
  <2>6. IsNode(F, o)
    BY <2>1, <2>2 DEF IsNode
  <2> QED  BY <2>1, <2>4, <2>5, <2>6, Kinds DEF IsPointer
<1> QED  BY <1>1, <1>2, <1>3, <1>4 DEF IsValue

\* A value that a witness is created for has a type, and is what it seems to be.
LEMMA NodeTyped ==
  ASSUME NEW p, WellFormed(p), NEW F, IsFunction(p, F), NEW o, IsNode(F, o)
  PROVE  /\ IsType(TypeOf(F, o))
         /\ o.kind \in {"arg", "inst", "global", "undef"}
         /\ o.kind = "inst" => o.at \in DOMAIN F.body /\ o = Inst(o.at)
                               /\ Produces(F.body[o.at])
                               /\ TypeOf(F, o) = ResultType(F.body[o.at])
         /\ o.kind = "arg" => o.at \in DOMAIN F.params /\ o = Arg(o.at)
                              /\ F.params[o.at] = "p" /\ TypeOf(F, o) = Pointer
         /\ o.kind = "global" => o = Global /\ TypeOf(F, o) = Pointer
         /\ o.kind = "undef" => o.at \in DOMAIN F.body /\ o = Undef(o.at)
                                /\ F.body[o.at].op = "insert"
                                /\ TypeOf(F, o) = F.body[o.at].ty
<1>1. CASE o = Global
  BY <1>1, Kinds, PointerIsType DEF TypeOf
<1>2. CASE \E j \in DOMAIN F.params : o = Arg(j) /\ F.params[j] = "p"
  BY <1>2, Kinds, PointerIsType DEF TypeOf, Pointer
<1>3. CASE \E d \in DOMAIN F.body : o = Inst(d) /\ Produces(F.body[d])
  <2>1. PICK d \in DOMAIN F.body : o = Inst(d) /\ Produces(F.body[d])
    BY <1>3
  <2>2. TypeOf(F, o) = ResultType(F.body[d])
    BY <2>1, Kinds DEF TypeOf
  <2>3. IsType(ResultType(F.body[d]))
    BY <2>1, ResultTyped DEF Produces
  <2> QED  BY <2>1, <2>2, <2>3, Kinds
<1>4. CASE \E d \in DOMAIN F.body : o = Undef(d) /\ F.body[d].op = "insert"
  <2>1. PICK d \in DOMAIN F.body : o = Undef(d) /\ F.body[d].op = "insert"
    BY <1>4
  <2>2. TypeOf(F, o) = F.body[d].ty
    BY <2>1, Kinds DEF TypeOf
  <2>3. IsType(F.body[d].ty)
    <3>1. IsInstruction(p, F, d)
      BY <2>1 DEF IsFunction
    <3> QED  BY <2>1, <3>1 DEF IsInstruction
  <2> QED  BY <2>1, <2>2, <2>3, Kinds
<1> QED  BY <1>1, <1>2, <1>3, <1>4 DEF IsNode

\* What well-formedness says of the instruction i.
LEMMA Instructions ==
  ASSUME NEW p, WellFormed(p), NEW F, IsFunction(p, F), NEW i \in DOMAIN F.body
  PROVE  LET ins == F.body[i] IN
    /\ i \in Nat /\ i >= 1 /\ i <= Len(F.body) /\ Len(F.body) \in Nat
    /\ DOMAIN F.body = 1 .. Len(F.body)
    /\ ins.op \in {"access", "br", "ret", "select", "extract", "insert", "call"}
    /\ ins.op # "ret" => i + 1 \in DOMAIN F.body
    /\ ins.op = "access" => IsValueOf(F, ins.val, i, Pointer)
    /\ ins.op = "br" => \E r \in i + 1 .. Len(F.body) - 1 : F.body[r].op = "ret"
    /\ ins.op = "ret" => IsValueOf(F, ins.val, i, F.ret)
    /\ ins.op = "select" => /\ IsType(ins.ty)
                            /\ IsValueOf(F, ins.yes, i, ins.ty)
                            /\ IsValueOf(F, ins.no, i, ins.ty)
    /\ ins.op = "extract" => /\ IsValue(F, ins.val, i)
                             /\ ins.k \in PointersIn(TypeOf(F, ins.val))
    /\ ins.op = "insert" =>
         /\ IsType(ins.ty)
         /\ ins.agg = Undef(i) \/ IsValueOf(F, ins.agg, i, ins.ty)
         /\ ins.k \in DOMAIN ins.ty.elems
         /\ IsValueOf(F, ins.val, i, Type(<<ins.ty.elems[ins.k]>>))
<1> DEFINE ins == F.body[i]
<1>1. IsInstruction(p, F, i) /\ F.body[Len(F.body)].op = "ret"
  BY DEF IsFunction
<1>2. DOMAIN F.body = 1 .. Len(F.body) /\ Len(F.body) \in Nat
  BY DEF IsFunction
<1>3. ins.op \in {"access", "br", "ret", "select", "extract", "insert", "call"}
  BY <1>1 DEF IsInstruction
<1>4. ins.op # "ret" => i + 1 \in DOMAIN F.body
  BY <1>1, <1>2
<1>5. ins.op = "access" => IsValueOf(F, ins.val, i, Pointer)
  BY <1>1 DEF IsInstruction
<1>6. ins.op = "br" => \E r \in i + 1 .. Len(F.body) - 1 : F.body[r].op = "ret"
  BY <1>1 DEF IsInstruction
<1>7. ins.op = "ret" => IsValueOf(F, ins.val, i, F.ret)
  BY <1>1 DEF IsInstruction
<1>8. ins.op = "select" => /\ IsType(ins.ty)
                           /\ IsValueOf(F, ins.yes, i, ins.ty)
                           /\ IsValueOf(F, ins.no, i, ins.ty)
  BY <1>1 DEF IsInstruction
<1>9. ins.op = "extract" => /\ IsValue(F, ins.val, i)
                            /\ ins.k \in PointersIn(TypeOf(F, ins.val))
  BY <1>1 DEF IsInstruction
<1>10. ins.op = "insert" =>
         /\ IsType(ins.ty)
         /\ ins.agg = Undef(i) \/ IsValueOf(F, ins.agg, i, ins.ty)
         /\ ins.k \in DOMAIN ins.ty.elems
         /\ IsValueOf(F, ins.val, i, Type(<<ins.ty.elems[ins.k]>>))
  BY <1>1 DEF IsInstruction
<1> QED  BY <1>2, <1>3, <1>4, <1>5, <1>6, <1>7, <1>8, <1>9, <1>10

\* What it says of a call: the callee agrees with it.
LEMMA CallInstruction ==
  ASSUME NEW p, WellFormed(p), NEW F, IsFunction(p, F), NEW i \in DOMAIN F.body,
         F.body[i].op = "call", NEW call, F.body[i] = call, NEW G, p[call.fun] = G
  PROVE  /\ call.fun \in Function /\ call.ret = G.ret
         /\ IsFunction(p, G) /\ IsType(call.ret) /\ G.params \in Seq(ElementType)
         /\ DOMAIN call.args = DOMAIN G.params
         /\ \A j \in DOMAIN call.args : IsValueOf(F, call.args[j], i, Type(<<G.params[j]>>))
<1>1. IsInstruction(p, F, i)
  BY DEF IsFunction
<1>2. /\ call.fun \in Function /\ call.ret = G.ret
      /\ DOMAIN call.args = DOMAIN G.params
      /\ \A j \in DOMAIN call.args : IsValueOf(F, call.args[j], i, Type(<<G.params[j]>>))
  BY <1>1 DEF IsInstruction
<1>3. IsFunction(p, G)
  BY <1>2 DEF WellFormed
<1>4. IsType(G.ret) /\ G.params \in Seq(ElementType)
  BY <1>3 DEF IsFunction
<1> QED  BY <1>2, <1>3, <1>4

\* A value of a type with pointers, and which pointers it has.
LEMMA PointerValues ==
  ASSUME NEW p, WellFormed(p), NEW F, IsFunction(p, F), NEW i \in DOMAIN F.body, NEW o
  PROVE  /\ IsValueOf(F, o, i, Pointer) => IsPointer(o)
         /\ \A e \in ElementType :
              IsValueOf(F, o, i, Type(<<e>>)) => (IsPointer(o) <=> e = "p")
         /\ \A ty : IsValueOf(F, o, i, ty) /\ ty # Integer => IsPointer(o)
<1>1. ASSUME NEW ty, IsValueOf(F, o, i, ty)
      PROVE  IsPointer(o) <=> ty # Integer
  <2>1. IsValue(F, o, i) /\ TypeOf(F, o) = ty
    BY <1>1 DEF IsValueOf
  <2>2. /\ IsPointer(o) <=> o # NoPointer
        /\ o = NoPointer => TypeOf(F, o) = Integer
        /\ o # NoPointer => TypeOf(F, o) # Integer
    BY <2>1, ValueTyped
  <2> QED  BY <2>1, <2>2
<1> QED  BY <1>1, LetterTypes, PointerIsType DEF ElementType

\* A witness is made from those of values that come before.
LEMMA UsesNodes ==
  ASSUME NEW p, WellFormed(p), NEW F, IsFunction(p, F), NEW o, IsNode(F, o),
         NEW n \in DOMAIN Uses(F, o)
  PROVE  /\ o.kind = "inst"
         /\ IsNode(F, Uses(F, o)[n])
         /\ Uses(F, o)[n] # o
         /\ Uses(F, o)[n].kind = "inst" => Uses(F, o)[n].at < o.at
<1> DEFINE d == o.at
           ins == F.body[d]
           u == Uses(F, o)[n]
<1>1. o.kind = "inst"
  BY DEF Uses
<1>2. d \in DOMAIN F.body /\ o = Inst(d) /\ Produces(ins) /\ d \in Int
  <2>1. d \in DOMAIN F.body /\ o = Inst(d) /\ Produces(ins)
    BY <1>1, NodeTyped
  <2>2. DOMAIN F.body = 1 .. Len(F.body)
    BY DEF IsFunction
  <2> QED  BY <2>1, <2>2
<1>3. ASSUME IsValue(F, u, d), u # NoPointer
      PROVE  IsNode(F, u) /\ u # o /\ (u.kind = "inst" => u.at < d)
  <2>1. IsNode(F, u) /\ (u.kind = "inst" => u.at \in 1 .. d - 1)
    BY <1>2, <1>3, ValueTyped
  <2>2. u.kind = "inst" => u.at < d
    BY <2>1, <1>2
  <2> QED  BY <2>1, <2>2, <1>1, <1>2
<1>4. CASE ins.op = "select"
  <2>1. IsValueOf(F, ins.yes, d, ins.ty) /\ IsValueOf(F, ins.no, d, ins.ty)
    BY <1>2, <1>4, Instructions
  <2>2. ins.ty # Integer
    BY <1>2, <1>4 DEF Produces, ResultType
  <2>3. Uses(F, o) = <<ins.yes, ins.no>>
    BY <1>1, <1>4 DEF Uses
  <2>4. u = ins.yes \/ u = ins.no
    BY <2>3
  <2>5. IsValue(F, u, d) /\ u # NoPointer
    <3>1. IsValueOf(F, u, d, ins.ty)
      BY <2>1, <2>4
    <3>2. IsPointer(u)
      BY <3>1, <2>2, <1>2, PointerValues
    <3> QED  BY <3>1, <3>2, Kinds DEF IsValueOf, IsPointer
  <2> QED  BY <2>5, <1>1, <1>3
<1>5. CASE ins.op = "extract"
  <2>1. IsValue(F, ins.val, d) /\ ins.k \in PointersIn(TypeOf(F, ins.val))
    BY <1>2, <1>5, Instructions
  <2>2. ins.val # NoPointer
    BY <2>1, <1>2, ValueTyped, PointerIsType
  <2>3. Uses(F, o) = <<ins.val>>
    BY <1>1, <1>5 DEF Uses
  <2>4. u = ins.val
    BY <2>3
  <2> QED  BY <2>1, <2>2, <2>4, <1>1, <1>3
<1>6. CASE ins.op = "insert"
  <2>1. /\ ins.agg = Undef(d) \/ IsValueOf(F, ins.agg, d, ins.ty)
        /\ IsValueOf(F, ins.val, d, Type(<<ins.ty.elems[ins.k]>>))
    BY <1>2, <1>6, Instructions
  <2>2. ins.ty # Integer
    BY <1>2, <1>6 DEF Produces, ResultType
  <2>3. Uses(F, o) = IF IsPointer(ins.val) THEN <<ins.agg, ins.val>> ELSE <<ins.agg>>
    BY <1>1, <1>6 DEF Uses
  <2>4. u = ins.agg \/ (u = ins.val /\ IsPointer(ins.val))
    BY <2>3
  <2>5. CASE u = ins.val /\ IsPointer(ins.val)
    <3>1. IsValue(F, u, d)
      BY <2>1, <2>5 DEF IsValueOf
    <3>2. u # NoPointer
      BY <2>5, Kinds DEF IsPointer
    <3> QED  BY <3>1, <3>2, <1>1, <1>3
  <2>6. CASE u = ins.agg /\ ins.agg = Undef(d)
    <3>1. IsNode(F, u)
      BY <2>6, <1>2, <1>6 DEF IsNode
    <3>2. u.kind = "undef"
      BY <2>6, Kinds
    <3> QED  BY <3>1, <3>2, <1>1
  <2>7. CASE u = ins.agg /\ IsValueOf(F, ins.agg, d, ins.ty)
    <3>1. IsPointer(u)
      BY <2>7, <2>2, <1>2, PointerValues
    <3>2. IsValue(F, u, d) /\ u # NoPointer
      BY <3>1, <2>7, Kinds DEF IsValueOf, IsPointer
    <3> QED  BY <3>2, <1>1, <1>3
  <2> QED  BY <2>1, <2>4, <2>5, <2>6, <2>7
<1>7. CASE ins.op = "call"
  <2>1. Uses(F, o) = <<>>
    BY <1>1, <1>7 DEF Uses
  <2> QED  BY <2>1
<1>8. ins.op \in {"call", "select", "extract", "insert"}
  BY <1>2 DEF Produces
<1> QED  BY <1>4, <1>5, <1>6, <1>7, <1>8

-----------------------------------------------------------------------------
(* Sequences                                                                *)

\* The places of a sequence.
LEMMA SequenceDomain ==
  ASSUME NEW s, IsSequence(s)
  PROVE  Len(s) \in Nat /\ DOMAIN s = 1 .. Len(s)
BY DEF IsSequence

\* Where the items of two sequences go.
LEMMA Concatenated ==
  ASSUME NEW s, NEW t, IsSequence(s), IsSequence(t)
  PROVE  /\ IsSequence(s \o t) /\ Len(s \o t) = Len(s) + Len(t)
         /\ DOMAIN (s \o t) = 1 .. Len(s) + Len(t)
         /\ \A k \in 1 .. Len(s) : (s \o t)[k] = s[k]
         /\ \A k \in 1 .. Len(t) : (s \o t)[Len(s) + k] = t[k]
         /\ \A k \in 1 .. Len(s) + Len(t) :
              k > Len(s) => k - Len(s) \in 1 .. Len(t) /\ (s \o t)[k] = t[k - Len(s)]
<1> DEFINE T == {s[k] : k \in 1 .. Len(s)} \cup {t[k] : k \in 1 .. Len(t)}
<1>1. s \in Seq(T) /\ t \in Seq(T)
  <2>1. s \in [1 .. Len(s) -> T] /\ t \in [1 .. Len(t) -> T]
    BY DEF IsSequence
  <2> QED  BY <2>1 DEF IsSequence
<1> HIDE DEF T
<1>2. s \o t \in Seq(T) /\ Len(s \o t) = Len(s) + Len(t)
  BY <1>1
<1>3. \A k \in 1 .. Len(s) + Len(t) :
         (s \o t)[k] = IF k <= Len(s) THEN s[k] ELSE t[k - Len(s)]
  BY <1>1
<1>4. Len(s) \in Nat /\ Len(t) \in Nat
  BY DEF IsSequence
<1>5. IsSequence(s \o t) /\ DOMAIN (s \o t) = 1 .. Len(s) + Len(t)
  <2>1. \A x \in Seq(T) : IsSequence(x) /\ DOMAIN x = 1 .. Len(x)
    BY DEF IsSequence
  <2> QED  BY <1>2, <2>1
<1> QED  BY <1>2, <1>3, <1>4, <1>5

\* Sequences of one item and of none.
LEMMA ShortSequences ==
  /\ \A x : IsSequence(<<x>>) /\ Len(<<x>>) = 1 /\ <<x>>[1] = x
  /\ IsSequence(<<>>) /\ Len(<<>>) = 0
BY DEF IsSequence

\* The frame is deallocated behind the loads that come first.
LEMMA Deallocated ==
  ASSUME NEW s, IsSequence(s)
  PROVE  LET t == DeallocatedBehindLoads(s) IN
         /\ IsSequence(t) /\ Len(t) = Len(s) + 1
         /\ \E last \in 0 .. Len(s) :
              /\ \A k \in 1 .. last : s[k].op = "load" /\ t[k] = s[k]
              /\ last < Len(s) => s[last + 1].op # "load"
              /\ t[last + 1] = Deallocate
              /\ \A k \in last + 1 .. Len(s) : t[k + 1] = s[k]
<1> DEFINE last == GetLastMDLocation(s)
           stops == {k \in 1 .. Len(s) + 1 : k = Len(s) + 1 \/ s[k].op # "load"}
<1>1. Len(s) \in Nat
  BY DEF IsSequence
<1>2. \E q \in 0 .. Len(s) : /\ \A r \in 1 .. q : s[r].op = "load"
                             /\ q < Len(s) => s[q + 1].op # "load"
  <2>1. IsFiniteSet(1 .. Len(s) + 1)
    BY <1>1, FS_Interval
  <2>2. stops \subseteq 1 .. Len(s) + 1
    OBVIOUS
  <2>3. IsFiniteSet(stops) /\ stops \subseteq Int /\ Len(s) + 1 \in stops
    BY <2>1, <2>2, <1>1, FS_Subset
  <2>4. PICK k \in stops : \A j \in stops : k <= j
    BY <2>3, LeastExists
  <2>5. k - 1 \in 0 .. Len(s) /\ k \in Int
    BY <1>1, <2>4
  <2>6. \A r \in 1 .. k - 1 : s[r].op = "load"
    BY <1>1, <2>4, <2>5
  <2>7. k - 1 < Len(s) => s[k - 1 + 1].op # "load"
    BY <1>1, <2>4, <2>5
  <2> QED  BY <2>5, <2>6, <2>7
<1>3. /\ last \in 0 .. Len(s)
      /\ \A r \in 1 .. last : s[r].op = "load"
      /\ last < Len(s) => s[last + 1].op # "load"
  BY <1>2 DEF GetLastMDLocation
<1> HIDE DEF last
<1> DEFINE u == SubSeq(s, 1, last)
           v == SubSeq(s, last + 1, Len(s))
           T == {s[k] : k \in 1 .. Len(s)}
<1>4. s \in Seq(T)
  <2>1. s \in [1 .. Len(s) -> T]
    BY DEF IsSequence
  <2> QED  BY <2>1, <1>1
<1> HIDE DEF T
<1>5. /\ u \in Seq(T) /\ Len(u) = last
      /\ \A k \in 1 .. last : u[k] = s[k]
  BY <1>1, <1>3, <1>4
<1>6. /\ v \in Seq(T) /\ Len(v) = Len(s) - last
      /\ \A k \in 1 .. Len(s) - last : v[k] = s[last + k]
  BY <1>1, <1>3, <1>4
<1>7. IsSequence(u) /\ IsSequence(v)
  <2>1. \A x \in Seq(T) : IsSequence(x)
    BY DEF IsSequence
  <2> QED  BY <2>1, <1>5, <1>6
<1> HIDE DEF u, v
<1> DEFINE w == u \o <<Deallocate>>
           t == w \o v
<1>8. /\ IsSequence(w) /\ Len(w) = last + 1
      /\ \A k \in 1 .. last : w[k] = s[k]
      /\ w[last + 1] = Deallocate
  <2>1. IsSequence(<<Deallocate>>) /\ Len(<<Deallocate>>) = 1
        /\ <<Deallocate>>[1] = Deallocate
    BY ShortSequences
  <2> QED  BY <2>1, <1>3, <1>5, <1>7, Concatenated
<1> HIDE DEF w
<1>9. /\ IsSequence(t) /\ Len(t) = Len(s) + 1
      /\ \A k \in 1 .. last + 1 : t[k] = w[k]
      /\ \A k \in 1 .. Len(v) : t[last + 1 + k] = v[k]
  <2>1. Len(w) = last + 1 /\ Len(w) + Len(v) = Len(s) + 1
    BY <1>1, <1>3, <1>6, <1>8
  <2>2. /\ IsSequence(t) /\ Len(t) = Len(w) + Len(v)
        /\ \A k \in 1 .. Len(w) : t[k] = w[k]
        /\ \A k \in 1 .. Len(v) : t[Len(w) + k] = v[k]
    BY <1>7, <1>8, Concatenated
  <2> HIDE DEF t
  <2> QED  BY <2>1, <2>2
<1>10. t = DeallocatedBehindLoads(s)
  BY DEF DeallocatedBehindLoads, w, u, v, last
<1> HIDE DEF t
<1>11. \A k \in 1 .. last : t[k] = s[k]
  BY <1>3, <1>8, <1>9
<1>12. t[last + 1] = Deallocate
  BY <1>3, <1>8, <1>9
<1>13. ASSUME NEW k \in last + 1 .. Len(s)  PROVE t[k + 1] = s[k]
  <2>1. k - last \in 1 .. Len(v) /\ last + 1 + (k - last) = k + 1 /\ last + (k - last) = k
    BY <1>1, <1>3, <1>6
  <2> QED  BY <2>1, <1>6, <1>9
<1> QED  BY <1>3, <1>9, <1>10, <1>11, <1>12, <1>13

-----------------------------------------------------------------------------
(* Inserting code keeps what was inserted before                            *)

\* The items of s are found in t in the same order: s[k] is t[e[k]].
Grows(s, t, e) ==
  /\ e \in [1 .. Len(s) -> 1 .. Len(t)]
  /\ \A k, l \in 1 .. Len(s) : k < l => e[k] < e[l]
  /\ \A k \in 1 .. Len(s) : t[e[k]] = s[k]

\* m2 has the witnesses of m.
Keeps(m, m2) == DOMAIN m \subseteq DOMAIN m2 /\ \A o \in DOMAIN m : m2[o] = m[o]

\* A register that is filled stays filled when items are inserted.
LEMMA ReadyGrows ==
  ASSUME NEW F, NEW c, NEW c2, NEW i, IsSequence(c[i]), IsSequence(c2[i]),
         NEW e, Grows(c[i], c2[i], e), NEW k \in 1 .. Len(c[i]) + 1, NEW r,
         Ready(F, c, i, k, r), NEW j \in 1 .. Len(c2[i]) + 1,
         \A q \in 1 .. k - 1 : e[q] < j
  PROVE  Ready(F, c2, i, j, r)
<1>1. CASE Location(F, r.of) = i /\ \E q \in 1 .. k - 1 : c[i][q].op \in Fills /\ c[i][q].reg = r
  <2>1. PICK q \in 1 .. k - 1 : c[i][q].op \in Fills /\ c[i][q].reg = r
    BY <1>1
  <2>2. Len(c[i]) \in Nat /\ Len(c2[i]) \in Nat
    BY SequenceDomain
  <2>3. q \in 1 .. Len(c[i])
    BY <2>2
  <2>4. e[q] \in 1 .. Len(c2[i]) /\ c2[i][e[q]] = c[i][q] /\ e[q] < j
    BY <2>3 DEF Grows
  <2>5. e[q] \in 1 .. j - 1
    BY <2>2, <2>4
  <2> QED  BY <1>1, <2>1, <2>4, <2>5 DEF Ready
<1> QED  BY <1>1 DEF Ready

\* An inserted item stays what it is when others are inserted.
LEMMA ItemGrows ==
  ASSUME NEW F, NEW c, NEW c2, NEW m, NEW m2, NEW h \in Int, NEW h2 \in Int, h <= h2,
         NEW i \in Int, IsSequence(c[i]), IsSequence(c2[i]),
         NEW e, Grows(c[i], c2[i], e), WitnessesFit(F, m), Keeps(m, m2),
         NEW k \in 1 .. Len(c[i]), IsItem(F, c, m, h, i, k)
  PROVE  IsItem(F, c2, m2, h2, i, e[k])
<1> DEFINE x == c[i][k]
<1>1. c2[i][e[k]] = x /\ e[k] \in 1 .. Len(c2[i])
  BY DEF Grows
<1>2. ASSUME NEW r, Ready(F, c, i, k, r)  PROVE Ready(F, c2, i, e[k], r)
  <2>1. Len(c[i]) \in Nat /\ Len(c2[i]) \in Nat
    BY SequenceDomain
  <2>2. \A q \in 1 .. k - 1 : e[q] < e[k]
    BY <2>1 DEF Grows
  <2>3. k \in 1 .. Len(c[i]) + 1 /\ e[k] \in 1 .. Len(c2[i]) + 1
    BY <1>1, <2>1
  <2> QED  BY <1>2, <2>2, <2>3, ReadyGrows
<1>3. CASE x.op = "load" /\ IsLoad(F, m, i, x)
  <2>1. IsLoad(F, m2, i, x)
    BY <1>3 DEF IsLoad, Keeps
  <2> QED  BY <1>1, <1>3, <2>1 DEF IsItem
<1>4. CASE x.op = "choice" /\ IsChoice(F, c, m, i, k, x)
  <2>1. F.body[i].op = "select" /\ Inst(i) \in DOMAIN m
    BY <1>4 DEF IsChoice
  <2>2. Uses(F, Inst(i)) = <<F.body[i].yes, F.body[i].no>>
    BY <2>1, Kinds DEF Uses
  <2>3. \A n \in DOMAIN Uses(F, Inst(i)) : Uses(F, Inst(i))[n] \in DOMAIN m
    BY <2>1 DEF WitnessesFit
  <2>4. F.body[i].yes \in DOMAIN m /\ F.body[i].no \in DOMAIN m
    BY <2>2, <2>3
  <2>5. IsChoice(F, c2, m2, i, e[k], x)
    BY <1>2, <1>4, <2>1, <2>4 DEF IsChoice, Keeps
  <2> QED  BY <1>1, <1>4, <2>5 DEF IsItem
<1>5. CASE x.op = "store" /\ i < h /\ IsStore(F, m, i, x) /\ Ready(F, c, i, k, x.reg)
  <2>1. IsStore(F, m2, i, x)
    BY <1>5 DEF IsStore, ArgumentStore, ReturnStore, Keeps
  <2>2. i < h2
    BY <1>5
  <2> QED  BY <1>1, <1>2, <1>5, <2>1, <2>2 DEF IsItem
<1>6. CASE x.op = "alloc" /\ i < h /\ HasFrame(F, i) /\ x = Allocate(FrameSize(F.body[i]))
  <2>1. i < h2
    BY <1>6
  <2> QED  BY <1>1, <1>6, <2>1 DEF IsItem
<1>7. CASE x.op = "dealloc" /\ i \in 2 .. h /\ HasFrame(F, i - 1)
  <2>1. i \in 2 .. h2
    BY <1>7
  <2> QED  BY <1>1, <1>7, <2>1 DEF IsItem
<1> QED  BY <1>3, <1>4, <1>5, <1>6, <1>7 DEF IsItem

\* Whatever was there is still there.
LEMMA FoundAgain ==
  ASSUME NEW s, NEW t, IsSequence(s), IsSequence(t), NEW e, Grows(s, t, e),
         NEW k \in DOMAIN s
  PROVE  \E j \in DOMAIN t : t[j] = s[k]
<1>1. DOMAIN s = 1 .. Len(s) /\ DOMAIN t = 1 .. Len(t)
  BY SequenceDomain
<1> QED  BY <1>1 DEF Grows

\* What was done for a call or return stays done.
LEMMA HandledGrows ==
  ASSUME NEW F, NEW c, NEW c2, NEW m, NEW m2, Keeps(m, m2), NEW i, IsHandled(F, c, m, i),
         \A k \in DOMAIN c[i] : \E j \in DOMAIN c2[i] : c2[i][j] = c[i][k],
         HasFrame(F, i) =>
           \A k \in DOMAIN c[i + 1] : \E j \in DOMAIN c2[i + 1] : c2[i + 1][j] = c[i + 1][k]
  PROVE  IsHandled(F, c2, m2, i)
<1>1. ASSUME HasFrame(F, i)
      PROVE  /\ \E k \in DOMAIN c2[i] : c2[i][k].op = "alloc"
             /\ \E k \in DOMAIN c2[i + 1] : c2[i + 1][k].op = "dealloc"
  BY <1>1 DEF IsHandled
<1>2. ASSUME F.body[i].op = "call", NEW j \in PointerArguments(F.body[i])
      PROVE  /\ F.body[i].args[j] \in DOMAIN m2
             /\ \E k \in DOMAIN c2[i] : c2[i][k] = ArgumentStore(m2, F.body[i], j)
  <2>1. F.body[i].args[j] \in DOMAIN m
    BY <1>2 DEF IsHandled
  <2>2. PICK k \in DOMAIN c[i] : c[i][k] = ArgumentStore(m, F.body[i], j)
    BY <1>2 DEF IsHandled
  <2>3. ArgumentStore(m2, F.body[i], j) = ArgumentStore(m, F.body[i], j)
    BY <2>1 DEF ArgumentStore, Keeps
  <2> QED  BY <2>1, <2>2, <2>3 DEF Keeps
<1>3. ASSUME F.body[i].op = "ret", NEW n \in DOMAIN ComputeIndices(F.ret)
      PROVE  /\ F.body[i].val \in DOMAIN m2
             /\ \E k \in DOMAIN c2[i] : c2[i][k] = ReturnStore(F, m2, F.body[i].val, n)
  <2>1. F.body[i].val \in DOMAIN m
    BY <1>3 DEF IsHandled
  <2>2. PICK k \in DOMAIN c[i] : c[i][k] = ReturnStore(F, m, F.body[i].val, n)
    BY <1>3 DEF IsHandled
  <2>3. ReturnStore(F, m2, F.body[i].val, n) = ReturnStore(F, m, F.body[i].val, n)
    BY <2>1 DEF ReturnStore, Keeps
  <2> QED  BY <2>1, <2>2, <2>3 DEF Keeps
<1> QED  BY <1>1, <1>2, <1>3 DEF IsHandled

\* An item of t is one of s, or is one that belongs there.
GrowsRightly(F, c, c2, m2, h2, i) ==
  \E e : /\ Grows(c[i], c2[i], e)
         /\ \A j \in 1 .. Len(c2[i]) :
              (\E k \in 1 .. Len(c[i]) : e[k] = j) \/ IsItem(F, c2, m2, h2, i, j)

\* The layout is kept if the insertions fit and the next instructions are handled.
LEMMA LayoutGrows ==
  ASSUME NEW p, WellFormed(p), NEW F, IsFunction(p, F), NEW c, NEW m, NEW h \in Int,
         Layout(F, c, m, h), NEW c2, NEW m2, NEW h2 \in Int, h <= h2,
         c2 = [i \in DOMAIN F.body |-> c2[i]],
         \A i \in DOMAIN F.body : IsSequence(c2[i]) /\ IsOrdered(c2[i]),
         WitnessesFit(F, m2), Keeps(m, m2),
         \A i \in DOMAIN F.body : GrowsRightly(F, c, c2, m2, h2, i),
         \A o \in DOMAIN m2 \ DOMAIN m : IsSource(F, o) =>
           \A k \in DOMAIN m2[o] : IsFilled(c2[Location(F, o)], Register(o, k)),
         \A o \in DOMAIN m : Location(F, o) \in DOMAIN F.body,
         \A i \in DOMAIN F.body : h <= i /\ i < h2 => IsHandled(F, c2, m2, i)
  PROVE  Layout(F, c2, m2, h2)
<1>1. \A i \in DOMAIN F.body : i \in Int /\ IsSequence(c[i]) /\ IsSequence(c2[i])
  <2>1. \A i \in DOMAIN F.body : i \in Int
    BY DEF IsFunction
  <2> QED  BY <2>1 DEF Layout
<1>2. ASSUME NEW i \in DOMAIN F.body, NEW k \in DOMAIN c[i]
      PROVE  \E j \in DOMAIN c2[i] : c2[i][j] = c[i][k]
  <2>1. PICK e : Grows(c[i], c2[i], e)
    BY DEF GrowsRightly
  <2> QED  BY <1>1, <2>1, FoundAgain
<1>3. ASSUME NEW i \in DOMAIN F.body, NEW j \in DOMAIN c2[i]
      PROVE  IsItem(F, c2, m2, h2, i, j)
  <2>1. PICK e : /\ Grows(c[i], c2[i], e)
                 /\ (\E k \in 1 .. Len(c[i]) : e[k] = j) \/ IsItem(F, c2, m2, h2, i, j)
    <3>1. j \in 1 .. Len(c2[i])
      BY <1>1, SequenceDomain
    <3> QED  BY <3>1 DEF GrowsRightly
  <2>2. ASSUME NEW k \in 1 .. Len(c[i]), e[k] = j
        PROVE  IsItem(F, c2, m2, h2, i, j)
    <3>1. IsItem(F, c, m, h, i, k)
      BY <1>1, SequenceDomain DEF Layout
    <3>2. WitnessesFit(F, m)
      BY DEF Layout
    <3>3. IsItem(F, c2, m2, h2, i, e[k])
      BY <1>1, <2>1, <3>1, <3>2, ItemGrows
    <3> QED  BY <2>2, <3>3
  <2> QED  BY <2>1, <2>2
<1>4. SourcesAreFilled(F, c2, m2)
  <2>1. ASSUME NEW o \in DOMAIN m2, IsSource(F, o), NEW k \in DOMAIN m2[o]
        PROVE  IsFilled(c2[Location(F, o)], Register(o, k))
    <3>1. CASE o \in DOMAIN m
      <4>1. m2[o] = m[o] /\ Location(F, o) \in DOMAIN F.body
        BY <3>1 DEF Keeps
      <4>2. IsFilled(c[Location(F, o)], Register(o, k))
        BY <2>1, <3>1, <4>1 DEF Layout, SourcesAreFilled
      <4> QED  BY <1>2, <4>1, <4>2 DEF IsFilled
    <3> QED  BY <2>1, <3>1
  <2> QED  BY <2>1 DEF SourcesAreFilled
<1>5. ASSUME NEW i \in DOMAIN F.body, i < h2
      PROVE  IsHandled(F, c2, m2, i)
  <2>1. CASE i < h
    <3>1. IsHandled(F, c, m, i)
      BY <2>1 DEF Layout
    <3>2. HasFrame(F, i) => i + 1 \in DOMAIN F.body
      BY Instructions DEF HasFrame
    <3> QED  BY <1>2, <3>1, <3>2, HandledGrows
  <2>2. CASE h <= i
    BY <1>5, <2>2
  <2> QED  BY <1>1, <2>1, <2>2
<1> QED  BY <1>3, <1>4, <1>5 DEF Layout

-----------------------------------------------------------------------------
(* Witnesses                                                                *)

\* Code is inserted in front of an instruction that there is.
LEMMA Locations ==
  ASSUME NEW p, WellFormed(p), NEW F, IsFunction(p, F), F.body # <<>>, NEW o, IsNode(F, o)
  PROVE  /\ Location(F, o) \in DOMAIN F.body /\ Location(F, o) \in Int
         /\ o.kind # "inst" => Location(F, o) = 1
         /\ o.kind = "inst" /\ F.body[o.at].op = "call" => Location(F, o) = o.at + 1
         /\ o.kind = "inst" /\ F.body[o.at].op = "select" => Location(F, o) = o.at
<1>1. DOMAIN F.body = 1 .. Len(F.body) /\ Len(F.body) \in Nat /\ 1 \in DOMAIN F.body
  BY DEF IsFunction
<1>2. o.kind = "inst" => o.at \in DOMAIN F.body
  BY NodeTyped
<1>3. o.kind = "inst" /\ F.body[o.at].op = "call" => o.at + 1 \in DOMAIN F.body
  BY <1>2, Instructions
<1> QED  BY <1>1, <1>2, <1>3 DEF Location

\* The bounds of a value are there behind everything that was inserted before
\* an instruction that may use the value.
LEMMA WitnessReady ==
  ASSUME NEW p, WellFormed(p), NEW F, IsFunction(p, F), NEW i \in DOMAIN F.body,
         NEW c, NEW m, WitnessesFit(F, m), SourcesAreFilled(F, c, m), IsSequence(c[i]),
         NEW o \in DOMAIN m, IsValue(F, o, i) \/ o.kind = "undef",
         NEW k \in DOMAIN m[o], NEW j \in Int, j > Len(c[i])
  PROVE  Ready(F, c, i, j, m[o][k])
<1> DEFINE r == m[o][k]
<1>1. ComesFrom(F, m, o, r)
  BY DEF WitnessesFit
<1>2. CASE r.of.kind \in {"global", "undef"}
  BY <1>2 DEF Ready
<1>3. CASE IsSource(F, r.of)
  <2>1. r.of \in DOMAIN m /\ r.k \in DOMAIN m[r.of] /\ r = Register(r.of, r.k)
    BY <1>1 DEF ComesFrom
  <2>2. IsNode(F, r.of)
    BY <2>1 DEF WitnessesFit
  <2>3. i \in Int /\ i >= 1 /\ F.body # <<>>
    <3>1. DOMAIN F.body = 1 .. Len(F.body)
      BY DEF IsFunction
    <3> QED  BY <3>1
  <2>4. Location(F, r.of) <= i /\ Location(F, r.of) \in Int
    <3>1. CASE r.of.kind = "arg"
      BY <3>1, <2>2, <2>3, Locations
    <3>2. CASE r.of.kind = "inst"
      <4>1. o.kind = "inst" /\ r.of.at <= o.at
        BY <3>2, <1>1 DEF ComesFrom
      <4>2. o.at \in 1 .. i - 1
        BY <4>1, ValueTyped
      <4>3. r.of.at \in Int
        <5>1. r.of.at \in DOMAIN F.body
          BY <3>2, <2>2, NodeTyped
        <5> QED  BY <5>1 DEF IsFunction
      <4>4. Location(F, r.of) = r.of.at + 1 \/ Location(F, r.of) = r.of.at
        BY <3>2, <1>3, <2>2, <2>3, Locations DEF IsSource
      <4> QED  BY <2>3, <4>1, <4>2, <4>3, <4>4
    <3> QED  BY <1>3, <3>1, <3>2 DEF IsSource
  <2>5. CASE Location(F, r.of) < i
    BY <2>5 DEF Ready
  <2>6. CASE Location(F, r.of) = i
    <3>1. IsFilled(c[i], r)
      BY <1>3, <2>1, <2>6 DEF SourcesAreFilled
    <3>2. PICK q \in DOMAIN c[i] : c[i][q].op \in Fills /\ c[i][q].reg = r
      BY <3>1 DEF IsFilled
    <3>3. q \in 1 .. j - 1
      BY SequenceDomain
    <3> QED  BY <2>6, <3>2, <3>3 DEF Ready
  <2> QED  BY <2>3, <2>4, <2>5, <2>6
<1> QED  BY <1>1, <1>2, <1>3 DEF ComesFrom

\* Further witnesses do not change those that there are.
LEMMA WitnessKept ==
  ASSUME NEW p, WellFormed(p), NEW F, IsFunction(p, F), NEW m, NEW m2, Keeps(m, m2),
         NEW o, IsNode(F, o), \A n \in DOMAIN Uses(F, o) : Uses(F, o)[n] \in DOMAIN m
  PROVE  Witness(F, m2, o) = Witness(F, m, o)
<1> DEFINE ins == F.body[o.at]
<1>1. CASE o.kind # "inst"
  BY <1>1 DEF Witness
<1>2. CASE o.kind = "inst"
  <2>1. ins.op \in {"call", "select", "extract", "insert"}
    BY <1>2, NodeTyped DEF Produces
  <2>2. CASE ins.op = "call"
    BY <1>2, <2>2 DEF Witness, InstructionWitness
  <2>3. CASE ins.op = "select"
    <3>1. Uses(F, o) = <<ins.yes, ins.no>>
      BY <1>2, <2>3 DEF Uses
    <3>2. ins.yes \in DOMAIN m
      BY <3>1
    <3> QED  BY <1>2, <2>3, <3>2 DEF Witness, InstructionWitness, Keeps
  <2>4. CASE ins.op = "extract"
    <3>1. Uses(F, o) = <<ins.val>>
      BY <1>2, <2>4 DEF Uses
    <3>2. ins.val \in DOMAIN m
      BY <3>1
    <3> QED  BY <1>2, <2>4, <3>2 DEF Witness, InstructionWitness, Keeps
  <2>5. CASE ins.op = "insert" /\ IsPointer(ins.val)
    <3>1. Uses(F, o) = <<ins.agg, ins.val>>
      BY <1>2, <2>5 DEF Uses
    <3>2. ins.agg \in DOMAIN m /\ ins.val \in DOMAIN m
      BY <3>1
    <3>3. m2[ins.agg] = m[ins.agg] /\ m2[ins.val] = m[ins.val]
      BY <3>2 DEF Keeps
    <3> QED  BY <1>2, <2>5, <3>3 DEF Witness, InstructionWitness
  <2>6. CASE ins.op = "insert" /\ ~IsPointer(ins.val)
    <3>1. Uses(F, o) = <<ins.agg>>
      BY <1>2, <2>6 DEF Uses
    <3>2. ins.agg \in DOMAIN m
      BY <3>1
    <3> QED  BY <1>2, <2>6, <3>2 DEF Witness, InstructionWitness, Keeps
  <2> QED  BY <2>1, <2>2, <2>3, <2>4, <2>5, <2>6
<1> QED  BY <1>1, <1>2

\* A new witness has a register for each pointer.
LEMMA WitnessComplete ==
  ASSUME NEW p, WellFormed(p), NEW F, IsFunction(p, F), NEW m, WitnessesFit(F, m),
         NEW o, IsNode(F, o), \A n \in DOMAIN Uses(F, o) : Uses(F, o)[n] \in DOMAIN m
  PROVE  DOMAIN Witness(F, m, o) = PointersIn(TypeOf(F, o))
<1> DEFINE d == o.at
           ins == F.body[d]
<1>1. CASE o.kind # "inst"
  BY <1>1 DEF Witness, Sources
<1>2. CASE o.kind = "inst"
  <2>1. d \in DOMAIN F.body /\ ins.op \in {"call", "select", "extract", "insert"}
        /\ TypeOf(F, o) = ResultType(ins) /\ Produces(ins)
    BY <1>2, NodeTyped DEF Produces
  <2>2. CASE ins.op = "call"
    BY <1>2, <2>1, <2>2 DEF Witness, InstructionWitness, Sources, ResultType
  <2>3. CASE ins.op = "select"
    <3>1. Uses(F, o) = <<ins.yes, ins.no>>
      BY <1>2, <2>3 DEF Uses
    <3>2. ins.yes \in DOMAIN m
      BY <3>1
    <3>3. TypeOf(F, ins.yes) = ins.ty /\ TypeOf(F, o) = ins.ty
      BY <2>1, <2>3, Instructions DEF IsValueOf, ResultType
    <3>4. DOMAIN m[ins.yes] = PointersIn(ins.ty)
      BY <3>2, <3>3 DEF WitnessesFit
    <3> QED  BY <1>2, <2>3, <3>3, <3>4 DEF Witness, InstructionWitness
  <2>4. CASE ins.op = "extract"
    <3>1. TypeOf(F, o) = Pointer
      BY <2>1, <2>4 DEF ResultType
    <3> QED  BY <1>2, <2>4, <3>1, PointerIsType DEF Witness, InstructionWitness
  <2>5. CASE ins.op = "insert"
    <3>1. TypeOf(F, o) = ins.ty
      BY <2>1, <2>5 DEF ResultType
    <3>2. Uses(F, o) = IF IsPointer(ins.val) THEN <<ins.agg, ins.val>> ELSE <<ins.agg>>
      BY <1>2, <2>5 DEF Uses
    <3>3. ins.agg \in DOMAIN m
      <4>1. 1 \in DOMAIN Uses(F, o) /\ Uses(F, o)[1] = ins.agg
        BY <3>2
      <4> QED  BY <4>1
    <3>4. TypeOf(F, ins.agg) = ins.ty
      <4>1. ins.agg = Undef(d) \/ IsValueOf(F, ins.agg, d, ins.ty)
        BY <2>1, <2>5, Instructions
      <4>2. TypeOf(F, Undef(d)) = ins.ty
        BY Kinds DEF TypeOf
      <4> QED  BY <4>1, <4>2 DEF IsValueOf
    <3>5. DOMAIN m[ins.agg] = PointersIn(ins.ty)
      BY <3>3, <3>4 DEF WitnessesFit
    <3>6. CASE IsPointer(ins.val)
      <4>1. ins.k \in DOMAIN ins.ty.elems /\ IsType(ins.ty)
            /\ IsValueOf(F, ins.val, d, Type(<<ins.ty.elems[ins.k]>>))
        BY <2>1, <2>5, Instructions
      <4>2. ins.ty.elems[ins.k] \in ElementType
        BY <4>1, TypesList
      <4>3. ins.ty.elems[ins.k] = "p"
        BY <2>1, <3>6, <4>1, <4>2, PointerValues
      <4>4. ins.k \in PointersIn(ins.ty)
        BY <4>1, <4>3 DEF PointersIn
      <4>5. DOMAIN m[ins.agg] \cup {ins.k} = PointersIn(ins.ty)
        BY <3>5, <4>4
      <4>6. Witness(F, m, o) = [k \in DOMAIN m[ins.agg] \cup {ins.k} |->
                   IF k = ins.k THEN m[ins.val][1] ELSE m[ins.agg][k]]
        BY <1>2, <2>5, <3>6 DEF Witness, InstructionWitness
      <4> QED  BY <3>1, <4>5, <4>6
    <3>7. CASE ~IsPointer(ins.val)
      BY <1>2, <2>5, <3>1, <3>5, <3>7 DEF Witness, InstructionWitness
    <3> QED  BY <3>6, <3>7
  <2> QED  BY <2>1, <2>2, <2>3, <2>4, <2>5
<1> QED  BY <1>1, <1>2

\* The registers of a new witness are its own or those of what it is made from.
LEMMA WitnessComesFrom ==
  ASSUME NEW p, WellFormed(p), NEW F, IsFunction(p, F), NEW m, WitnessesFit(F, m),
         NEW o, IsNode(F, o), \A n \in DOMAIN Uses(F, o) : Uses(F, o)[n] \in DOMAIN m,
         NEW m2, Keeps(m, m2), o \in DOMAIN m2, m2[o] = Witness(F, m, o),
         NEW k \in DOMAIN m2[o]
  PROVE  ComesFrom(F, m2, o, m2[o][k])
<1> DEFINE d == o.at
           ins == F.body[d]
           r == m2[o][k]
<1>1. CASE r = Register(o, k) /\ (o.kind \in {"global", "undef"} \/ IsSource(F, o))
  <2>1. r.of = o /\ r.k = k
    BY <1>1 DEF Register
  <2>2. o.kind = "inst" => o.at <= o.at
    <3>1. o.kind = "inst" => o.at \in DOMAIN F.body
      BY NodeTyped
    <3>2. DOMAIN F.body = 1 .. Len(F.body)
      BY DEF IsFunction
    <3> QED  BY <3>1, <3>2
  <2> QED  BY <1>1, <2>1, <2>2 DEF ComesFrom
\* r is a register of a value u that o is made from.
<1>2. ASSUME o.kind = "inst", NEW n \in DOMAIN Uses(F, o), NEW l \in DOMAIN m[Uses(F, o)[n]],
             r = m[Uses(F, o)[n]][l]
      PROVE  ComesFrom(F, m2, o, r)
  <2> DEFINE u == Uses(F, o)[n]
  <2>1. u \in DOMAIN m /\ ComesFrom(F, m, u, r)
    BY <1>2 DEF WitnessesFit
  <2>2. u.kind = "inst" => u.at < o.at
    BY UsesNodes
  <2>3. r.of \in DOMAIN m /\ m[r.of] = m2[r.of] /\ r.of \in DOMAIN m2
    BY <2>1 DEF ComesFrom, Keeps
  <2>4. r.of.kind = "inst" => r.of.at <= o.at
    <3>1. ASSUME r.of.kind = "inst"  PROVE r.of.at <= o.at
      <4>1. u.kind = "inst" /\ r.of.at <= u.at
        BY <2>1, <3>1 DEF ComesFrom
      <4>2. IsNode(F, r.of) /\ IsNode(F, u)
        BY <2>1, <2>3 DEF WitnessesFit
      <4>3. r.of.at \in DOMAIN F.body /\ u.at \in DOMAIN F.body /\ o.at \in DOMAIN F.body
        BY <4>1, <4>2, <3>1, <1>2, NodeTyped
      <4>4. r.of.at \in Int /\ u.at \in Int /\ o.at \in Int
        BY <4>3 DEF IsFunction
      <4> QED  BY <4>1, <4>4, <2>2
    <3> QED  BY <3>1
  <2> QED  BY <1>2, <2>1, <2>3, <2>4 DEF ComesFrom
<1>3. CASE o.kind # "inst"
  <2>1. o.kind \in {"arg", "global", "undef"}
    BY <1>3, NodeTyped
  <2>2. r = Register(o, k)
    BY <1>3 DEF Witness, Sources
  <2> QED  BY <1>1, <2>1, <2>2 DEF IsSource
<1>4. CASE o.kind = "inst"
  <2>1. d \in DOMAIN F.body /\ ins.op \in {"call", "select", "extract", "insert"}
    BY <1>4, NodeTyped DEF Produces
  <2>2. CASE ins.op = "call"
    <3>1. r = Register(o, k)
      BY <1>4, <2>2 DEF Witness, InstructionWitness, Sources
    <3> QED  BY <1>1, <1>4, <2>2, <3>1 DEF IsSource
  <2>3. CASE ins.op = "select"
    <3>1. r = Register(o, k)
      BY <1>4, <2>3 DEF Witness, InstructionWitness
    <3> QED  BY <1>1, <1>4, <2>3, <3>1 DEF IsSource
  <2>4. CASE ins.op = "extract"
    <3>1. Uses(F, o) = <<ins.val>>
      BY <1>4, <2>4 DEF Uses
    <3>2. 1 \in DOMAIN Uses(F, o) /\ Uses(F, o)[1] = ins.val
      BY <3>1
    <3>3. r = m[ins.val][ins.k]
      BY <1>4, <2>4 DEF Witness, InstructionWitness
    <3>4. ins.val \in DOMAIN m /\ ins.k \in PointersIn(TypeOf(F, ins.val))
      BY <3>2, <2>1, <2>4, Instructions
    <3>5. ins.k \in DOMAIN m[ins.val]
      BY <3>4 DEF WitnessesFit
    <3> QED  BY <1>2, <1>4, <3>2, <3>3, <3>5
  <2>5. CASE ins.op = "insert" /\ ~IsPointer(ins.val)
    <3>1. Uses(F, o) = <<ins.agg>>
      BY <1>4, <2>5 DEF Uses
    <3>2. 1 \in DOMAIN Uses(F, o) /\ Uses(F, o)[1] = ins.agg
      BY <3>1
    <3>3. m2[o] = m[ins.agg]
      BY <1>4, <2>5 DEF Witness, InstructionWitness
    <3> QED  BY <1>2, <1>4, <3>2, <3>3
  <2>6. CASE ins.op = "insert" /\ IsPointer(ins.val)
    <3>1. Uses(F, o) = <<ins.agg, ins.val>>
      BY <1>4, <2>6 DEF Uses
    <3>2. /\ 1 \in DOMAIN Uses(F, o) /\ Uses(F, o)[1] = ins.agg
          /\ 2 \in DOMAIN Uses(F, o) /\ Uses(F, o)[2] = ins.val
      BY <3>1
    <3>3. m2[o] = [x \in DOMAIN m[ins.agg] \cup {ins.k} |->
                     IF x = ins.k THEN m[ins.val][1] ELSE m[ins.agg][x]]
      BY <1>4, <2>6 DEF Witness, InstructionWitness
    <3>4. CASE k = ins.k
      <4>1. r = m[ins.val][1]
        BY <3>3, <3>4
      <4>2. ins.k \in DOMAIN ins.ty.elems /\ IsType(ins.ty)
            /\ IsValueOf(F, ins.val, d, Type(<<ins.ty.elems[ins.k]>>))
        BY <2>1, <2>6, Instructions
      <4>3. ins.ty.elems[ins.k] \in ElementType
        BY <4>2, TypesList
      <4>4. ins.ty.elems[ins.k] = "p"
        BY <2>1, <2>6, <4>2, <4>3, PointerValues
      <4>5. TypeOf(F, ins.val) = Pointer
        BY <4>2, <4>4, LetterTypes, <4>3 DEF IsValueOf
      <4>6. 1 \in DOMAIN m[ins.val]
        <5>1. ins.val \in DOMAIN m
          BY <3>2
        <5> QED  BY <5>1, <4>5, PointerIsType DEF WitnessesFit
      <4> QED  BY <1>2, <1>4, <3>2, <4>1, <4>6
    <3>5. CASE k # ins.k
      <4>1. k \in DOMAIN m[ins.agg] /\ r = m[ins.agg][k]
        BY <3>3, <3>5
      <4> QED  BY <1>2, <1>4, <3>2, <4>1
    <3> QED  BY <3>4, <3>5
  <2> QED  BY <2>1, <2>2, <2>3, <2>4, <2>5, <2>6
<1> QED  BY <1>3, <1>4

\* InsertWitnesses keeps the witnesses that there are and adds a fitting one.
LEMMA WitnessesGrow ==
  ASSUME NEW p, WellFormed(p), NEW F, IsFunction(p, F), NEW m, WitnessesFit(F, m),
         NEW o, IsNode(F, o), o \notin DOMAIN m,
         \A n \in DOMAIN Uses(F, o) : Uses(F, o)[n] \in DOMAIN m
  PROVE  LET m2 == Updated(m, o, Witness(F, m, o)) IN
         /\ WitnessesFit(F, m2) /\ Keeps(m, m2)
         /\ DOMAIN m2 = DOMAIN m \cup {o} /\ m2[o] = Witness(F, m, o)
<1> DEFINE m2 == Updated(m, o, Witness(F, m, o))
<1>1. DOMAIN m2 = DOMAIN m \cup {o} /\ m2[o] = Witness(F, m, o) /\ Keeps(m, m2)
      /\ m2 = [x \in DOMAIN m2 |-> m2[x]]
  BY DEF Updated, Keeps
<1> HIDE DEF m2
<1>2. ASSUME NEW x \in DOMAIN m2
      PROVE  /\ IsNode(F, x)
             /\ \A n \in DOMAIN Uses(F, x) : Uses(F, x)[n] \in DOMAIN m
             /\ m2[x] = Witness(F, m, x)
             /\ DOMAIN m2[x] = PointersIn(TypeOf(F, x))
             /\ \A k \in DOMAIN m2[x] : ComesFrom(F, m2, x, m2[x][k])
  <2>1. CASE x \in DOMAIN m
    <3>1. m2[x] = m[x]
      BY <1>1, <2>1 DEF Keeps
    <3>2. \A k \in DOMAIN m[x] : ComesFrom(F, m, x, m[x][k])
      BY <2>1 DEF WitnessesFit
    <3>3. \A k \in DOMAIN m[x] : ComesFrom(F, m2, x, m[x][k])
      BY <1>1, <3>2 DEF ComesFrom, Keeps
    <3>4. /\ IsNode(F, x)
          /\ \A n \in DOMAIN Uses(F, x) : Uses(F, x)[n] \in DOMAIN m
          /\ m[x] = Witness(F, m, x)
          /\ DOMAIN m[x] = PointersIn(TypeOf(F, x))
      BY <2>1 DEF WitnessesFit
    <3> QED  BY <3>1, <3>3, <3>4
  <2>2. CASE x = o
    <3>1. DOMAIN Witness(F, m, o) = PointersIn(TypeOf(F, o))
      BY WitnessComplete
    <3>2. \A k \in DOMAIN m2[o] : ComesFrom(F, m2, o, m2[o][k])
      BY <1>1, WitnessComesFrom
    <3> QED  BY <1>1, <2>2, <3>1, <3>2
  <2> QED  BY <1>1, <2>1, <2>2
<1>3. ASSUME NEW x \in DOMAIN m2
      PROVE  Witness(F, m2, x) = Witness(F, m, x)
  BY <1>1, <1>2, WitnessKept
<1>4. WitnessesFit(F, m2)
  BY <1>1, <1>2, <1>3 DEF WitnessesFit, Keeps
<1> QED  BY <1>1, <1>4 DEF m2

-----------------------------------------------------------------------------
(* Layout is kept                                                           *)

\* The choices of select o, with what it is made from.
IsNewChoice(F, m, m2, o, x) ==
  LET ins == F.body[o.at] IN
  /\ x.op = "choice" /\ o.kind = "inst" /\ ins.op = "select"
  /\ ins.yes \in DOMAIN m /\ ins.no \in DOMAIN m
  /\ \E k \in DOMAIN m2[o] :
       /\ k \in DOMAIN m[ins.yes] /\ k \in DOMAIN m[ins.no]
       /\ x = Choice(Register(o, k), m[ins.yes][k], m[ins.no][k])

\* What is inserted for a witness: loads or choices, one for each of its own registers.
LEMMA WitnessCodeFills ==
  ASSUME NEW p, WellFormed(p), NEW F, IsFunction(p, F), F.body # <<>>, NEW m,
         WitnessesFit(F, m), NEW o, IsNode(F, o),
         \A n \in DOMAIN Uses(F, o) : Uses(F, o)[n] \in DOMAIN m,
         NEW m2, Keeps(m, m2), o \in DOMAIN m2, m2[o] = Witness(F, m, o)
  PROVE  LET items == WitnessCode(F, m, o) IN
         /\ IsSequence(items)
         /\ \A n \in DOMAIN items :
              \/ items[n].op = "load" /\ IsLoad(F, m2, Location(F, o), items[n])
              \/ IsNewChoice(F, m, m2, o, items[n])
         /\ IsSource(F, o) =>
              \A k \in DOMAIN m2[o] : IsFilled(items, Register(o, k))
<1> DEFINE d == o.at
           ins == F.body[d]
           items == WitnessCode(F, m, o)
           L == Location(F, o)
<1>1. CASE o.kind = "arg"
  <2>1. d \in DOMAIN F.params /\ o = Arg(d) /\ F.params[d] = "p" /\ TypeOf(F, o) = Pointer
    BY <1>1, NodeTyped
  <2> DEFINE x == Load(Register(o, 1), ArgumentSlot(F, d))
  <2>2. items = <<x>>
    BY <1>1 DEF WitnessCode
  <2>3. L = 1
    BY <1>1, Locations
  <2>4. x.op = "load" /\ x.reg = Register(o, 1)
    BY DEF Load
  <2>5. IsLoad(F, m2, L, x)
    BY <2>1, <2>3 DEF IsLoad
  <2>6. DOMAIN m2[o] = {1}
    BY <1>1, <2>1, PointerIsType DEF Witness, Sources
  <2> HIDE DEF x, L
  <2>7. IsSequence(items) /\ DOMAIN items = {1} /\ items[1] = x
    <3>1. IsSequence(<<x>>) /\ Len(<<x>>) = 1 /\ <<x>>[1] = x
      BY ShortSequences
    <3>2. DOMAIN <<x>> = {1}
      OBVIOUS
    <3> QED  BY <2>2, <3>1, <3>2
  <2> HIDE DEF items
  <2> QED  BY <2>4, <2>5, <2>6, <2>7 DEF Fills, IsFilled, items, L
<1>2. CASE o.kind = "inst" /\ ins.op = "call"
  <2>1. d \in DOMAIN F.body /\ o = Inst(d) /\ TypeOf(F, o) = ins.ret /\ d \in Int /\ d >= 1
    <3>1. d \in DOMAIN F.body /\ o = Inst(d) /\ TypeOf(F, o) = ins.ret
      BY <1>2, NodeTyped DEF ResultType
    <3>2. DOMAIN F.body = 1 .. Len(F.body)
      BY DEF IsFunction
    <3> QED  BY <3>1, <3>2
  <2> DEFINE indices == ComputeIndices(ins.ret)
             load(n) == Load(Register(o, indices[n]), n - 1)
  <2>2. IsType(ins.ret)
    BY <2>1, <1>2, CallInstruction
  <2>3. /\ IsSequence(indices)
        /\ DOMAIN indices = 1 .. Len(indices)
        /\ \A k \in PointersIn(ins.ret) : \E n \in DOMAIN indices : indices[n] = k
    BY <2>2, IndicesList
  <2>4. items = [n \in DOMAIN indices |-> load(n)]
    BY <1>2 DEF WitnessCode, LoadsOfCall
  <2>5. L = d + 1
    BY <1>2, Locations
  <2>6. DOMAIN m2[o] = PointersIn(ins.ret)
    BY <1>2 DEF Witness, InstructionWitness, Sources
  <2>7. \A n \in DOMAIN indices : load(n).op = "load" /\ load(n).reg = Register(o, indices[n])
    BY DEF Load
  <2>8. \A n \in DOMAIN indices : IsLoad(F, m2, L, load(n))
    <3>1. L > 1 /\ F.body[L - 1] = ins /\ Inst(L - 1) = o
      BY <2>1, <2>5
    <3> QED  BY <3>1, <1>2 DEF IsLoad
  <2> HIDE DEF indices, load, L
  <2>9. IsSequence(items) /\ DOMAIN items = DOMAIN indices
    <3>1. Len(indices) \in Nat
      BY <2>3 DEF IsSequence
    <3>2. DOMAIN items = 1 .. Len(indices) /\ items = [n \in 1 .. Len(indices) |-> items[n]]
      BY <2>3, <2>4
    <3> QED  BY <2>3, <3>1, <3>2, FunctionIsSequence
  <2>10. \A n \in DOMAIN items : items[n] = load(n)
    BY <2>4, <2>9
  <2> HIDE DEF items
  <2>11. \A k \in DOMAIN m2[o] : IsFilled(items, Register(o, k))
    BY <2>3, <2>6, <2>7, <2>9, <2>10 DEF IsFilled, Fills
  <2>12. \A n \in DOMAIN items : items[n].op = "load" /\ IsLoad(F, m2, L, items[n])
    BY <2>7, <2>8, <2>9, <2>10
  <2> QED  BY <2>9, <2>11, <2>12 DEF items, L
<1>3. CASE o.kind = "inst" /\ ins.op = "select"
  <2>1. d \in DOMAIN F.body /\ o = Inst(d) /\ TypeOf(F, o) = ins.ty
    BY <1>3, NodeTyped DEF ResultType
  <2>2. ins.yes \in DOMAIN m /\ ins.no \in DOMAIN m
    <3>1. Uses(F, o) = <<ins.yes, ins.no>>
      BY <1>3 DEF Uses
    <3> QED  BY <3>1
  <2>3. IsType(ins.ty) /\ TypeOf(F, ins.yes) = ins.ty /\ TypeOf(F, ins.no) = ins.ty
    BY <2>1, <1>3, Instructions DEF IsValueOf
  <2>4. DOMAIN m[ins.yes] = PointersIn(ins.ty) /\ DOMAIN m[ins.no] = PointersIn(ins.ty)
    BY <2>2, <2>3 DEF WitnessesFit
  <2> DEFINE indices == Ascending(PointersIn(ins.ty))
             choice(n) == Choice(Register(o, indices[n]), m[ins.yes][indices[n]],
                                                          m[ins.no][indices[n]])
  <2>5. items = [n \in DOMAIN indices |-> choice(n)]
    BY <1>3, <2>4 DEF WitnessCode, GetWitnessSelect
  <2>6. DOMAIN m2[o] = PointersIn(ins.ty)
    BY <1>3, <2>4 DEF Witness, InstructionWitness
  <2>7. /\ IsSequence(indices)
        /\ DOMAIN indices = 1 .. Len(indices)
        /\ \A n \in DOMAIN indices : indices[n] \in PointersIn(ins.ty)
        /\ \A k \in PointersIn(ins.ty) : \E n \in DOMAIN indices : indices[n] = k
    BY <2>3, IndicesList DEF ComputeIndices
  <2>8. \A n \in DOMAIN indices :
          choice(n).op = "choice" /\ choice(n).reg = Register(o, indices[n])
    BY DEF Choice
  <2>9. \A n \in DOMAIN indices : IsNewChoice(F, m, m2, o, choice(n))
    BY <1>3, <2>2, <2>4, <2>6, <2>7, <2>8 DEF IsNewChoice
  <2> HIDE DEF indices, choice
  <2>10. IsSequence(items) /\ DOMAIN items = DOMAIN indices
    <3>1. Len(indices) \in Nat
      BY <2>7 DEF IsSequence
    <3>2. DOMAIN items = 1 .. Len(indices) /\ items = [n \in 1 .. Len(indices) |-> items[n]]
      BY <2>5, <2>7
    <3> QED  BY <2>7, <3>1, <3>2, FunctionIsSequence
  <2>11. \A n \in DOMAIN items : items[n] = choice(n)
    BY <2>5, <2>10
  <2> HIDE DEF items
  <2>12. \A k \in DOMAIN m2[o] : IsFilled(items, Register(o, k))
    BY <2>6, <2>7, <2>8, <2>10, <2>11 DEF IsFilled, Fills
  <2>13. \A n \in DOMAIN items : IsNewChoice(F, m, m2, o, items[n])
    BY <2>9, <2>10, <2>11
  <2> QED  BY <2>10, <2>12, <2>13 DEF items
<1>4. CASE o.kind # "arg" /\ ~ (o.kind = "inst" /\ ins.op \in {"call", "select"})
  <2>1. items = <<>>
    BY <1>4 DEF WitnessCode
  <2>2. ~ IsSource(F, o)
    BY <1>4 DEF IsSource
  <2>3. IsSequence(items) /\ DOMAIN items = {}
    BY <2>1, ShortSequences
  <2> HIDE DEF items
  <2> QED  BY <2>2, <2>3 DEF items
<1> QED  BY <1>1, <1>2, <1>3, <1>4

\* The same sequence, or one that goes on.
LEMMA SameGrows ==
  ASSUME NEW s, IsSequence(s)
  PROVE  Grows(s, s, [k \in 1 .. Len(s) |-> k])
BY SequenceDomain DEF Grows

\* Items that are appended leave the others in their order.
LEMMA AppendedGrows ==
  ASSUME NEW s, NEW t, IsSequence(s), IsSequence(t)
  PROVE  Grows(s, s \o t, [k \in 1 .. Len(s) |-> k])
<1>1. Len(s) \in Nat /\ Len(t) \in Nat
  BY SequenceDomain
<1>2. Len(s \o t) = Len(s) + Len(t) /\ \A k \in 1 .. Len(s) : (s \o t)[k] = s[k]
  BY Concatenated
<1> QED  BY <1>1, <1>2 DEF Grows

\* A register that is filled by the items is filled behind them.
LEMMA ReadyAppended ==
  ASSUME NEW F, NEW c, NEW c2, NEW i, NEW items, IsSequence(c[i]), IsSequence(items),
         c2[i] = c[i] \o items, NEW r, NEW j \in Int, Ready(F, c, i, Len(c[i]) + 1, r),
         j > Len(c[i])
  PROVE  Ready(F, c2, i, j, r)
<1>1. Len(c[i]) \in Nat /\ \A k \in 1 .. Len(c[i]) : c2[i][k] = c[i][k]
  BY SequenceDomain, Concatenated
<1>2. CASE Location(F, r.of) = i
           /\ \E q \in 1 .. Len(c[i]) + 1 - 1 : c[i][q].op \in Fills /\ c[i][q].reg = r
  <2>1. PICK q \in 1 .. Len(c[i]) + 1 - 1 : c[i][q].op \in Fills /\ c[i][q].reg = r
    BY <1>2
  <2>2. q \in 1 .. Len(c[i]) /\ q \in 1 .. j - 1
    BY <1>1
  <2>3. c2[i][q] = c[i][q]
    BY <1>1, <2>2
  <2> QED  BY <1>2, <2>1, <2>2, <2>3 DEF Ready
<1> QED  BY <1>2 DEF Ready

\* Loads and choices may come in any order.
LEMMA FillsAreOrdered ==
  ASSUME NEW s, \A k \in DOMAIN s : s[k].op \in Fills
  PROVE  IsOrdered(s)
BY DEF IsOrdered, Fills

\* A witness is created before any invariant is handled.
LEMMA InsertKeeps ==
  ASSUME NEW p, WellFormed(p), NEW F, IsFunction(p, F), F.body # <<>>, NEW c, NEW m,
         Layout(F, c, m, 1), NEW o, IsNode(F, o), o \notin DOMAIN m,
         \A n \in DOMAIN Uses(F, o) : Uses(F, o)[n] \in DOMAIN m
  PROVE  Layout(F, InsertBefore(c, Location(F, o), WitnessCode(F, m, o)),
                Updated(m, o, Witness(F, m, o)), 1)
<1> DEFINE L == Location(F, o)
           items == WitnessCode(F, m, o)
           c2 == InsertBefore(c, L, items)
           m2 == Updated(m, o, Witness(F, m, o))
<1>1. /\ WitnessesFit(F, m) /\ SourcesAreFilled(F, c, m)
      /\ c = [i \in DOMAIN F.body |-> c[i]]
      /\ \A i \in DOMAIN F.body : IsSequence(c[i])
      /\ \A i \in DOMAIN F.body : \A k \in DOMAIN c[i] : IsItem(F, c, m, 1, i, k)
  BY DEF Layout
<1>2. /\ WitnessesFit(F, m2) /\ Keeps(m, m2)
      /\ DOMAIN m2 = DOMAIN m \cup {o} /\ m2[o] = Witness(F, m, o)
  BY <1>1, WitnessesGrow
<1>3. L \in DOMAIN F.body /\ L \in Int
  BY Locations
<1> HIDE DEF m2
<1>4. /\ IsSequence(items)
      /\ \A n \in DOMAIN items : \/ items[n].op = "load" /\ IsLoad(F, m2, L, items[n])
                                 \/ IsNewChoice(F, m, m2, o, items[n])
      /\ IsSource(F, o) => \A k \in DOMAIN m2[o] : IsFilled(items, Register(o, k))
  BY <1>1, <1>2, WitnessCodeFills
<1>5. /\ c2 = [i \in DOMAIN F.body |-> c2[i]]
      /\ c2[L] = c[L] \o items
      /\ \A i \in DOMAIN F.body \ {L} : c2[i] = c[i]
  BY <1>1, <1>3 DEF InsertBefore
<1> HIDE DEF items, c2, L
<1> DEFINE old == Len(c[L])
<1>6. /\ IsSequence(c2[L]) /\ old \in Nat
      /\ DOMAIN c2[L] = 1 .. old + Len(items) /\ DOMAIN items = 1 .. Len(items)
      /\ DOMAIN c[L] = 1 .. old /\ Len(items) \in Nat
      /\ Len(c2[L]) = old + Len(items)
      /\ \A k \in 1 .. old : c2[L][k] = c[L][k]
      /\ \A k \in 1 .. Len(items) : c2[L][old + k] = items[k]
      /\ \A k \in 1 .. old + Len(items) :
           k > old => k - old \in 1 .. Len(items) /\ c2[L][k] = items[k - old]
  <2>1. IsSequence(c[L]) /\ IsSequence(items)
    BY <1>1, <1>3, <1>4
  <2> DEFINE s == c[L]
             t == s \o items
  <2>2. /\ IsSequence(t) /\ Len(t) = Len(s) + Len(items)
        /\ DOMAIN t = 1 .. Len(s) + Len(items)
        /\ \A k \in 1 .. Len(s) : t[k] = s[k]
        /\ \A k \in 1 .. Len(items) : t[Len(s) + k] = items[k]
        /\ \A k \in 1 .. Len(s) + Len(items) :
             k > Len(s) => k - Len(s) \in 1 .. Len(items) /\ t[k] = items[k - Len(s)]
    BY <2>1, Concatenated
  <2>3. /\ DOMAIN s = 1 .. Len(s) /\ Len(s) \in Nat
        /\ DOMAIN items = 1 .. Len(items) /\ Len(items) \in Nat
    BY <2>1, SequenceDomain
  <2>4. c2[L] = t
    BY <1>5
  <2> HIDE DEF t
  <2> QED  BY <2>2, <2>3, <2>4
<1>7. \A i \in DOMAIN F.body : IsSequence(c2[i])
  BY <1>1, <1>5, <1>6
<1>8. ASSUME NEW k \in old + 1 .. Len(c2[L])
      PROVE  IsItem(F, c2, m2, 1, L, k)
  <2> DEFINE x == c2[L][k]
  <2>1. k - old \in DOMAIN items /\ x = items[k - old] /\ k > old /\ k \in Int
    BY <1>6
  <2>2. CASE x.op = "load" /\ IsLoad(F, m2, L, x)
    BY <2>2 DEF IsItem
  <2>3. CASE IsNewChoice(F, m, m2, o, x)
    <3> DEFINE ins == F.body[o.at]
    <3>1. /\ x.op = "choice" /\ o.kind = "inst" /\ ins.op = "select"
          /\ ins.yes \in DOMAIN m /\ ins.no \in DOMAIN m
      BY <2>3 DEF IsNewChoice
    <3>2. PICK l \in DOMAIN m2[o] :
            /\ l \in DOMAIN m[ins.yes] /\ l \in DOMAIN m[ins.no]
            /\ x = Choice(Register(o, l), m[ins.yes][l], m[ins.no][l])
      BY <2>3 DEF IsNewChoice
    <3>3. L = o.at /\ o = Inst(L)
      <4>1. o = Inst(o.at)
        BY <3>1, NodeTyped
      <4>2. Location(F, o) = o.at
        BY <3>1, Locations
      <4> QED  BY <4>1, <4>2 DEF L
    <3>4. IsValue(F, ins.yes, L) /\ IsValue(F, ins.no, L)
      <4>1. F.body[L] = ins
        BY <3>3
      <4> HIDE DEF ins
      <4>2. IsValueOf(F, ins.yes, L, ins.ty) /\ IsValueOf(F, ins.no, L, ins.ty)
        BY <1>3, <3>1, <4>1, Instructions
      <4> QED  BY <4>2 DEF IsValueOf
    <3>5. Ready(F, c, L, old + 1, m[ins.yes][l]) /\ Ready(F, c, L, old + 1, m[ins.no][l])
      <4>1. old + 1 \in Int /\ old + 1 > old
        BY <1>6
      <4> QED  BY <4>1, <1>1, <1>3, <3>1, <3>2, <3>4, WitnessReady
    <3>6. \A r : Ready(F, c, L, old + 1, r) => Ready(F, c2, L, k, r)
      BY <1>1, <1>3, <1>4, <1>5, <2>1, ReadyAppended
    <3>7. m2[ins.yes] = m[ins.yes] /\ m2[ins.no] = m[ins.no]
      BY <3>1, <1>2 DEF Keeps
    <3>8. /\ x.reg = Register(o, l) /\ x.reg.k = l
          /\ x.yes = m[ins.yes][l] /\ x.no = m[ins.no][l]
      BY <3>2 DEF Choice, Register
    <3>9. IsChoice(F, c2, m2, L, k, x)
      BY <1>2, <3>1, <3>2, <3>3, <3>5, <3>6, <3>7, <3>8 DEF IsChoice
    <3> QED  BY <3>1, <3>9 DEF IsItem
  <2> QED  BY <1>4, <2>1, <2>2, <2>3
<1>9. ASSUME NEW i \in DOMAIN F.body
      PROVE  GrowsRightly(F, c, c2, m2, 1, i)
  <2>1. CASE i = L
    <3> DEFINE e == [k \in 1 .. old |-> k]
    <3>1. Grows(c[L], c2[L], e)
      BY <1>1, <1>3, <1>4, <1>5, AppendedGrows
    <3>2. ASSUME NEW j \in 1 .. Len(c2[L])
          PROVE  (\E k \in 1 .. old : e[k] = j) \/ IsItem(F, c2, m2, 1, L, j)
      <4>1. j \in 1 .. old \/ j \in old + 1 .. Len(c2[L])
        BY <1>6
      <4> QED  BY <4>1, <1>8
    <3> QED  BY <2>1, <3>1, <3>2 DEF GrowsRightly
  <2>2. CASE i # L
    <3> DEFINE e == [k \in 1 .. Len(c[i]) |-> k]
    <3>1. c2[i] = c[i]
      BY <1>5, <2>2
    <3>2. Grows(c[i], c2[i], e)
      BY <1>1, <3>1, SameGrows
    <3> QED  BY <3>1, <3>2 DEF GrowsRightly
  <2> QED  BY <2>1, <2>2
<1>10. ASSUME NEW i \in DOMAIN F.body
       PROVE  IsOrdered(c2[i])
  <2>1. \A k \in DOMAIN c[i] : c[i][k].op \in Fills
    <3>1. i \in Int /\ i >= 1
      BY DEF IsFunction
    <3>2. ASSUME NEW k \in DOMAIN c[i]  PROVE c[i][k].op \in Fills
      <4>1. IsItem(F, c, m, 1, i, k)
        BY <1>1
      <4>2. ~ (i < 1) /\ ~ (i \in 2 .. 1)
        BY <3>1
      <4> QED  BY <4>1, <4>2 DEF IsItem, Fills
    <3> QED  BY <3>2
  <2>2. \A k \in DOMAIN items : items[k].op \in Fills
    BY <1>4 DEF Fills, IsNewChoice
  <2>3. \A k \in DOMAIN c2[i] : c2[i][k].op \in Fills
    <3>1. CASE i = L
      <4>1. ASSUME NEW k \in DOMAIN c2[L]  PROVE c2[L][k].op \in Fills
        <5>1. k \in 1 .. old \/ (k > old /\ k \in 1 .. old + Len(items))
          BY <1>6
        <5> QED  BY <5>1, <1>6, <2>1, <2>2, <3>1
      <4> QED  BY <3>1, <4>1
    <3>2. CASE i # L
      BY <1>5, <2>1, <3>2
    <3> QED  BY <3>1, <3>2
  <2> QED  BY <2>3, FillsAreOrdered
<1>11. ASSUME NEW x \in DOMAIN m2 \ DOMAIN m, IsSource(F, x), NEW k \in DOMAIN m2[x]
       PROVE  IsFilled(c2[Location(F, x)], Register(x, k))
  <2>1. x = o /\ Location(F, x) = L
    BY <1>2, <1>11 DEF L
  <2>2. PICK q \in DOMAIN items : items[q].op \in Fills /\ items[q].reg = Register(x, k)
    BY <1>4, <1>11, <2>1 DEF IsFilled
  <2>3. old + q \in DOMAIN c2[L] /\ c2[L][old + q] = items[q]
    <3>1. q \in 1 .. Len(items)
      BY <1>6
    <3>2. old + q \in 1 .. old + Len(items)
      BY <1>6, <3>1
    <3> QED  BY <1>6, <3>1, <3>2
  <2> QED  BY <2>1, <2>2, <2>3 DEF IsFilled
<1>12. \A x \in DOMAIN m : Location(F, x) \in DOMAIN F.body
  BY <1>1, Locations DEF WitnessesFit
<1>13. \A i \in DOMAIN F.body : ~ (1 <= i /\ i < 1)
  BY DEF IsFunction
<1>14. Layout(F, c2, m2, 1)
  <2>1. WitnessesFit(F, m2) /\ Keeps(m, m2) /\ c2 = [i \in DOMAIN F.body |-> c2[i]]
    BY <1>2, <1>5
  <2>2. \A i \in DOMAIN F.body : IsSequence(c2[i]) /\ IsOrdered(c2[i])
    BY <1>7, <1>10
  <2>3. \A i \in DOMAIN F.body : 1 <= i /\ i < 1 => IsHandled(F, c2, m2, i)
    BY <1>13
  <2>4. \A x \in DOMAIN m2 \ DOMAIN m : IsSource(F, x) =>
           \A k \in DOMAIN m2[x] : IsFilled(c2[Location(F, x)], Register(x, k))
    BY <1>11
  <2> QED  BY <2>1, <2>2, <2>3, <2>4, <1>9, <1>12, LayoutGrows
<1> QED  BY <1>14 DEF c2, m2, items, L

\* Caller and callee agree on the slots of a call, and they are distinct.
LEMMA CallSlots ==
  ASSUME NEW p, WellFormed(p), NEW F, IsFunction(p, F), NEW i \in DOMAIN F.body,
         F.body[i].op = "call", NEW call, F.body[i] = call, NEW G, p[call.fun] = G
  PROVE  /\ FrameSize(call) \in Nat
         /\ NumberOfPointers(call.ret) <= FrameSize(call)
         /\ IsFiniteSet(PointerArguments(call)) /\ PointerArguments(call) \subseteq Int
         /\ FrameSize(call) # 0 <=> PassesPointers(call)
         /\ \A j \in DOMAIN G.params : CallSlot(call, j) = ArgumentSlot(G, j)
         /\ \A j \in DOMAIN G.params : IsPointer(call.args[j]) <=> G.params[j] = "p"
         /\ \A j \in PointerArguments(call) :
              /\ CallSlot(call, j) \in Nat
              /\ CallSlot(call, j) < FrameSize(call)
         /\ \A k, j \in PointerArguments(call) : CallSlot(call, k) = CallSlot(call, j) => k = j
<1>1. /\ call.ret = G.ret
      /\ DOMAIN call.args = DOMAIN G.params
      /\ \A j \in DOMAIN call.args : IsValueOf(F, call.args[j], i, Type(<<G.params[j]>>))
  <2>1. call.ret = G.ret
    BY CallInstruction
  <2>2. DOMAIN call.args = DOMAIN G.params
    BY CallInstruction
  <2>3. \A j \in DOMAIN call.args : IsValueOf(F, call.args[j], i, Type(<<G.params[j]>>))
    BY CallInstruction
  <2> QED  BY <2>1, <2>2, <2>3
<1>2. IsType(G.ret) /\ G.params \in Seq(ElementType)
  BY CallInstruction
<1>3. ASSUME NEW j \in DOMAIN G.params
      PROVE  IsPointer(call.args[j]) <=> G.params[j] = "p"
  <2>1. G.params[j] \in ElementType
    BY <1>2
  <2>2. IsValueOf(F, call.args[j], i, Type(<<G.params[j]>>))
    BY <1>1
  <2> QED  BY <2>1, <2>2, PointerValues
<1>4. call.ret = G.ret /\ DOMAIN call.args = DOMAIN G.params
  BY <1>1
<1>5. \A j \in DOMAIN G.params : IsPointer(call.args[j]) <=> G.params[j] = "p"
  BY <1>3
<1>6. /\ FrameSize(call) \in Nat
      /\ NumberOfPointers(call.ret) <= FrameSize(call)
      /\ IsFiniteSet(PointerArguments(call)) /\ PointerArguments(call) \subseteq Int
      /\ FrameSize(call) # 0 <=> PassesPointers(call)
      /\ \A j \in DOMAIN G.params : CallSlot(call, j) = ArgumentSlot(G, j)
      /\ \A j \in PointerArguments(call) :
           /\ CallSlot(call, j) \in Nat
           /\ CallSlot(call, j) < FrameSize(call)
      /\ \A k, j \in PointerArguments(call) : CallSlot(call, k) = CallSlot(call, j) => k = j
  BY ONLY <1>2, <1>4, <1>5, ArgumentSlots
<1> QED  BY <1>5, <1>6

\* A pointer argument of a call has the type of a pointer.
LEMMA PointerArgument ==
  ASSUME NEW p, WellFormed(p), NEW F, IsFunction(p, F), NEW i \in DOMAIN F.body,
         F.body[i].op = "call", NEW call, F.body[i] = call, NEW j \in PointerArguments(call)
  PROVE  /\ IsPointer(call.args[j]) /\ IsValue(F, call.args[j], i)
         /\ TypeOf(F, call.args[j]) = Pointer
<1> DEFINE G == p[call.fun]
           o == call.args[j]
<1>names. p[call.fun] = G /\ call.args[j] = o
  OBVIOUS
<1> HIDE DEF G, o
<1>1. j \in DOMAIN call.args /\ IsPointer(o)
  BY <1>names DEF PointerArguments
<1>2. DOMAIN call.args = DOMAIN G.params
  BY <1>names, CallInstruction
<1>3. \A l \in DOMAIN call.args : IsValueOf(F, call.args[l], i, Type(<<G.params[l]>>))
  BY <1>names, CallInstruction
<1>4. IsValueOf(F, o, i, Type(<<G.params[j]>>))
  BY <1>names, <1>1, <1>3
<1>5. G.params[j] = "p"
  <2>1. \A l \in DOMAIN G.params : IsPointer(call.args[l]) <=> G.params[l] = "p"
    BY <1>names, CallSlots
  <2> QED  BY <1>names, <1>1, <1>2, <2>1
<1>6. IsValue(F, o, i) /\ TypeOf(F, o) = Pointer
  BY <1>4, <1>5 DEF IsValueOf, Pointer
<1> QED  BY <1>names, <1>1, <1>6

\* The witnesses that a call needs.
LEMMA CallNeeds ==
  ASSUME NEW p, WellFormed(p), NEW F, IsFunction(p, F), NEW i \in DOMAIN F.body,
         F.body[i].op = "call", NEW m, NeedsMet(F, m, i), WitnessesFit(F, m),
         NEW j \in PointerArguments(F.body[i])
  PROVE  LET o == F.body[i].args[j] IN
         /\ o \in DOMAIN m /\ IsValue(F, o, i) /\ 1 \in DOMAIN m[o]
         /\ TypeOf(F, o) = Pointer
<1> DEFINE call == F.body[i]
           A == PointerArguments(call)
           o == call.args[j]
<1>names. F.body[i] = call /\ PointerArguments(call) = A /\ call.args[j] = o
  OBVIOUS
<1> HIDE DEF call, A, o
<1>1. IsFiniteSet(A) /\ A \subseteq Int
  BY <1>names, CallSlots
<1>2. \E n \in DOMAIN Ascending(A) : Ascending(A)[n] = j
  <2>1. \A k \in A : \E n \in DOMAIN Ascending(A) : Ascending(A)[n] = k
    BY ONLY <1>1, AscendingLists
  <2> QED  BY <1>names, <2>1
<1>3. Needs(F, call) = [n \in DOMAIN Ascending(A) |-> call.args[Ascending(A)[n]]]
  BY <1>names DEF Needs, NeedsOfCall
<1>4. o \in DOMAIN m
  BY <1>names, <1>2, <1>3 DEF NeedsMet
<1>5. IsValue(F, o, i) /\ TypeOf(F, o) = Pointer
  BY <1>names, PointerArgument
<1>6. 1 \in DOMAIN m[o]
  BY <1>4, <1>5, PointerIsType DEF WitnessesFit
<1> QED  BY <1>names, <1>4, <1>5, <1>6

\* The witness that a return needs.
LEMMA ReturnNeeds ==
  ASSUME NEW p, WellFormed(p), NEW F, IsFunction(p, F), NEW i \in DOMAIN F.body,
         F.body[i].op = "ret", NEW m, NeedsMet(F, m, i), WitnessesFit(F, m),
         NEW n \in DOMAIN ComputeIndices(F.ret)
  PROVE  LET o == F.body[i].val IN
         /\ o \in DOMAIN m /\ IsValueOf(F, o, i, F.ret) /\ IsType(F.ret)
         /\ ComputeIndices(F.ret)[n] \in PointersIn(F.ret)
         /\ ComputeIndices(F.ret)[n] \in DOMAIN m[o]
<1> DEFINE o == F.body[i].val
           k == ComputeIndices(F.ret)[n]
<1>1. IsType(F.ret) /\ IsValueOf(F, o, i, F.ret)
  <2>1. IsType(F.ret)
    BY DEF IsFunction
  <2> QED  BY <2>1, Instructions
<1>2. k \in PointersIn(F.ret)
  BY <1>1, IndicesList
<1>3. Needs(F, F.body[i]) = <<o>>
  BY <1>2 DEF Needs, NeedsOfReturn, ContainsPointer
<1>4. o \in DOMAIN m
  <2>1. 1 \in DOMAIN Needs(F, F.body[i]) /\ Needs(F, F.body[i])[1] = o
    BY <1>3
  <2> QED  BY <2>1 DEF NeedsMet
<1>5. k \in DOMAIN m[o]
  BY <1>1, <1>2, <1>4 DEF WitnessesFit, IsValueOf
<1> QED  BY <1>1, <1>2, <1>4, <1>5

\* What is inserted before a call or return when it is handled: one frame at
\* most, and stores of bounds that are there.
IsAddition(F, m, i, n, x) ==
  \/ /\ x.op = "store" /\ IsStore(F, m, i, x)
     /\ \E o \in DOMAIN m : IsValue(F, o, i) /\ \E k \in DOMAIN m[o] : x.reg = m[o][k]
  \/ n = 1 /\ x.op = "alloc" /\ HasFrame(F, i) /\ x = Allocate(FrameSize(F.body[i]))

AdditionsAre(F, c, c2, m, i, items) ==
  /\ IsSequence(c2[i]) /\ IsOrdered(c2[i])
  /\ GrowsRightly(F, c, c2, m, i + 1, i)
  /\ \A n \in DOMAIN items : \E k \in DOMAIN c2[i] : c2[i][k] = items[n]

\* An allocation and stores that are appended fit the layout.
LEMMA AdditionsFit ==
  ASSUME NEW p, WellFormed(p), NEW F, IsFunction(p, F), NEW i \in DOMAIN F.body,
         NEW c, NEW m, Layout(F, c, m, i), NEW items, IsSequence(items),
         \A n \in DOMAIN items : IsAddition(F, m, i, n, items[n]),
         NEW c2, c2[i] = c[i] \o items
  PROVE  AdditionsAre(F, c, c2, m, i, items)
<1> DEFINE old == Len(c[i])
           t == c2[i]
<1>1. /\ WitnessesFit(F, m) /\ SourcesAreFilled(F, c, m)
      /\ IsSequence(c[i]) /\ IsOrdered(c[i])
      /\ \A k \in DOMAIN c[i] : IsItem(F, c, m, i, i, k)
  BY DEF Layout
<1>2. i \in Int /\ i >= 1
  BY DEF IsFunction
<1>3. /\ IsSequence(t) /\ Len(t) = old + Len(items)
      /\ DOMAIN t = 1 .. old + Len(items)
      /\ \A k \in 1 .. old : t[k] = c[i][k]
      /\ \A k \in 1 .. Len(items) : t[old + k] = items[k]
      /\ \A k \in 1 .. old + Len(items) :
           k > old => k - old \in 1 .. Len(items) /\ t[k] = items[k - old]
  BY <1>1, Concatenated
<1>4. /\ DOMAIN c[i] = 1 .. old /\ old \in Nat
      /\ DOMAIN items = 1 .. Len(items) /\ Len(items) \in Nat
  BY <1>1, SequenceDomain
<1> HIDE DEF old
<1>5. \A n \in DOMAIN items : \E k \in DOMAIN t : t[k] = items[n]
  <2>1. ASSUME NEW n \in DOMAIN items  PROVE old + n \in DOMAIN t /\ t[old + n] = items[n]
    <3>1. n \in 1 .. Len(items)
      BY <1>4
    <3>2. old + n \in 1 .. old + Len(items)
      BY <1>4, <3>1
    <3> QED  BY <1>3, <3>1, <3>2
  <2> QED  BY <2>1
<1>6. ASSUME NEW k \in DOMAIN t
      PROVE  /\ t[k].op \in {"load", "choice", "dealloc", "alloc", "store"}
             /\ t[k].op \in {"load", "choice", "dealloc"} =>
                  k <= old /\ k \in DOMAIN c[i] /\ t[k] = c[i][k]
             /\ t[k].op \in {"alloc", "store"} => k > old
             /\ t[k].op = "alloc" => k = old + 1
  <2>1. CASE k <= old
    <3>1. k \in DOMAIN c[i] /\ t[k] = c[i][k]
      BY <1>3, <1>4, <2>1
    <3>2. IsItem(F, c, m, i, i, k) /\ ~ (i < i)
      BY <1>1, <1>2, <3>1
    <3>3. c[i][k].op \in {"load", "choice", "dealloc"}
      BY <3>2 DEF IsItem
    <3> QED  BY <2>1, <3>1, <3>3
  <2>2. CASE k > old
    <3>1. k - old \in DOMAIN items /\ t[k] = items[k - old] /\ k \in Int
      BY <1>3, <1>4, <2>2
    <3>2. t[k].op = "store" \/ (k - old = 1 /\ t[k].op = "alloc")
      BY <3>1 DEF IsAddition
    <3> QED  BY <2>2, <3>1, <3>2, <1>4
  <2> QED  BY <1>3, <1>4, <2>1, <2>2
<1>7. IsOrdered(t)
  <2>1. ASSUME NEW k \in DOMAIN t, NEW l \in DOMAIN t
        PROVE  /\ t[k].op \in Fills \cup {"dealloc"} /\ t[l].op \in {"alloc", "store"} => k < l
               /\ t[k].op = "alloc" /\ t[l].op = "store" => k < l
               /\ t[k].op = t[l].op /\ t[k].op \in {"alloc", "dealloc"} => k = l
    <3>1. k \in Int /\ l \in Int
      BY <1>3
    <3>2. t[k].op \in Fills \cup {"dealloc"} => k <= old /\ k \in DOMAIN c[i] /\ t[k] = c[i][k]
      BY <1>6 DEF Fills
    <3>3. t[l].op \in Fills \cup {"dealloc"} => l <= old /\ l \in DOMAIN c[i] /\ t[l] = c[i][l]
      BY <1>6 DEF Fills
    <3>4. /\ t[l].op \in {"alloc", "store"} => l > old
          /\ t[l].op = "alloc" => l = old + 1
          /\ t[k].op = "alloc" => k = old + 1
      BY <1>6
    <3>5. t[k].op = "dealloc" /\ t[l].op = "dealloc" => k = l
      BY <1>1, <3>2, <3>3 DEF IsOrdered
    <3>6. t[k].op = "alloc" /\ t[l].op = "store" => k # l
      OBVIOUS
    <3> QED  BY <1>4, <3>1, <3>2, <3>4, <3>5, <3>6
  <2> HIDE DEF t
  <2> QED  BY <2>1 DEF IsOrdered
<1>8. ASSUME NEW k \in DOMAIN t, k > old
      PROVE  IsItem(F, c2, m, i + 1, i, k)
  <2>1. k - old \in DOMAIN items /\ t[k] = items[k - old] /\ k \in Int
    BY <1>3, <1>4, <1>8
  <2>2. IsAddition(F, m, i, k - old, t[k])
    BY <2>1
  <2>3. CASE t[k].op = "alloc"
    BY <1>2, <2>2, <2>3 DEF IsAddition, IsItem
  <2>4. CASE t[k].op = "store"
    <3>1. PICK o \in DOMAIN m : IsValue(F, o, i) /\ \E l \in DOMAIN m[o] : t[k].reg = m[o][l]
      BY <2>2, <2>4 DEF IsAddition
    <3>2. PICK l \in DOMAIN m[o] : t[k].reg = m[o][l]
      BY <3>1
    <3>3. Ready(F, c, i, old + 1, m[o][l])
      <4>1. old + 1 \in Int /\ old + 1 > Len(c[i])
        BY <1>4 DEF old
      <4> QED  BY <1>1, <3>1, <4>1, WitnessReady
    <3>4. Ready(F, c2, i, k, m[o][l])
      <4>1. k \in Int /\ k > Len(c[i]) /\ Ready(F, c, i, Len(c[i]) + 1, m[o][l])
        BY <1>8, <2>1, <3>3 DEF old
      <4> HIDE DEF t
      <4> QED  BY <1>1, <4>1, ReadyAppended
    <3>5. IsStore(F, m, i, t[k])
      BY <2>2, <2>4 DEF IsAddition
    <3> QED  BY <1>2, <2>4, <3>2, <3>4, <3>5 DEF IsItem
  <2> QED  BY <2>2, <2>3, <2>4 DEF IsAddition
<1>9. GrowsRightly(F, c, c2, m, i + 1, i)
  <2> DEFINE e == [k \in 1 .. Len(c[i]) |-> k]
  <2>1. Grows(c[i], c2[i], e)
    BY <1>1, AppendedGrows
  <2>2. ASSUME NEW j \in 1 .. Len(c2[i])
        PROVE  (\E k \in 1 .. Len(c[i]) : e[k] = j) \/ IsItem(F, c2, m, i + 1, i, j)
    <3>1. CASE j <= old
      <4>1. j \in 1 .. Len(c[i])
        BY <1>3, <1>4, <3>1 DEF old
      <4> QED  BY <4>1
    <3>2. CASE j > old
      BY <1>3, <1>8, <3>2
    <3> QED  BY <1>4, <3>1, <3>2
  <2> QED  BY <2>1, <2>2 DEF GrowsRightly
<1> QED  BY <1>3, <1>5, <1>7, <1>9 DEF AdditionsAre

\* The frame of a call is deallocated behind it.
LEMMA DeallocateBelongs ==
  ASSUME NEW F, NEW c, NEW m, NEW h \in Int, NEW i \in Int, 1 <= i, i < h, HasFrame(F, i),
         NEW k, c[i + 1][k].op = "dealloc"
  PROVE  IsItem(F, c, m, h, i + 1, k)
<1>1. i + 1 \in 2 .. h /\ i + 1 - 1 = i
  OBVIOUS
<1> QED  BY <1>1 DEF IsItem

\* The frame is deallocated behind the loads in front of the next instruction,
\* where nothing but registers is filled yet.
LEMMA DeallocationFits ==
  ASSUME NEW p, WellFormed(p), NEW F, IsFunction(p, F), NEW i \in DOMAIN F.body,
         NEW c, NEW m, Layout(F, c, m, i), HasFrame(F, i),
         NEW c2, c2[i + 1] = DeallocatedBehindLoads(c[i + 1])
  PROVE  /\ IsSequence(c2[i + 1]) /\ IsOrdered(c2[i + 1])
         /\ GrowsRightly(F, c, c2, m, i + 1, i + 1)
         /\ \E k \in DOMAIN c2[i + 1] : c2[i + 1][k].op = "dealloc"
<1> DEFINE s == c[i + 1]
           t == c2[i + 1]
           old == Len(s)
<1>1. i + 1 \in DOMAIN F.body /\ i \in Int /\ i >= 1
  <2>1. i + 1 \in DOMAIN F.body
    BY Instructions DEF HasFrame
  <2> QED  BY <2>1 DEF IsFunction
<1>2. IsSequence(s) /\ \A k \in DOMAIN s : IsItem(F, c, m, i, i + 1, k)
  BY <1>1 DEF Layout
<1>3. DOMAIN s = 1 .. old /\ old \in Nat
  BY <1>2, SequenceDomain
<1>4. \A k \in DOMAIN s : s[k].op \in Fills
  <2>1. ASSUME NEW k \in DOMAIN s  PROVE s[k].op \in Fills
    <3>1. IsItem(F, c, m, i, i + 1, k) /\ ~ (i + 1 < i) /\ ~ (i + 1 \in 2 .. i)
      BY <1>1, <1>2
    <3> QED  BY <3>1 DEF IsItem, Fills
  <2> QED  BY <2>1
<1>5. /\ IsSequence(t) /\ Len(t) = old + 1
      /\ \E last \in 0 .. old :
           /\ \A k \in 1 .. last : s[k].op = "load" /\ t[k] = s[k]
           /\ last < old => s[last + 1].op # "load"
           /\ t[last + 1] = Deallocate
           /\ \A k \in last + 1 .. old : t[k + 1] = s[k]
  <2> DEFINE u == DeallocatedBehindLoads(s)
  <2>1. /\ IsSequence(u) /\ Len(u) = old + 1
        /\ \E last \in 0 .. old :
             /\ \A k \in 1 .. last : s[k].op = "load" /\ u[k] = s[k]
             /\ last < old => s[last + 1].op # "load"
             /\ u[last + 1] = Deallocate
             /\ \A k \in last + 1 .. old : u[k + 1] = s[k]
    BY <1>2, Deallocated
  <2>2. t = u
    OBVIOUS
  <2> HIDE DEF t, u
  <2> QED  BY <2>1, <2>2
<1>6. PICK last \in 0 .. old :
           /\ \A k \in 1 .. last : t[k] = s[k]
           /\ t[last + 1] = Deallocate
           /\ \A k \in last + 1 .. old : t[k + 1] = s[k]
  BY <1>5
<1>7. DOMAIN t = 1 .. old + 1 /\ last \in Int
  <2>1. DOMAIN t = 1 .. Len(t)
    BY <1>5, SequenceDomain
  <2> QED  BY <2>1, <1>3, <1>5
<1> HIDE DEF old
<1> DEFINE e == [k \in 1 .. old |-> IF k <= last THEN k ELSE k + 1]
<1>8. /\ e \in [1 .. old -> 1 .. old + 1]
      /\ \A k, l \in 1 .. old : k < l => e[k] < e[l]
      /\ \A k \in 1 .. old : t[e[k]] = s[k]
  <2>1. \A k \in 1 .. old : e[k] \in 1 .. old + 1
    BY <1>3
  <2>2. \A k, l \in 1 .. old : k < l => e[k] < e[l]
    BY <1>3, <1>7
  <2>3. ASSUME NEW k \in 1 .. old  PROVE t[e[k]] = s[k]
    <3>1. CASE k <= last
      BY <1>3, <1>6, <1>7, <3>1
    <3>2. CASE k > last
      <4>1. k \in last + 1 .. old /\ e[k] = k + 1
        BY <1>3, <1>7, <3>2
      <4> QED  BY <4>1, <1>6
    <3> QED  BY <3>1, <3>2, <1>3, <1>7
  <2> QED  BY <2>1, <2>2, <2>3
<1>9. Grows(s, t, e)
  BY <1>5, <1>8 DEF Grows, old
<1>10. \A j \in 1 .. old + 1 : j = last + 1 \/ \E k \in 1 .. old : e[k] = j
  <2>1. ASSUME NEW j \in 1 .. old + 1, j # last + 1
        PROVE  \E k \in 1 .. old : e[k] = j
    <3>1. CASE j <= last
      <4>1. j \in 1 .. old /\ e[j] = j
        BY <1>3, <1>7, <3>1
      <4> QED  BY <4>1
    <3>2. CASE j > last + 1
      <4>1. j - 1 \in 1 .. old /\ e[j - 1] = j
        BY <1>3, <1>7, <3>2
      <4> QED  BY <4>1
    <3> QED  BY <2>1, <3>1, <3>2, <1>3, <1>7
  <2> QED  BY <2>1
<1>11. IsItem(F, c2, m, i + 1, i + 1, last + 1)
  <2>1. t[last + 1].op = "dealloc"
    BY <1>6 DEF Deallocate
  <2>2. i < i + 1 /\ i + 1 \in Int
    BY <1>1
  <2> QED  BY <1>1, <2>1, <2>2, DeallocateBelongs
<1>12. GrowsRightly(F, c, c2, m, i + 1, i + 1)
  <2>1. \A j \in 1 .. Len(t) : (\E k \in 1 .. Len(s) : e[k] = j)
                               \/ IsItem(F, c2, m, i + 1, i + 1, j)
    BY <1>5, <1>10, <1>11 DEF old
  <2> HIDE DEF e
  <2> QED  BY <1>9, <2>1 DEF GrowsRightly
<1>13. \A k \in DOMAIN t : k = last + 1 \/ t[k].op \in Fills
  <2>1. ASSUME NEW k \in DOMAIN t, k # last + 1  PROVE t[k].op \in Fills
    <3>1. PICK l \in 1 .. old : e[l] = k
      BY <1>7, <1>10, <2>1
    <3>2. t[k] = s[l] /\ l \in DOMAIN s
      BY <1>3, <1>8, <3>1
    <3> QED  BY <1>4, <3>2
  <2> QED  BY <2>1
<1>14. t[last + 1].op = "dealloc" /\ last + 1 \in DOMAIN t
  BY <1>3, <1>6, <1>7 DEF Deallocate
<1>15. IsOrdered(t)
  <2> HIDE DEF t
  <2> QED  BY <1>13, <1>14 DEF IsOrdered, Fills
<1> QED  BY <1>5, <1>12, <1>14, <1>15

\* Nothing is inserted.
LEMMA Unchanged ==
  ASSUME NEW F, NEW c, NEW c2, NEW m2, NEW h2, NEW i, IsSequence(c[i]), c2[i] = c[i]
  PROVE  GrowsRightly(F, c, c2, m2, h2, i)
<1> DEFINE e == [k \in 1 .. Len(c[i]) |-> k]
<1>1. Grows(c[i], c[i], e)
  BY SameGrows
<1> QED  BY <1>1 DEF GrowsRightly

\* What is stored before a call or a return is what it needs.
StoresFit(F, m, i, items) ==
  LET ins == F.body[i] IN
  /\ IsSequence(items)
  /\ \A n \in DOMAIN items : \A l : IsAddition(F, m, i, l, items[n])
  /\ ins.op = "call" =>
       \A j \in PointerArguments(ins) :
         /\ ins.args[j] \in DOMAIN m
         /\ \E n \in DOMAIN items : items[n] = ArgumentStore(m, ins, j)
  /\ ins.op = "ret" =>
       \A n \in DOMAIN ComputeIndices(F.ret) :
         /\ ins.val \in DOMAIN m
         /\ \E k \in DOMAIN items : items[k] = ReturnStore(F, m, ins.val, n)

\* The stores of a call are those that it needs.
LEMMA CallStores ==
  ASSUME NEW p, WellFormed(p), NEW F, IsFunction(p, F), NEW i \in DOMAIN F.body,
         F.body[i].op = "call", NEW m, NeedsMet(F, m, i), WitnessesFit(F, m)
  PROVE  StoresFit(F, m, i, StoresOfCall(m, F.body[i]))
<1> DEFINE call == F.body[i]
           A == PointerArguments(call)
           listed == Ascending(A)
           items == StoresOfCall(m, call)
<1>1. IsFiniteSet(A) /\ A \subseteq Int
  BY CallSlots
<1>2. /\ IsSequence(listed) /\ DOMAIN listed = 1 .. Cardinality(A) /\ Cardinality(A) \in Nat
      /\ \A n \in DOMAIN listed : listed[n] \in A
      /\ \A k \in A : \E n \in DOMAIN listed : listed[n] = k
  <2> HIDE DEF A
  <2> QED  BY <1>1, AscendingLists
<1>3. items = [n \in DOMAIN listed |-> ArgumentStore(m, call, listed[n])]
  BY DEF StoresOfCall, ArgumentStore
<1> HIDE DEF listed
<1>4. IsSequence(items) /\ DOMAIN items = DOMAIN listed
      /\ \A n \in DOMAIN listed : items[n] = ArgumentStore(m, call, listed[n])
  <2>1. DOMAIN items = 1 .. Cardinality(A) /\ items = [n \in 1 .. Cardinality(A) |-> items[n]]
    BY <1>2, <1>3
  <2>2. IsSequence(items)
    BY <2>1, <1>2, FunctionIsSequence
  <2> QED  BY <2>2, <1>3
<1> HIDE DEF items
<1>5. ASSUME NEW j \in A
      PROVE  LET o == call.args[j] IN
             o \in DOMAIN m /\ IsValue(F, o, i) /\ 1 \in DOMAIN m[o]
  BY <1>5, CallNeeds
<1>6. ASSUME NEW n \in DOMAIN items, NEW l
      PROVE  IsAddition(F, m, i, l, items[n])
  <2> DEFINE o == call.args[listed[n]]
             x == items[n]
  <2>1. listed[n] \in A
    BY <1>2, <1>4
  <2>2. o \in DOMAIN m /\ IsValue(F, o, i) /\ 1 \in DOMAIN m[o]
    BY <1>5, <2>1
  <2>3. x = ArgumentStore(m, call, listed[n])
    BY <1>4
  <2>4. x.op = "store" /\ x.reg = m[o][1]
    BY <2>3 DEF ArgumentStore, Store
  <2>5. IsStore(F, m, i, x)
    BY <2>1, <2>2, <2>3 DEF IsStore
  <2> HIDE DEF x
  <2>6. \E k \in DOMAIN m[o] : x.reg = m[o][k]
    BY <2>2, <2>4
  <2> HIDE DEF o
  <2>7. IsAddition(F, m, i, l, x)
    BY <2>2, <2>4, <2>5, <2>6 DEF IsAddition
  <2> QED  BY <2>7 DEF x
<1>7. ASSUME NEW j \in A
      PROVE  \E n \in DOMAIN items : items[n] = ArgumentStore(m, call, j)
  BY <1>2, <1>4
<1>8. StoresFit(F, m, i, items)
  BY <1>4, <1>5, <1>6, <1>7 DEF StoresFit
<1> QED  BY <1>8 DEF items

\* The stores of a return are those that it needs.
LEMMA ReturnStores ==
  ASSUME NEW p, WellFormed(p), NEW F, IsFunction(p, F), NEW i \in DOMAIN F.body,
         F.body[i].op = "ret", NEW m, NeedsMet(F, m, i), WitnessesFit(F, m)
  PROVE  StoresFit(F, m, i, StoresOfReturn(F, m, F.body[i].val))
<1> DEFINE indices == ComputeIndices(F.ret)
           o == F.body[i].val
           items == StoresOfReturn(F, m, o)
<1>1. IsType(F.ret)
  BY DEF IsFunction
<1>2. IsSequence(indices) /\ DOMAIN indices = 1 .. Len(indices) /\ Len(indices) \in Nat
  <2>1. IsSequence(indices)
    BY <1>1, IndicesList
  <2> QED  BY <2>1, SequenceDomain
<1>3. items = [n \in DOMAIN indices |-> ReturnStore(F, m, o, n)]
  BY DEF StoresOfReturn, ReturnStore
<1>4. ASSUME NEW n \in DOMAIN indices
      PROVE  o \in DOMAIN m /\ IsValue(F, o, i) /\ indices[n] \in DOMAIN m[o]
  BY ReturnNeeds DEF IsValueOf
<1>5. ASSUME NEW n \in DOMAIN indices, NEW l
      PROVE  IsAddition(F, m, i, l, ReturnStore(F, m, o, n))
  <2> DEFINE x == ReturnStore(F, m, o, n)
  <2>1. o \in DOMAIN m /\ IsValue(F, o, i) /\ indices[n] \in DOMAIN m[o]
    BY <1>4
  <2>2. x.op = "store" /\ x.reg = m[o][indices[n]]
    BY DEF ReturnStore, Store
  <2>3. IsStore(F, m, i, x)
    BY <2>1 DEF IsStore
  <2> HIDE DEF x
  <2>4. \E k \in DOMAIN m[o] : x.reg = m[o][k]
    BY <2>1, <2>2
  <2> HIDE DEF o, indices
  <2>5. IsAddition(F, m, i, l, x)
    BY <2>1, <2>2, <2>3, <2>4 DEF IsAddition
  <2> QED  BY <2>5 DEF x, o
<1> HIDE DEF indices
<1>6. IsSequence(items) /\ DOMAIN items = DOMAIN indices
      /\ \A n \in DOMAIN indices : items[n] = ReturnStore(F, m, o, n)
  <2>1. DOMAIN items = 1 .. Len(indices) /\ items = [n \in 1 .. Len(indices) |-> items[n]]
    BY <1>2, <1>3
  <2>2. IsSequence(items)
    BY <2>1, <1>2, FunctionIsSequence
  <2> QED  BY <2>2, <1>3
<1> HIDE DEF items
<1>7. StoresFit(F, m, i, items)
  BY <1>4, <1>5, <1>6 DEF StoresFit, indices
<1> QED  BY <1>7 DEF items

SameBehind(s, x, t) == Append(s, x) \o t = s \o (<<x>> \o t)

\* An item is appended before a sequence is.
LEMMA ConcatAssociative ==
  ASSUME NEW s, NEW x, NEW t, IsSequence(s), IsSequence(t)
  PROVE  SameBehind(s, x, t)
<1> DEFINE T == {s[k] : k \in 1 .. Len(s)} \cup {t[k] : k \in 1 .. Len(t)} \cup {x}
<1>1. s \in Seq(T) /\ t \in Seq(T) /\ x \in T
  <2>1. s \in [1 .. Len(s) -> T] /\ t \in [1 .. Len(t) -> T]
    BY DEF IsSequence
  <2> QED  BY <2>1 DEF IsSequence
<1> HIDE DEF T
<1> DEFINE a == Append(s, x) \o t
           b == s \o (<<x>> \o t)
<1>2. a \in Seq(T) /\ b \in Seq(T)
  BY <1>1
<1>3. Len(a) = Len(b)
  BY <1>1
<1>4. \A k \in 1 .. Len(a) : a[k] = b[k]
  BY <1>1
<1> HIDE DEF a, b
<1>5. a = b
  BY <1>2, <1>3, <1>4
<1> QED  BY <1>5 DEF a, b, SameBehind

\* The layout after the invariants of one more instruction.
LEMMA OneMoreHandled ==
  ASSUME NEW p, WellFormed(p), NEW F, IsFunction(p, F), F.body # <<>>,
         NEW i \in DOMAIN F.body, NEW c, NEW m, Layout(F, c, m, i),
         NEW c3, c3 = [l \in DOMAIN F.body |-> c3[l]],
         \A l \in DOMAIN F.body :
           IsSequence(c3[l]) /\ IsOrdered(c3[l]) /\ GrowsRightly(F, c, c3, m, i + 1, l),
         IsHandled(F, c3, m, i)
  PROVE  Layout(F, c3, m, i + 1)
<1>1. WitnessesFit(F, m)
  BY DEF Layout
<1>2. i \in Int /\ \A l \in DOMAIN F.body : l \in Int
  BY DEF IsFunction
<1>3. Keeps(m, m) /\ \A o \in DOMAIN m : Location(F, o) \in DOMAIN F.body
  BY <1>1, Locations DEF Keeps, WitnessesFit
<1>4. \A l \in DOMAIN F.body : i <= l /\ l < i + 1 => IsHandled(F, c3, m, l)
  <2>1. \A l \in DOMAIN F.body : i <= l /\ l < i + 1 => l = i
    BY <1>2
  <2> QED  BY <2>1
<1>5. i + 1 \in Int /\ i <= i + 1
  BY <1>2
<1> QED  BY <1>1, <1>2, <1>3, <1>4, <1>5, LayoutGrows

\* The same for a return, and a call without a frame.
LEMMA StoresInserted ==
  ASSUME NEW p, WellFormed(p), NEW F, IsFunction(p, F), F.body # <<>>,
         NEW i \in DOMAIN F.body, NEW c, NEW m, Layout(F, c, m, i),
         NEW items, StoresFit(F, m, i, items), ~HasFrame(F, i)
  PROVE  Layout(F, InsertBefore(c, i, items), m, i + 1)
<1> DEFINE c2 == InsertBefore(c, i, items)
<1>1. /\ c = [l \in DOMAIN F.body |-> c[l]]
      /\ \A l \in DOMAIN F.body : IsSequence(c[l]) /\ IsOrdered(c[l])
      /\ WitnessesFit(F, m)
  BY DEF Layout
<1>2. /\ c2 = [l \in DOMAIN F.body |-> c2[l]]
      /\ c2[i] = c[i] \o items
      /\ \A l \in DOMAIN F.body \ {i} : c2[l] = c[l]
  BY <1>1 DEF InsertBefore
<1> HIDE DEF c2
<1>3. AdditionsAre(F, c, c2, m, i, items)
  <2>1. IsSequence(items) /\ \A n \in DOMAIN items : IsAddition(F, m, i, n, items[n])
    BY DEF StoresFit
  <2> QED  BY <1>2, <2>1, AdditionsFit
<1>4. ASSUME NEW l \in DOMAIN F.body
      PROVE  IsSequence(c2[l]) /\ IsOrdered(c2[l]) /\ GrowsRightly(F, c, c2, m, i + 1, l)
  <2>1. CASE l = i
    BY <1>3, <2>1 DEF AdditionsAre
  <2>2. CASE l # i
    BY <1>1, <1>2, <2>2, Unchanged
  <2> QED  BY <2>1, <2>2
<1>5. IsHandled(F, c2, m, i)
  BY <1>3 DEF IsHandled, AdditionsAre, StoresFit
<1>6. Layout(F, c2, m, i + 1)
  BY <1>2, <1>4, <1>5, OneMoreHandled
<1> QED  BY <1>6 DEF c2

\* handleInvariant keeps the layout and does what the instruction needs.
LEMMA HandleKeeps ==
  ASSUME NEW p, WellFormed(p), NEW F, IsFunction(p, F), F.body # <<>>,
         NEW i \in DOMAIN F.body,
         NEW c, NEW m, Layout(F, c, m, i), NeedsMet(F, m, i)
  PROVE  Layout(F, Handled(F, m, c, i), m, i + 1)
<1> DEFINE ins == F.body[i]
           c2 == Handled(F, m, c, i)
<1>1. /\ WitnessesFit(F, m) /\ c = [l \in DOMAIN F.body |-> c[l]]
      /\ \A l \in DOMAIN F.body : IsSequence(c[l]) /\ IsOrdered(c[l])
  BY DEF Layout
<1>2. i \in Int /\ \A l \in DOMAIN F.body : l \in Int
  BY DEF IsFunction
<1>6. CASE ins.op \notin {"call", "ret"}
  <2>1. c2 = c
    BY <1>6 DEF Handled
  <2>2. IsHandled(F, c, m, i)
    BY <1>6 DEF IsHandled, HasFrame
  <2>3. \A l \in DOMAIN F.body : GrowsRightly(F, c, c, m, i + 1, l)
    BY <1>1, Unchanged
  <2>4. Layout(F, c, m, i + 1)
    BY <1>1, <2>2, <2>3, OneMoreHandled
  <2> QED  BY <2>1, <2>4
<1>8. CASE ins.op = "ret"
  <2> DEFINE items == StoresOfReturn(F, m, ins.val)
  <2>1. c2 = InsertBefore(c, i, items)
    BY <1>8 DEF Handled
  <2>2. StoresFit(F, m, i, items)
    BY <1>1, <1>8, ReturnStores
  <2>3. ~HasFrame(F, i)
    BY <1>8 DEF HasFrame
  <2> HIDE DEF items
  <2>4. Layout(F, InsertBefore(c, i, items), m, i + 1)
    BY <2>2, <2>3, StoresInserted
  <2> QED  BY <2>1, <2>4
<1>9. CASE ins.op = "call"
  <2> DEFINE items == StoresOfCall(m, ins)
  <2>1. StoresFit(F, m, i, items)
    BY <1>1, <1>9, CallStores
  <2> HIDE DEF items
  <2>2. /\ IsSequence(items)
        /\ \A n \in DOMAIN items : \A l : IsAddition(F, m, i, l, items[n])
        /\ \A j \in PointerArguments(ins) :
             /\ ins.args[j] \in DOMAIN m
             /\ \E n \in DOMAIN items : items[n] = ArgumentStore(m, ins, j)
    BY <1>9, <2>1 DEF StoresFit
  <2>3. CASE FrameSize(ins) = 0
    <3>1. c2 = InsertBefore(c, i, items)
      BY <1>9, <2>3 DEF Handled, HandleCallInvariant, items
    <3>2. ~HasFrame(F, i)
      BY <2>3 DEF HasFrame
    <3>3. Layout(F, InsertBefore(c, i, items), m, i + 1)
      BY <2>1, <3>2, StoresInserted
    <3> QED  BY <3>1, <3>3
  <2>4. CASE FrameSize(ins) # 0
    <3> DEFINE alloc == Allocate(FrameSize(ins))
               all == <<alloc>> \o items
    <3>1. HasFrame(F, i) /\ i + 1 \in DOMAIN F.body /\ i + 1 # i
      <4>1. i + 1 \in DOMAIN F.body
        BY <1>9, Instructions
      <4> QED  BY <1>2, <1>9, <2>4, <4>1 DEF HasFrame
    <3>2. /\ c2 = [l \in DOMAIN F.body |-> c2[l]]
          /\ c2[i] = Append(c[i], alloc) \o items
          /\ c2[i + 1] = DeallocatedBehindLoads(c[i + 1])
          /\ \A l \in DOMAIN F.body \ {i, i + 1} : c2[l] = c[l]
      <4>1. c2 = InsertBefore(HandleShadowStackAllocation(c, i, FrameSize(ins)), i, items)
        BY <1>9, <2>4 DEF Handled, HandleCallInvariant, items
      <4> DEFINE c1 == HandleShadowStackAllocation(c, i, FrameSize(ins))
      <4>2. /\ c1 = [l \in DOMAIN F.body |-> c1[l]]
            /\ c1[i] = Append(c[i], alloc)
            /\ c1[i + 1] = DeallocatedBehindLoads(c[i + 1])
            /\ \A l \in DOMAIN F.body \ {i, i + 1} : c1[l] = c[l]
        BY <1>1, <3>1 DEF HandleShadowStackAllocation
      <4> HIDE DEF c1, alloc, c2
      <4>3. c2 = InsertBefore(c1, i, items)
        BY <4>1 DEF c1
      <4> QED  BY <3>1, <4>2, <4>3 DEF InsertBefore
    <3> HIDE DEF c2
    <3>3. c2[i] = c[i] \o all
      <4>1. Append(c[i], alloc) \o items = c[i] \o (<<alloc>> \o items)
        <5>1. IsSequence(c[i]) /\ IsSequence(items)
          BY <1>1, <2>2
        <5> HIDE DEF alloc
        <5>2. SameBehind(c[i], alloc, items)
          BY <5>1, ConcatAssociative
        <5> QED  BY <5>2 DEF SameBehind
      <4> QED  BY <3>2, <4>1
    <3>4. /\ IsSequence(all) /\ all[1] = alloc /\ 1 \in DOMAIN all
          /\ \A n \in DOMAIN all : n = 1 \/ \E l \in DOMAIN items : all[n] = items[l]
          /\ \A l \in DOMAIN items : \E n \in DOMAIN all : all[n] = items[l]
      <4>1. IsSequence(<<alloc>>) /\ Len(<<alloc>>) = 1 /\ <<alloc>>[1] = alloc
        BY ShortSequences
      <4>2. DOMAIN items = 1 .. Len(items) /\ Len(items) \in Nat
        BY <2>2, SequenceDomain
      <4> DEFINE s == <<alloc>>
      <4> HIDE DEF s
      <4>3. /\ IsSequence(s \o items) /\ DOMAIN (s \o items) = 1 .. Len(s) + Len(items)
            /\ \A k \in 1 .. Len(s) : (s \o items)[k] = s[k]
            /\ \A k \in 1 .. Len(items) : (s \o items)[Len(s) + k] = items[k]
            /\ \A k \in 1 .. Len(s) + Len(items) :
                 k > Len(s) => k - Len(s) \in 1 .. Len(items)
                               /\ (s \o items)[k] = items[k - Len(s)]
        BY <2>2, <4>1, Concatenated DEF s
      <4>4. Len(s) = 1 /\ s[1] = alloc /\ all = s \o items
        BY <4>1 DEF s
      <4> HIDE DEF all
      <4>5. IsSequence(all) /\ DOMAIN all = 1 .. 1 + Len(items) /\ all[1] = alloc
        BY <4>3, <4>4
      <4>6. \A k \in 1 .. Len(items) : 1 + k \in DOMAIN all /\ all[1 + k] = items[k]
        BY <4>2, <4>3, <4>4
      <4>7. \A k \in 1 .. 1 + Len(items) :
              k > 1 => k - 1 \in 1 .. Len(items) /\ all[k] = items[k - 1]
        BY <4>3, <4>4
      <4>8. \A n \in DOMAIN all : n = 1 \/ \E l \in DOMAIN items : all[n] = items[l]
        BY <4>2, <4>5, <4>7
      <4> QED  BY <4>2, <4>5, <4>6, <4>8
    <3> HIDE DEF all
    <3>5. ASSUME NEW n \in DOMAIN all  PROVE IsAddition(F, m, i, n, all[n])
      <4>1. CASE n = 1
        <5>1. alloc.op = "alloc"
          BY DEF Allocate
        <5> QED  BY <3>1, <3>4, <4>1, <5>1 DEF IsAddition
      <4>2. CASE n # 1
        <5>1. PICK l \in DOMAIN items : all[n] = items[l]
          BY <3>4, <4>2
        <5> QED  BY <2>2, <5>1
      <4> QED  BY <4>1, <4>2
    <3>6. AdditionsAre(F, c, c2, m, i, all)
      BY <3>3, <3>4, <3>5, AdditionsFit
    <3>7. /\ IsSequence(c2[i + 1]) /\ IsOrdered(c2[i + 1])
          /\ GrowsRightly(F, c, c2, m, i + 1, i + 1)
          /\ \E k \in DOMAIN c2[i + 1] : c2[i + 1][k].op = "dealloc"
      BY <3>1, <3>2, DeallocationFits
    <3>8. ASSUME NEW l \in DOMAIN F.body
          PROVE  IsSequence(c2[l]) /\ IsOrdered(c2[l]) /\ GrowsRightly(F, c, c2, m, i + 1, l)
      <4>1. CASE l \in {i, i + 1}
        BY <3>6, <3>7, <4>1 DEF AdditionsAre
      <4>2. CASE l \notin {i, i + 1}
        BY <1>1, <3>2, <4>2, Unchanged
      <4> QED  BY <4>1, <4>2
    <3>9. IsHandled(F, c2, m, i)
      <4>1. \E k \in DOMAIN c2[i] : c2[i][k].op = "alloc"
        BY <3>4, <3>6 DEF Allocate, AdditionsAre
      <4>2. ASSUME NEW j \in PointerArguments(ins)
            PROVE  /\ ins.args[j] \in DOMAIN m
                   /\ \E k \in DOMAIN c2[i] : c2[i][k] = ArgumentStore(m, ins, j)
        <5>1. PICK l \in DOMAIN items : items[l] = ArgumentStore(m, ins, j)
          BY <2>2
        <5>2. PICK n \in DOMAIN all : all[n] = items[l]
          BY <3>4
        <5> QED  BY <2>2, <3>6, <5>1, <5>2 DEF AdditionsAre
      <4> QED  BY <1>9, <3>7, <4>1, <4>2 DEF IsHandled
    <3>10. Layout(F, c2, m, i + 1)
      BY <3>2, <3>8, <3>9, OneMoreHandled
    <3> QED  BY <3>10 DEF c2
  <2> QED  BY <2>3, <2>4
<1> QED  BY <1>6, <1>8, <1>9

\* An item is put in front of a sequence.
LEMMA Pushed ==
  ASSUME NEW x, NEW s, IsSequence(s)
  PROVE  /\ IsSequence(<<x>> \o s) /\ Len(<<x>> \o s) = Len(s) + 1 /\ Len(s) \in Nat
         /\ DOMAIN (<<x>> \o s) = 1 .. Len(s) + 1
         /\ (<<x>> \o s)[1] = x
         /\ \A k \in 1 .. Len(s) : (<<x>> \o s)[k + 1] = s[k]
         /\ \A k \in 2 .. Len(s) + 1 : k - 1 \in 1 .. Len(s) /\ (<<x>> \o s)[k] = s[k - 1]
<1> DEFINE h == <<x>>
<1>1. IsSequence(h) /\ Len(h) = 1 /\ h[1] = x
  BY ShortSequences
<1> HIDE DEF h
<1>2. Len(s) \in Nat
  BY SequenceDomain
<1>3. /\ IsSequence(h \o s) /\ Len(h \o s) = Len(h) + Len(s)
      /\ DOMAIN (h \o s) = 1 .. Len(h) + Len(s)
      /\ \A k \in 1 .. Len(h) : (h \o s)[k] = h[k]
      /\ \A k \in 1 .. Len(s) : (h \o s)[Len(h) + k] = s[k]
      /\ \A k \in 1 .. Len(h) + Len(s) :
           k > Len(h) => k - Len(h) \in 1 .. Len(s) /\ (h \o s)[k] = s[k - Len(h)]
  BY <1>1, Concatenated
<1> DEFINE t == h \o s
<1>4. IsSequence(t) /\ Len(t) = Len(s) + 1 /\ DOMAIN t = 1 .. Len(s) + 1 /\ t[1] = x
  BY <1>1, <1>2, <1>3
<1>5. \A k \in 1 .. Len(s) : t[k + 1] = s[k]
  <2>1. \A k \in 1 .. Len(s) : t[1 + k] = s[k]
    BY <1>1, <1>3
  <2> HIDE DEF t
  <2> QED  BY <1>2, <2>1
<1>6. \A k \in 2 .. Len(s) + 1 : k - 1 \in 1 .. Len(s) /\ t[k] = s[k - 1]
  BY <1>1, <1>2, <1>3
<1>7. t = <<x>> \o s
  BY DEF h
<1> HIDE DEF t
<1> QED  BY <1>2, <1>4, <1>5, <1>6, <1>7

\* The first item is taken from a sequence.
LEMMA Popped ==
  ASSUME NEW s, IsSequence(s), s # <<>>
  PROVE  /\ Len(s) \in Nat \ {0} /\ DOMAIN s = 1 .. Len(s)
         /\ Head(s) = s[1]
         /\ IsSequence(Tail(s)) /\ Len(Tail(s)) = Len(s) - 1
         /\ DOMAIN Tail(s) = 1 .. Len(s) - 1
         /\ \A k \in 1 .. Len(s) - 1 : Tail(s)[k] = s[k + 1]
<1>1. Len(s) \in Nat /\ DOMAIN s = 1 .. Len(s) /\ s = [k \in 1 .. Len(s) |-> s[k]]
  BY SequenceDomain DEF IsSequence
<1>2. Len(s) # 0
  <2> SUFFICES ASSUME Len(s) = 0 PROVE FALSE
    OBVIOUS
  <2>1. s = [k \in 1 .. 0 |-> s[k]]
    BY <1>1
  <2>2. s = <<>>
    BY <2>1
  <2> QED  BY <2>2
<1> DEFINE T == {s[k] : k \in 1 .. Len(s)}
<1>3. s \in Seq(T)
  BY <1>1
<1> HIDE DEF T
<1>4. Tail(s) \in Seq(T) /\ Len(Tail(s)) = Len(s) - 1
      /\ \A k \in 1 .. Len(s) - 1 : Tail(s)[k] = s[k + 1]
  BY <1>1, <1>2, <1>3
<1>5. DOMAIN Tail(s) = 1 .. Len(s) - 1 /\ IsSequence(Tail(s))
  <2> DEFINE t == Tail(s)
  <2> HIDE DEF t
  <2>1. t \in Seq(T)
    BY <1>4 DEF t
  <2>2. t = [k \in 1 .. Len(t) |-> t[k]] /\ Len(t) \in Nat /\ DOMAIN t = 1 .. Len(t)
    BY <2>1
  <2> QED  BY <1>4, <2>2 DEF IsSequence, t
<1>6. Head(s) = s[1]
  BY <1>1, <1>2, <1>3
<1> QED  BY <1>1, <1>2, <1>4, <1>5, <1>6

\* There is one empty sequence.
LEMMA EmptySequence ==
  ASSUME NEW s, IsSequence(s), Len(s) = 0
  PROVE  s = <<>>
<1>1. s = [k \in 1 .. 0 |-> s[k]]
  BY DEF IsSequence
<1> QED  BY <1>1

\* Witnesses are only asked for where there can be some.
LEMMA NeedsNodes ==
  ASSUME NEW p, WellFormed(p), NEW F, IsFunction(p, F), NEW i \in DOMAIN F.body
  PROVE  /\ IsSequence(Needs(F, F.body[i]))
         /\ \A n \in DOMAIN Needs(F, F.body[i]) : IsNode(F, Needs(F, F.body[i])[n])
<1> DEFINE ins == F.body[i]
           needs == Needs(F, ins)
<1>1. ASSUME NEW o, IsValue(F, o, i), IsPointer(o)
      PROVE  IsNode(F, o)
  BY <1>1, ValueTyped
<1>2. ASSUME NEW o, needs = <<o>>, IsValue(F, o, i), IsPointer(o)
      PROVE  IsSequence(needs) /\ \A n \in DOMAIN needs : IsNode(F, needs[n])
  <2>1. IsSequence(needs) /\ Len(needs) = 1 /\ needs[1] = o
    BY <1>2, ShortSequences
  <2>2. DOMAIN needs = 1 .. 1
    BY <2>1, SequenceDomain
  <2>3. IsNode(F, o)
    BY <1>1, <1>2
  <2> HIDE DEF needs
  <2> QED  BY <2>1, <2>2, <2>3
<1>3. ASSUME needs = <<>>
      PROVE  IsSequence(needs) /\ \A n \in DOMAIN needs : IsNode(F, needs[n])
  <2>1. IsSequence(needs) /\ Len(needs) = 0
    BY <1>3, ShortSequences
  <2>2. DOMAIN needs = {}
    BY <1>3
  <2> QED  BY <2>1, <2>2
<1>4. CASE ins.op = "access"
  <2>1. IsValueOf(F, ins.val, i, Pointer)
    BY <1>4, Instructions
  <2>2. needs = <<ins.val>> /\ IsValue(F, ins.val, i)
    BY <1>4, <2>1 DEF Needs, IsValueOf
  <2>3. IsPointer(ins.val)
    BY <2>1, PointerValues
  <2> QED  BY <1>2, <2>2, <2>3
<1>5. CASE ins.op = "ret"
  <2>1. IsValueOf(F, ins.val, i, F.ret)
    BY <1>5, Instructions
  <2>2. CASE ContainsPointer(F.ret)
    <3>1. F.ret # Integer
      BY <2>2, PointerIsType DEF ContainsPointer
    <3>2. needs = <<ins.val>> /\ IsValue(F, ins.val, i)
      BY <1>5, <2>1, <2>2 DEF Needs, NeedsOfReturn, IsValueOf
    <3>3. IsPointer(ins.val)
      BY <2>1, <3>1, PointerValues
    <3> QED  BY <1>2, <3>2, <3>3
  <2>3. CASE ~ContainsPointer(F.ret)
    <3>1. needs = <<>>
      BY <1>5, <2>3 DEF Needs, NeedsOfReturn
    <3> QED  BY <1>3, <3>1
  <2> QED  BY <2>2, <2>3
<1>6. CASE ins.op = "insert"
  <2>1. IsValue(F, ins.val, i)
    BY <1>6, Instructions DEF IsValueOf
  <2>2. CASE IsPointer(ins.val)
    <3>1. needs = <<ins.val>>
      BY <1>6, <2>2 DEF Needs, NeedsOfInsert
    <3> QED  BY <1>2, <2>1, <2>2, <3>1
  <2>3. CASE ~IsPointer(ins.val)
    <3>1. needs = <<>>
      BY <1>6, <2>3 DEF Needs, NeedsOfInsert
    <3> QED  BY <1>3, <3>1
  <2> QED  BY <2>2, <2>3
<1>7. CASE ins.op = "call"
  <2> DEFINE pointers == Ascending(PointerArguments(ins))
  <2>1. IsFiniteSet(PointerArguments(ins)) /\ PointerArguments(ins) \subseteq Int
    BY <1>7, CallSlots
  <2>2. /\ DOMAIN pointers = 1 .. Cardinality(PointerArguments(ins))
        /\ Cardinality(PointerArguments(ins)) \in Nat
        /\ \A n \in DOMAIN pointers : pointers[n] \in PointerArguments(ins)
    BY <2>1, AscendingLists
  <2>3. needs = [n \in DOMAIN pointers |-> ins.args[pointers[n]]]
    BY <1>7 DEF Needs, NeedsOfCall
  <2> HIDE DEF pointers
  <2>4. IsSequence(needs)
    <3> HIDE DEF needs
    <3>1. DOMAIN needs = 1 .. Cardinality(PointerArguments(ins))
          /\ needs = [n \in 1 .. Cardinality(PointerArguments(ins)) |-> needs[n]]
      BY <2>2, <2>3
    <3> QED  BY <2>2, <3>1, FunctionIsSequence
  <2>5. ASSUME NEW n \in DOMAIN needs  PROVE IsNode(F, needs[n])
    <3>1. needs[n] = ins.args[pointers[n]] /\ pointers[n] \in PointerArguments(ins)
      BY <2>2, <2>3
    <3>2. IsValue(F, ins.args[pointers[n]], i)
      BY <1>7, <3>1, CallInstruction DEF IsValueOf, PointerArguments
    <3> QED  BY <1>1, <3>1, <3>2 DEF PointerArguments
  <2> QED  BY <2>4, <2>5
<1>8. CASE ins.op \notin {"access", "call", "ret", "insert"}
  <2>1. needs = <<>>
    BY <1>8 DEF Needs
  <2> QED  BY <1>3, <2>1
<1> QED  BY <1>4, <1>5, <1>6, <1>7, <1>8

\* Programs are well-formed.
LEMMA ProgramsFit ==
  ASSUME prog \in Programs
  PROVE  WellFormed(prog) /\ \A f \in Function : IsFunction(prog, prog[f])
BY ProgramAssumption DEF WellFormed

\* The instructions of a function are numbered.
LEMMA BodyFits ==
  ASSUME prog \in Programs, NEW f \in Function
  PROVE  /\ DOMAIN prog[f].body = 1 .. Len(prog[f].body)
         /\ Len(prog[f].body) \in Nat
BY ProgramsFit DEF IsFunction

\* The invariant of the pass holds when it starts.
LEMMA PassStarts ==
  ASSUME PassInit
  PROVE  PassInv
<1>1. prog \in Programs /\ left = {f \in Function : HasBody(f)} /\ now \in left
      /\ step = "witnesses" /\ calls = <<>> /\ at = 0
  BY DEF PassInit, HasBody
<1>2. PassTypes
  BY <1>1 DEF PassInit, PassTypes
<1>3. CallsInv
  <2>1. IsSequence(calls) /\ DOMAIN calls = {}
    BY <1>1, ShortSequences
  <2>2. Len(Current.body) \in Nat
    BY <1>1, BodyFits DEF Current
  <2> QED  BY <1>1, <2>1, <2>2 DEF CallsInv
<1>4. ASSUME NEW f \in Function, HasBody(f)
      PROVE  Layout(prog[f], code[f], made[f], HandledUpTo(f))
  <2>1. HandledUpTo(f) = 1
    BY <1>1, <1>4 DEF HandledUpTo
  <2>2. code[f] = [i \in DOMAIN prog[f].body |-> <<>>] /\ made[f] = <<>>
    BY DEF PassInit
  <2> DEFINE c == code[f]
             m == made[f]
  <2>3. c = [i \in DOMAIN prog[f].body |-> c[i]]
        /\ \A i \in DOMAIN prog[f].body : c[i] = <<>>
    BY <2>2
  <2>4. DOMAIN m = {} /\ m = [o \in DOMAIN m |-> m[o]]
    BY <2>2
  <2> HIDE DEF c, m
  <2>5. \A i \in DOMAIN prog[f].body : IsSequence(c[i]) /\ DOMAIN c[i] = {}
    <3>1. IsSequence(<<>>) /\ DOMAIN <<>> = {}
      BY ShortSequences
    <3> QED  BY <2>3, <3>1
  <2>6. WitnessesFit(prog[f], m) /\ SourcesAreFilled(prog[f], c, m)
    BY <2>4 DEF WitnessesFit, SourcesAreFilled
  <2>7. \A i \in DOMAIN prog[f].body : ~(i < 1)
    BY <1>1, BodyFits
  <2>8. Layout(prog[f], c, m, 1)
    BY <2>3, <2>5, <2>6, <2>7 DEF Layout, IsOrdered
  <2> QED  BY <2>1, <2>8 DEF c, m
<1> QED  BY <1>1, <1>2, <1>3, <1>4 DEF PassInv

\* The code and the witnesses of the functions stay.
SameCode == UNCHANGED <<prog, code, made>>

\* A step that inserts nothing keeps every layout.
LEMMA LayoutsStay ==
  ASSUME PassInv, SameCode, \A f \in Function : HasBody(f) => HandledUpTo(f)' = HandledUpTo(f)
  PROVE  \A f \in Function : HasBody(f)' =>
           Layout(prog[f], code[f], made[f], HandledUpTo(f))'
<1> SUFFICES ASSUME NEW f \in Function, HasBody(f)'
             PROVE  Layout(prog[f], code[f], made[f], HandledUpTo(f))'
  OBVIOUS
<1>1. HasBody(f) /\ prog' = prog /\ code' = code /\ made' = made
  BY DEF HasBody, SameCode
<1>2. Layout(prog[f], code[f], made[f], HandledUpTo(f))
  BY <1>1 DEF PassInv
<1>3. HandledUpTo(f)' = HandledUpTo(f)
  BY <1>1
<1> QED  BY <1>1, <1>2, <1>3

\* The next target asks for witnesses of values.
LEMMA NextTargetKeeps ==
  ASSUME PassInv, NextTarget
  PROVE  PassInv'
<1>1. /\ prog \in Programs /\ now \in Function /\ step = "witnesses" /\ calls = <<>>
      /\ at < Len(Current.body) /\ at' = at + 1
      /\ calls' = Needs(Current, Current.body[at + 1])
      /\ prog' = prog /\ code' = code /\ made' = made /\ left' = left /\ step' = step
      /\ now' = now /\ Current' = Current
  BY DEF PassInv, PassTypes, NextTarget, Current
<1>2. at \in 0 .. Len(Current.body) /\ \A i \in 1 .. at : NeedsComing(i)
  BY <1>1 DEF PassInv, CallsInv
<1>3. /\ DOMAIN Current.body = 1 .. Len(Current.body) /\ Len(Current.body) \in Nat
      /\ WellFormed(prog) /\ IsFunction(prog, Current)
  BY <1>1, BodyFits, ProgramsFit DEF Current
<1>4. PassTypes'
  BY <1>1 DEF PassInv, PassTypes, HasBody
<1>5. CallsInv'
  <2>1. at + 1 \in DOMAIN Current.body /\ at' \in 0 .. Len(Current.body)
    BY <1>1, <1>2, <1>3
  <2>2. IsSequence(calls') /\ \A n \in DOMAIN calls' : IsNode(Current, calls'[n])
    BY <1>1, <1>3, <2>1, NeedsNodes
  <2>3. ASSUME NEW i \in 1 .. at'  PROVE NeedsComing(i)'
    <3>1. CASE i = at + 1
      <4>1. \A n \in DOMAIN calls' : \E l \in DOMAIN calls' : calls'[l] = calls'[n]
        OBVIOUS
      <4> QED  BY <1>1, <3>1, <4>1 DEF NeedsComing
    <3>2. CASE i # at + 1
      <4>1. i \in 1 .. at
        BY <1>1, <1>2, <3>2
      <4>2. DOMAIN calls = {}
        BY <1>1
      <4>3. NeedsComing(i)
        BY <1>2, <4>1
      <4> QED  BY <1>1, <4>2, <4>3 DEF NeedsComing
    <3> QED  BY <3>1, <3>2
  <2> QED  BY <1>1, <2>1, <2>2, <2>3 DEF CallsInv
<1>6. \A f \in Function : HasBody(f) => HandledUpTo(f)' = HandledUpTo(f)
  BY <1>1 DEF HandledUpTo
<1>7. SameCode
  BY <1>1 DEF SameCode
<1> QED  BY <1>1, <1>4, <1>5, <1>6, <1>7, LayoutsStay DEF PassInv, HasBody

\* A request for a witness that exists is met.
LEMMA WitnessExistsKeeps ==
  ASSUME PassInv, WitnessExists
  PROVE  PassInv'
<1>1. /\ step = "witnesses" /\ calls # <<>> /\ Head(calls) \in DOMAIN made[now]
      /\ calls' = Tail(calls)
      /\ prog' = prog /\ code' = code /\ made' = made /\ left' = left /\ step' = step
      /\ now' = now /\ at' = at /\ Current' = Current
  BY DEF PassInv, PassTypes, WitnessExists, Current, IsRequested, Requested, HasWitness
<1>2. /\ IsSequence(calls) /\ at \in 0 .. Len(Current.body)
      /\ \A i \in 1 .. at : NeedsComing(i)
      /\ \A n \in DOMAIN calls : IsNode(Current, calls[n])
  BY <1>1 DEF PassInv, CallsInv
<1>3. /\ Len(calls) \in Nat \ {0} /\ DOMAIN calls = 1 .. Len(calls)
      /\ Head(calls) = calls[1]
      /\ IsSequence(calls') /\ DOMAIN calls' = 1 .. Len(calls) - 1
      /\ \A k \in 1 .. Len(calls) - 1 : calls'[k] = calls[k + 1]
  BY <1>1, <1>2, Popped
<1>4. PassTypes'
  BY <1>1 DEF PassInv, PassTypes, HasBody
<1>5. CallsInv'
  <2>1. ASSUME NEW n \in DOMAIN calls'  PROVE IsNode(Current, calls'[n])
    <3>1. n + 1 \in DOMAIN calls /\ calls'[n] = calls[n + 1]
      BY <1>3
    <3> QED  BY <1>2, <3>1
  <2>2. ASSUME NEW i \in 1 .. at'  PROVE NeedsComing(i)'
    <3>1. NeedsComing(i)
      BY <1>1, <1>2
    <3> SUFFICES ASSUME NEW n \in DOMAIN Needs(Current, Current.body[i]),
                        Needs(Current, Current.body[i])[n] \notin DOMAIN made[now]
                 PROVE  \E l \in DOMAIN calls' :
                          calls'[l] = Needs(Current, Current.body[i])[n]
      BY <1>1 DEF NeedsComing
    <3>2. PICK l \in DOMAIN calls : calls[l] = Needs(Current, Current.body[i])[n]
      BY <3>1 DEF NeedsComing
    <3>3. l # 1
      BY <1>1, <1>3, <3>2
    <3>4. l - 1 \in 1 .. Len(calls) - 1 /\ calls'[l - 1] = calls[l]
      BY <1>3, <3>3
    <3> QED  BY <1>3, <3>2, <3>4
  <2> QED  BY <1>1, <1>2, <1>3, <2>1, <2>2 DEF CallsInv
<1>6. \A f \in Function : HasBody(f) => HandledUpTo(f)' = HandledUpTo(f)
  BY <1>1 DEF HandledUpTo
<1>7. SameCode
  BY <1>1 DEF SameCode
<1> QED  BY <1>1, <1>4, <1>5, <1>6, <1>7, LayoutsStay DEF PassInv, HasBody

\* A request for a requirement comes first.
LEMMA CreateRequirementKeeps ==
  ASSUME PassInv, CreateRequirement
  PROVE  PassInv'
<1>1. /\ step = "witnesses" /\ calls # <<>> /\ prog \in Programs /\ now \in Function
      /\ prog' = prog /\ code' = code /\ made' = made /\ left' = left /\ step' = step
      /\ now' = now /\ at' = at /\ Current' = Current
  BY DEF PassInv, PassTypes, CreateRequirement, Current, IsRequested
<1>2. /\ IsSequence(calls) /\ at \in 0 .. Len(Current.body)
      /\ \A i \in 1 .. at : NeedsComing(i)
      /\ \A n \in DOMAIN calls : IsNode(Current, calls[n])
  BY <1>1 DEF PassInv, CallsInv
<1>3. PICK n \in DOMAIN Uses(Current, Requested) :
        calls' = <<Uses(Current, Requested)[n]>> \o calls
  BY DEF CreateRequirement
<1> DEFINE o == Uses(Current, Requested)[n]
<1>4. IsNode(Current, o)
  <2>1. IsNode(Current, Requested)
    <3>1. Head(calls) = calls[1] /\ Len(calls) \in Nat \ {0} /\ DOMAIN calls = 1 .. Len(calls)
      BY <1>1, <1>2, Popped
    <3>2. 1 \in DOMAIN calls
      BY <3>1
    <3> QED  BY <1>2, <3>1, <3>2 DEF Requested
  <2>2. WellFormed(prog) /\ IsFunction(prog, Current)
    BY <1>1, ProgramsFit DEF Current
  <2> QED  BY <2>1, <2>2, UsesNodes
<1> HIDE DEF o
<1>5. calls' = <<o>> \o calls
  BY <1>3 DEF o
<1>6. /\ IsSequence(calls') /\ DOMAIN calls' = 1 .. Len(calls) + 1 /\ Len(calls) \in Nat
      /\ calls'[1] = o
      /\ \A k \in 1 .. Len(calls) : calls'[k + 1] = calls[k]
      /\ \A k \in 2 .. Len(calls) + 1 : k - 1 \in 1 .. Len(calls) /\ calls'[k] = calls[k - 1]
      /\ DOMAIN calls = 1 .. Len(calls)
  <2> DEFINE t == <<o>> \o calls
  <2>1. /\ IsSequence(t) /\ DOMAIN t = 1 .. Len(calls) + 1 /\ Len(calls) \in Nat
        /\ t[1] = o
        /\ \A k \in 1 .. Len(calls) : t[k + 1] = calls[k]
        /\ \A k \in 2 .. Len(calls) + 1 : k - 1 \in 1 .. Len(calls) /\ t[k] = calls[k - 1]
    BY <1>2, Pushed
  <2>2. DOMAIN calls = 1 .. Len(calls)
    BY <1>2, SequenceDomain
  <2>3. calls' = t
    BY <1>5
  <2> HIDE DEF t
  <2> QED  BY <2>1, <2>2, <2>3
<1>7. PassTypes'
  BY <1>1 DEF PassInv, PassTypes, HasBody
<1>8. CallsInv'
  <2>1. ASSUME NEW k \in DOMAIN calls'  PROVE IsNode(Current, calls'[k])
    <3>1. CASE k = 1
      BY <1>4, <1>6, <3>1
    <3>2. CASE k # 1
      <4>1. k \in 2 .. Len(calls) + 1
        BY <1>6, <3>2
      <4>2. k - 1 \in DOMAIN calls /\ calls'[k] = calls[k - 1]
        BY <1>6, <4>1
      <4> QED  BY <1>2, <4>2
    <3> QED  BY <3>1, <3>2
  <2>2. ASSUME NEW i \in 1 .. at'  PROVE NeedsComing(i)'
    <3>1. NeedsComing(i)
      BY <1>1, <1>2
    <3> SUFFICES ASSUME NEW q \in DOMAIN Needs(Current, Current.body[i]),
                        Needs(Current, Current.body[i])[q] \notin DOMAIN made[now]
                 PROVE  \E l \in DOMAIN calls' :
                          calls'[l] = Needs(Current, Current.body[i])[q]
      BY <1>1 DEF NeedsComing
    <3>2. PICK l \in DOMAIN calls : calls[l] = Needs(Current, Current.body[i])[q]
      BY <3>1 DEF NeedsComing
    <3>3. l + 1 \in DOMAIN calls' /\ calls'[l + 1] = calls[l]
      BY <1>6
    <3> QED  BY <3>2, <3>3
  <2> QED  BY <1>1, <1>2, <1>6, <2>1, <2>2 DEF CallsInv
<1>9. \A f \in Function : HasBody(f) => HandledUpTo(f)' = HandledUpTo(f)
  BY <1>1 DEF HandledUpTo
<1>10. SameCode
  BY <1>1 DEF SameCode
<1> QED  BY <1>1, <1>7, <1>8, <1>9, <1>10, LayoutsStay DEF PassInv, HasBody

\* Once all targets were seen, every instruction has its witnesses.
LEMMA WitnessesDoneKeeps ==
  ASSUME PassInv, WitnessesDone
  PROVE  PassInv'
<1>1. /\ step = "witnesses" /\ step' = "invariants" /\ prog \in Programs /\ now \in Function
      /\ prog' = prog /\ code' = code /\ made' = made /\ left' = left /\ now \in left
      /\ now' = now /\ at = Len(Current.body) /\ at' = 1 /\ Current' = Current
      /\ calls = <<>> /\ calls' = calls
  BY DEF PassInv, PassTypes, WitnessesDone, Current
<1>2. IsSequence(calls) /\ \A i \in 1 .. at : NeedsComing(i)
  BY <1>1 DEF PassInv, CallsInv
<1>3. DOMAIN Current.body = 1 .. Len(Current.body) /\ Len(Current.body) \in Nat
  BY <1>1, BodyFits DEF Current
<1>4. PassTypes'
  BY <1>1 DEF PassInv, PassTypes, HasBody
<1>5. CallsInv'
  <2>1. DOMAIN calls = {}
    BY <1>1
  <2>2. \A i \in DOMAIN Current.body : NeedsMet(Current, made[now], i)
    BY <1>1, <1>2, <1>3, <2>1 DEF NeedsComing, NeedsMet
  <2>3. at' \in 1 .. Len(Current.body) + 1
    BY <1>1, <1>3
  <2> QED  BY <1>1, <1>2, <2>1, <2>2, <2>3 DEF CallsInv
<1>6. \A f \in Function : HasBody(f) => HandledUpTo(f)' = HandledUpTo(f)
  BY <1>1 DEF HandledUpTo
<1>7. SameCode
  BY <1>1 DEF SameCode
<1> QED  BY <1>1, <1>4, <1>5, <1>6, <1>7, LayoutsStay DEF PassInv, HasBody

\* A witness is created from its requirements.
LEMMA InsertWitnessesKeeps ==
  ASSUME PassInv, InsertWitnesses
  PROVE  PassInv'
<1> DEFINE o == Requested
           m2 == Updated(made[now], o, Witness(Current, made[now], o))
           c2 == InsertBefore(code[now], Location(Current, o), WitnessCode(Current, made[now], o))
<1>1. /\ step = "witnesses" /\ calls # <<>> /\ prog \in Programs /\ now \in Function
      /\ now \in left /\ HasBody(now) /\ step' = step
      /\ prog' = prog /\ left' = left /\ now' = now /\ at' = at /\ Current' = Current
      /\ calls' = Tail(calls) /\ o \notin DOMAIN made[now]
      /\ \A n \in DOMAIN Uses(Current, o) : Uses(Current, o)[n] \in DOMAIN made[now]
  BY DEF PassInv, PassTypes, InsertWitnesses, Current, IsRequested, HasWitness
<1>2. /\ made' = [made EXCEPT ![now] = m2] /\ code' = [code EXCEPT ![now] = c2]
  BY DEF InsertWitnesses, Updated
<1>3. /\ IsSequence(calls) /\ at \in 0 .. Len(Current.body)
      /\ \A i \in 1 .. at : NeedsComing(i)
      /\ \A n \in DOMAIN calls : IsNode(Current, calls[n])
  BY <1>1 DEF PassInv, CallsInv
<1>4. /\ Len(calls) \in Nat \ {0} /\ DOMAIN calls = 1 .. Len(calls)
      /\ o = calls[1]
      /\ IsSequence(calls') /\ DOMAIN calls' = 1 .. Len(calls) - 1
      /\ \A k \in 1 .. Len(calls) - 1 : calls'[k] = calls[k + 1]
  BY <1>1, <1>3, Popped DEF Requested
<1>5. IsNode(Current, o) /\ WellFormed(prog) /\ IsFunction(prog, Current)
      /\ Current.body # <<>>
  <2>1. 1 \in DOMAIN calls
    BY <1>4
  <2> QED  BY <1>1, <1>3, <1>4, <2>1, ProgramsFit DEF Current, HasBody
<1>6. Layout(Current, code[now], made[now], 1)
  BY <1>1 DEF PassInv, HandledUpTo, Current
<1> HIDE DEF o
<1>7. Layout(Current, c2, m2, 1)
  BY <1>1, <1>5, <1>6, InsertKeeps
<1>8. o \in DOMAIN m2 /\ DOMAIN made[now] \subseteq DOMAIN m2
  BY DEF Updated
<1> HIDE DEF m2, c2
<1>9. /\ code' = [f \in Function |-> code'[f]] /\ made' = [f \in Function |-> made'[f]]
      /\ code'[now] = c2 /\ made'[now] = m2
      /\ \A f \in Function \ {now} : code'[f] = code[f] /\ made'[f] = made[f]
  BY <1>1, <1>2 DEF PassInv, PassTypes
<1>10. PassTypes'
  BY <1>1, <1>9 DEF PassInv, PassTypes, HasBody
<1>11. CallsInv'
  <2>1. ASSUME NEW n \in DOMAIN calls'  PROVE IsNode(Current, calls'[n])
    <3>1. n + 1 \in DOMAIN calls /\ calls'[n] = calls[n + 1]
      BY <1>4
    <3> QED  BY <1>3, <3>1
  <2>2. ASSUME NEW i \in 1 .. at'  PROVE NeedsComing(i)'
    <3>1. NeedsComing(i)
      BY <1>1, <1>3
    <3> SUFFICES ASSUME NEW n \in DOMAIN Needs(Current, Current.body[i]),
                        Needs(Current, Current.body[i])[n] \notin DOMAIN m2
                 PROVE  \E l \in DOMAIN calls' :
                          calls'[l] = Needs(Current, Current.body[i])[n]
      BY <1>1, <1>9 DEF NeedsComing
    <3>2. PICK l \in DOMAIN calls : calls[l] = Needs(Current, Current.body[i])[n]
      BY <1>8, <3>1 DEF NeedsComing
    <3>3. l # 1
      BY <1>4, <1>8, <3>2
    <3>4. l - 1 \in 1 .. Len(calls) - 1 /\ calls'[l - 1] = calls[l]
      BY <1>4, <3>3
    <3> QED  BY <1>4, <3>2, <3>4
  <2> QED  BY <1>1, <1>3, <1>4, <2>1, <2>2 DEF CallsInv
<1>12. ASSUME NEW f \in Function, HasBody(f)'
       PROVE  Layout(prog[f], code[f], made[f], HandledUpTo(f))'
  <2>1. HasBody(f) /\ HandledUpTo(f)' = HandledUpTo(f)
    BY <1>1, <1>12 DEF HasBody, HandledUpTo
  <2>2. CASE f = now
    <3>1. HandledUpTo(f) = 1
      BY <1>1, <2>2 DEF HandledUpTo
    <3> QED  BY <1>1, <1>7, <1>9, <2>1, <2>2, <3>1 DEF Current
  <2>3. CASE f # now
    <3>1. Layout(prog[f], code[f], made[f], HandledUpTo(f))
      BY <2>1 DEF PassInv
    <3> QED  BY <1>1, <1>9, <2>1, <2>3, <3>1
  <2> QED  BY <2>2, <2>3
<1>13. (\A f \in Function \ left : HasBody(f) =>
         \A i \in DOMAIN prog[f].body : NeedsMet(prog[f], made[f], i))'
  BY <1>1, <1>9 DEF PassInv, HasBody
<1> QED  BY <1>10, <1>11, <1>12, <1>13 DEF PassInv

\* A call or return is handled.
LEMMA HandleInvariantKeeps ==
  ASSUME PassInv, HandleInvariant
  PROVE  PassInv'
<1> DEFINE c2 == Handled(Current, made[now], code[now], at)
<1>1. /\ step = "invariants" /\ prog \in Programs /\ now \in Function
      /\ now \in left /\ HasBody(now) /\ step' = step
      /\ prog' = prog /\ left' = left /\ now' = now /\ at' = at + 1 /\ Current' = Current
      /\ calls' = calls /\ made' = made /\ at <= Len(Current.body)
  BY DEF PassInv, PassTypes, HandleInvariant, Current
<1>2. code' = [code EXCEPT ![now] = c2]
  BY DEF HandleInvariant
<1>3. /\ IsSequence(calls) /\ at \in 1 .. Len(Current.body) + 1 /\ calls = <<>>
      /\ \A n \in DOMAIN calls : IsNode(Current, calls[n])
      /\ \A i \in DOMAIN Current.body : NeedsMet(Current, made[now], i)
  BY <1>1 DEF PassInv, CallsInv
<1>4. /\ DOMAIN Current.body = 1 .. Len(Current.body) /\ Len(Current.body) \in Nat
      /\ WellFormed(prog) /\ IsFunction(prog, Current) /\ Current.body # <<>>
  BY <1>1, BodyFits, ProgramsFit DEF Current, HasBody
<1>5. at \in DOMAIN Current.body /\ at + 1 \in 1 .. Len(Current.body) + 1
  BY <1>1, <1>3, <1>4
<1>6. Layout(Current, code[now], made[now], at)
  BY <1>1 DEF PassInv, HandledUpTo, Current
<1>7. Layout(Current, c2, made[now], at + 1)
  BY <1>3, <1>4, <1>5, <1>6, HandleKeeps
<1> HIDE DEF c2
<1>8. /\ code' = [f \in Function |-> code'[f]]
      /\ code'[now] = c2
      /\ \A f \in Function \ {now} : code'[f] = code[f]
  BY <1>1, <1>2 DEF PassInv, PassTypes
<1>9. PassTypes'
  BY <1>1, <1>8 DEF PassInv, PassTypes, HasBody
<1>10. CallsInv'
  BY <1>1, <1>3, <1>5 DEF CallsInv
<1>11. ASSUME NEW f \in Function, HasBody(f)'
       PROVE  Layout(prog[f], code[f], made[f], HandledUpTo(f))'
  <2>1. HasBody(f)
    BY <1>1, <1>11 DEF HasBody
  <2>2. CASE f = now
    <3>1. HandledUpTo(f)' = at + 1
      BY <1>1, <2>2 DEF HandledUpTo
    <3> QED  BY <1>1, <1>7, <1>8, <2>1, <2>2, <3>1 DEF Current
  <2>3. CASE f # now
    <3>1. Layout(prog[f], code[f], made[f], HandledUpTo(f))
      BY <2>1 DEF PassInv
    <3>2. HandledUpTo(f)' = HandledUpTo(f)
      BY <1>1, <2>3 DEF HandledUpTo
    <3> QED  BY <1>1, <1>8, <2>1, <2>3, <3>1, <3>2
  <2> QED  BY <2>2, <2>3
<1>12. (\A f \in Function \ left : HasBody(f) =>
         \A i \in DOMAIN prog[f].body : NeedsMet(prog[f], made[f], i))'
  BY <1>1 DEF PassInv, HasBody
<1> QED  BY <1>9, <1>10, <1>11, <1>12 DEF PassInv

\* The function is instrumented; the next one starts without witnesses.
LEMMA NextFunctionKeeps ==
  ASSUME PassInv, NextFunction
  PROVE  PassInv'
<1>1. /\ step = "invariants" /\ prog \in Programs /\ now \in Function
      /\ now \in left /\ prog' = prog /\ left' = left \ {now} /\ at' = 0
      /\ calls' = calls /\ made' = made /\ code' = code /\ at > Len(Current.body)
      /\ left \subseteq Function /\ \A f \in left : HasBody(f)
  BY DEF PassInv, PassTypes, NextFunction
<1>2. IF left' = {} THEN step' = "done" /\ now' = now
                    ELSE step' = "witnesses" /\ now' \in left'
  BY DEF NextFunction
<1>3. /\ at \in 1 .. Len(Current.body) + 1 /\ calls = <<>>
      /\ \A i \in DOMAIN Current.body : NeedsMet(Current, made[now], i)
  BY <1>1 DEF PassInv, CallsInv
<1>4. at = Len(Current.body) + 1
  BY <1>1, <1>3, BodyFits DEF Current
<1>5. PassTypes'
  BY <1>1, <1>2 DEF PassInv, PassTypes, HasBody
<1>6. CallsInv'
  <2>1. IsSequence(calls') /\ DOMAIN calls' = {}
    BY <1>1, <1>3, ShortSequences
  <2>2. step' # "invariants"
    BY <1>2
  <2>3. step' = "witnesses" => at' \in 0 .. Len(Current.body)' /\ 1 .. at' = {}
    <3>1. 1 .. at' = {}
      BY <1>1
    <3>2. step' = "witnesses" => now' \in Function
      BY <1>1, <1>2
    <3>3. step' = "witnesses" => Len(Current.body)' \in Nat
      BY <1>1, <3>2, BodyFits DEF Current
    <3> QED  BY <1>1, <3>1, <3>3
  <2> QED  BY <2>1, <2>2, <2>3 DEF CallsInv
<1>7. \A f \in Function : HasBody(f) => HandledUpTo(f)' = HandledUpTo(f)
  <2> SUFFICES ASSUME NEW f \in Function  PROVE HandledUpTo(f)' = HandledUpTo(f)
    OBVIOUS
  <2>1. CASE f = now
    BY <1>1, <1>4, <2>1 DEF HandledUpTo, Current
  <2>2. CASE f # now
    BY <1>1, <1>2, <2>2 DEF HandledUpTo
  <2> QED  BY <2>1, <2>2
<1>8. (\A f \in Function \ left : HasBody(f) =>
         \A i \in DOMAIN prog[f].body : NeedsMet(prog[f], made[f], i))'
  <2> SUFFICES ASSUME NEW f \in Function \ left', HasBody(f),
                      NEW i \in DOMAIN prog[f].body
               PROVE  NeedsMet(prog[f], made[f], i)
    BY <1>1 DEF HasBody
  <2>1. CASE f = now
    BY <1>3, <2>1 DEF Current
  <2>2. CASE f # now
    BY <1>1, <2>2 DEF PassInv
  <2> QED  BY <2>1, <2>2
<1>9. SameCode
  BY <1>1 DEF SameCode
<1> QED  BY <1>5, <1>6, <1>7, <1>8, <1>9, LayoutsStay DEF PassInv

\* Every step of the pass keeps its invariant.
LEMMA PassKeeps ==
  ASSUME PassInv, PassNext
  PROVE  PassInv'
<1>1. CASE NextTarget
  BY <1>1, NextTargetKeeps
<1>2. CASE WitnessExists
  BY <1>2, WitnessExistsKeeps
<1>3. CASE CreateRequirement
  BY <1>3, CreateRequirementKeeps
<1>4. CASE InsertWitnesses
  BY <1>4, InsertWitnessesKeeps
<1>5. CASE WitnessesDone
  BY <1>5, WitnessesDoneKeeps
<1>6. CASE HandleInvariant
  BY <1>6, HandleInvariantKeeps
<1>7. CASE NextFunction
  BY <1>7, NextFunctionKeeps
<1> QED  BY <1>1, <1>2, <1>3, <1>4, <1>5, <1>6, <1>7 DEF PassNext

\* So does a step of anything else.
LEMMA PassStays ==
  ASSUME PassInv, UNCHANGED passVars
  PROVE  PassInv'
<1>1. /\ prog' = prog /\ code' = code /\ made' = made /\ left' = left /\ step' = step
      /\ now' = now /\ at' = at /\ calls' = calls
  BY DEF passVars
<1>2. Current' = Current /\ \A f \in Function : HandledUpTo(f)' = HandledUpTo(f)
      /\ HasBody(f)' = HasBody(f)
  BY <1>1 DEF Current, HandledUpTo, HasBody
<1>3. PassTypes'
  BY <1>1 DEF PassInv, PassTypes, HasBody
<1>4. CallsInv'
  BY <1>1, <1>2 DEF PassInv, CallsInv, NeedsComing
<1> QED  BY <1>1, <1>2, <1>3, <1>4 DEF PassInv

-----------------------------------------------------------------------------
(* The pass                                                                 *)

RunNext ==
  \/ AllocateShadowStack \/ DeallocateShadowStack
  \/ StoreShadowStack \/ LoadShadowStack \/ ChooseWitness
  \/ Access \/ Branch \/ Select \/ ExtractValue \/ InsertValue
  \/ Call \/ CallWrapper \/ Return

\* The program runs when the pass is done, and does not change what it did.
LEMMA RunNextRuns ==
  ASSUME RunNext
  PROVE  step = "done" /\ UNCHANGED passVars
BY DEF RunNext, AllocateShadowStack, DeallocateShadowStack, StoreShadowStack,
       LoadShadowStack, ChooseWitness, Access, Branch, Select, ExtractValue, InsertValue,
       Call, CallWrapper, Return, Running, Executes, IsRunning

\* What the pass inserts is laid out as PassInv says, in every program, after
\* each step, and the program that runs changes nothing of it.
THEOREM PassIsRight == Spec => []PassInv
<1>1. Init => PassInv
  BY PassStarts DEF Init
<1>2. PassInv /\ [Next]_vars => PassInv'
  <2> SUFFICES ASSUME PassInv, [Next]_vars  PROVE PassInv'
    OBVIOUS
  <2>1. CASE PassNext
    BY <2>1, PassKeeps
  <2>2. CASE RunNext
    BY <2>2, RunNextRuns, PassStays
  <2>3. CASE UNCHANGED vars
    BY <2>3, PassStays DEF vars
  <2> QED  BY <2>1, <2>2, <2>3 DEF Next, RunNext
<1> QED  BY <1>1, <1>2, PTL DEF Spec

-----------------------------------------------------------------------------
(* Programs whose loads are right after the call                            *)

\* No select follows a call immediately.
SelectsApart(F) ==
  \A i \in DOMAIN F.body : i > 1 /\ F.body[i].op = "select" => F.body[i - 1].op # "call"

NoSelectFollowsCall == \A f \in Function : HasBody(f) => SelectsApart(prog[f])

StartsWithLoads(s) ==
  \A k \in DOMAIN s : s[k].op = "load" => \A q \in 1 .. k - 1 : s[q].op = "load"

\* Wherever code is inserted in front of an instruction other than the first, loads come
\* before everything else.
LoadsFirst(c) ==
  \A i \in DOMAIN c \ {1} : \A k \in DOMAIN c[i] :
    c[i][k].op = "load" => \A q \in 1 .. k - 1 : c[i][q].op = "load"

\* Nothing but loads is appended, or no load.
LEMMA LoadsAppended ==
  ASSUME NEW s, NEW t, IsSequence(s), IsSequence(t), StartsWithLoads(s),
         \/ \A k \in DOMAIN t : t[k].op # "load"
         \/ /\ \A k \in DOMAIN s : s[k].op = "load"
            /\ \A k \in DOMAIN t : t[k].op = "load"
  PROVE  StartsWithLoads(s \o t)
<1> DEFINE u == s \o t
           n == Len(s)
           l == Len(t)
<1>1. /\ n \in Nat /\ DOMAIN s = 1 .. n /\ l \in Nat /\ DOMAIN t = 1 .. l
  BY SequenceDomain
<1>2. /\ DOMAIN u = 1 .. n + l
      /\ \A k \in 1 .. n : u[k] = s[k]
      /\ \A k \in 1 .. n + l : k > n => k - n \in 1 .. l /\ u[k] = t[k - n]
  BY Concatenated
<1> HIDE DEF u, n, l
<1>3. ASSUME NEW k \in DOMAIN u, u[k].op = "load", NEW q \in 1 .. k - 1
      PROVE  u[q].op = "load"
  <2>1. k \in 1 .. n + l /\ q \in 1 .. n + l /\ q < k /\ k \in Int /\ q \in Int
    BY <1>1, <1>2
  <2>2. CASE k > n
    <3>1. k - n \in DOMAIN t /\ u[k] = t[k - n]
      BY <1>1, <1>2, <2>1, <2>2
    <3>2. /\ \A j \in DOMAIN s : s[j].op = "load"
          /\ \A j \in DOMAIN t : t[j].op = "load"
      BY <1>3, <3>1
    <3>3. CASE q > n
      BY <1>1, <1>2, <2>1, <3>2, <3>3
    <3>4. CASE ~ (q > n)
      <4>1. q \in 1 .. n
        BY <1>1, <2>1, <3>4
      <4> QED  BY <1>1, <1>2, <3>2, <4>1
    <3> QED  BY <3>3, <3>4
  <2>3. CASE ~ (k > n)
    <3>1. k \in 1 .. n /\ q \in 1 .. n
      BY <1>1, <2>1, <2>3
    <3>2. u[k] = s[k] /\ u[q] = s[q] /\ k \in DOMAIN s
      BY <1>1, <1>2, <3>1
    <3> QED  BY <1>3, <3>2 DEF StartsWithLoads
  <2> QED  BY <2>2, <2>3
<1> QED  BY <1>3 DEF StartsWithLoads, u

\* The frame is deallocated behind the loads.
LEMMA LoadsDeallocated ==
  ASSUME NEW s, IsSequence(s), StartsWithLoads(s)
  PROVE  StartsWithLoads(DeallocatedBehindLoads(s))
<1> DEFINE t == DeallocatedBehindLoads(s)
           n == Len(s)
<1>1. /\ IsSequence(t) /\ Len(t) = n + 1
      /\ \E last \in 0 .. n :
           /\ \A k \in 1 .. last : s[k].op = "load" /\ t[k] = s[k]
           /\ last < n => s[last + 1].op # "load"
           /\ t[last + 1] = Deallocate
           /\ \A k \in last + 1 .. n : t[k + 1] = s[k]
  BY Deallocated
<1>2. n \in Nat /\ DOMAIN s = 1 .. n
  BY SequenceDomain
<1> HIDE DEF t
<1>3. DOMAIN t = 1 .. n + 1
  BY <1>1, SequenceDomain
<1> HIDE DEF n
<1>4. PICK last \in 0 .. n :
        /\ \A k \in 1 .. last : s[k].op = "load" /\ t[k] = s[k]
        /\ last < n => s[last + 1].op # "load"
        /\ t[last + 1] = Deallocate
        /\ \A k \in last + 1 .. n : t[k + 1] = s[k]
  BY <1>1
<1>5. ASSUME NEW k \in DOMAIN t, t[k].op = "load"
      PROVE  k <= last
  <2>1. k \in 1 .. n + 1 /\ k \in Int /\ last \in Int /\ n \in Int
    BY <1>2, <1>3
  <2>2. k # last + 1
    BY <1>4, <1>5 DEF Deallocate
  <2>3. CASE k > last + 1
    <3> DEFINE j == k - 1
    <3>1. j \in last + 1 .. n /\ j + 1 = k /\ j \in DOMAIN s /\ last + 1 \in 1 .. j /\ last < n
      BY <1>2, <2>1, <2>3
    <3> HIDE DEF j
    <3>2. s[j].op = "load"
      BY <1>4, <1>5, <3>1
    <3>3. \A q \in 1 .. j - 1 : s[q].op = "load"
      BY <3>1, <3>2 DEF StartsWithLoads
    <3>4. last + 1 = j \/ last + 1 \in 1 .. j - 1
      BY <2>1, <3>1
    <3> QED  BY <1>4, <3>1, <3>2, <3>3, <3>4
  <2> QED  BY <2>1, <2>2, <2>3
<1>6. ASSUME NEW k \in DOMAIN t, t[k].op = "load", NEW q \in 1 .. k - 1
      PROVE  t[q].op = "load"
  <2>1. q \in 1 .. last
    BY <1>2, <1>3, <1>5, <1>6
  <2> QED  BY <1>4, <2>1
<1> QED  BY <1>6 DEF StartsWithLoads, t

\* Where a load is, there is no choice.
LEMMA LoadsApart ==
  ASSUME NEW p, WellFormed(p), NEW F, IsFunction(p, F), F.body # <<>>, SelectsApart(F),
         NEW c, NEW m, Layout(F, c, m, 1), NEW i \in DOMAIN F.body, i > 1,
         F.body[i - 1].op = "call"
  PROVE  \A k \in DOMAIN c[i] : c[i][k].op = "load"
<1>1. F.body[i].op # "select"
  BY DEF SelectsApart
<1>2. i \in Int
  BY DEF IsFunction
<1>3. ASSUME NEW k \in DOMAIN c[i]  PROVE c[i][k].op = "load"
  <2>1. IsItem(F, c, m, 1, i, k)
    BY DEF Layout
  <2>2. ~ (i < 1) /\ ~ (i \in 2 .. 1)
    BY <1>2
  <2> QED  BY <1>1, <2>1, <2>2 DEF IsItem, IsChoice
<1> QED  BY <1>3

\* InsertWitnesses keeps the loads first.
LEMMA WitnessesKeepLoads ==
  ASSUME NEW p, WellFormed(p), NEW F, IsFunction(p, F), F.body # <<>>, SelectsApart(F),
         NEW c, NEW m, Layout(F, c, m, 1), LoadsFirst(c), NEW o, IsNode(F, o), o \notin DOMAIN m,
         \A n \in DOMAIN Uses(F, o) : Uses(F, o)[n] \in DOMAIN m
  PROVE  LoadsFirst(InsertBefore(c, Location(F, o), WitnessCode(F, m, o)))
<1> DEFINE L == Location(F, o)
           items == WitnessCode(F, m, o)
           c2 == InsertBefore(c, L, items)
           m2 == Updated(m, o, Witness(F, m, o))
<1>1. /\ WitnessesFit(F, m) /\ c = [i \in DOMAIN F.body |-> c[i]]
      /\ \A i \in DOMAIN F.body : IsSequence(c[i])
  BY DEF Layout
<1>2. Keeps(m, m2) /\ o \in DOMAIN m2 /\ m2[o] = Witness(F, m, o)
  <2>1. /\ WitnessesFit(F, m2) /\ Keeps(m, m2)
        /\ DOMAIN m2 = DOMAIN m \cup {o} /\ m2[o] = Witness(F, m, o)
    BY <1>1, WitnessesGrow
  <2> QED  BY <2>1
<1>3. L \in DOMAIN F.body /\ L \in Int /\ L >= 1
  <2>1. L \in DOMAIN F.body /\ L \in Int
    BY Locations
  <2>2. DOMAIN F.body = 1 .. Len(F.body) /\ Len(F.body) \in Nat
    BY DEF IsFunction
  <2> HIDE DEF L
  <2> QED  BY <2>1, <2>2
<1> HIDE DEF m2
<1>4. /\ IsSequence(items)
      /\ \A n \in DOMAIN items : \/ items[n].op = "load" /\ IsLoad(F, m2, L, items[n])
                                 \/ IsNewChoice(F, m, m2, o, items[n])
  BY <1>1, <1>2, WitnessCodeFills
<1>5. /\ DOMAIN c2 = DOMAIN F.body /\ c2[L] = c[L] \o items
      /\ \A i \in DOMAIN F.body \ {L} : c2[i] = c[i]
  BY <1>1, <1>3 DEF InsertBefore
<1>6. ASSUME IsNode(F, o), o.kind = "inst", F.body[o.at].op = "select"
      PROVE  L = o.at
  BY <1>6, Locations
<1> HIDE DEF items, c2, L
<1>7. ASSUME L > 1
      PROVE  \/ \A k \in DOMAIN items : items[k].op # "load"
             \/ /\ \A k \in DOMAIN c[L] : c[L][k].op = "load"
                /\ \A k \in DOMAIN items : items[k].op = "load"
  <2>1. CASE F.body[L - 1].op = "call"
    <3>1. \A k \in DOMAIN c[L] : c[L][k].op = "load"
      BY <1>3, <1>7, <2>1, LoadsApart
    <3>2. F.body[L].op # "select"
      BY <1>3, <1>7, <2>1 DEF SelectsApart
    <3>3. \A k \in DOMAIN items : items[k].op = "load"
      BY <1>4, <1>6, <3>2 DEF IsNewChoice
    <3> QED  BY <3>1, <3>3
  <2>2. CASE F.body[L - 1].op # "call"
    <3>1. \A k \in DOMAIN items : ~ IsLoad(F, m2, L, items[k])
      BY <1>7, <2>2 DEF IsLoad
    <3>2. \A k \in DOMAIN items : items[k].op = "choice"
      BY <1>4, <3>1 DEF IsNewChoice
    <3> QED  BY <3>2
  <2> QED  BY <2>1, <2>2
<1>8. ASSUME NEW i \in DOMAIN c2 \ {1}  PROVE StartsWithLoads(c2[i])
  <2>1. i \in DOMAIN F.body /\ StartsWithLoads(c[i])
    BY <1>1, <1>5 DEF LoadsFirst, StartsWithLoads
  <2>2. CASE i # L
    BY <1>5, <2>1, <2>2
  <2>3. CASE i = L
    <3>1. L > 1
      BY <1>3, <1>8, <2>3
    <3>2. IsSequence(c[L]) /\ StartsWithLoads(c[L])
      BY <1>1, <1>3, <2>1, <2>3
    <3>3. StartsWithLoads(c[L] \o items)
      BY <1>4, <1>7, <3>1, <3>2, LoadsAppended
    <3> QED  BY <1>5, <2>3, <3>3
  <2> QED  BY <2>2, <2>3
<1>9. LoadsFirst(c2)
  BY <1>8 DEF LoadsFirst, StartsWithLoads
<1> QED  BY <1>9 DEF c2, items, L

\* Stores are inserted, and in front of them an allocation.
LEMMA StoresKeepLoads ==
  ASSUME NEW F, NEW c, NEW m, c = [l \in DOMAIN F.body |-> c[l]],
         \A l \in DOMAIN F.body : IsSequence(c[l]), LoadsFirst(c),
         NEW i \in DOMAIN F.body, NEW items, StoresFit(F, m, i, items)
  PROVE  LoadsFirst(InsertBefore(c, i, items))
<1> DEFINE c2 == InsertBefore(c, i, items)
<1>1. DOMAIN c2 = DOMAIN F.body /\ c2[i] = c[i] \o items
      /\ \A l \in DOMAIN F.body \ {i} : c2[l] = c[l]
  BY DEF InsertBefore
<1> HIDE DEF c2
<1>2. IsSequence(items)
  BY DEF StoresFit
<1>3. ASSUME NEW k \in DOMAIN items  PROVE items[k].op # "load"
  <2>1. IsAddition(F, m, i, 2, items[k])
    BY DEF StoresFit
  <2> QED  BY <2>1 DEF IsAddition
<1>4. ASSUME NEW l \in DOMAIN c2 \ {1}  PROVE StartsWithLoads(c2[l])
  <2>1. l \in DOMAIN F.body /\ StartsWithLoads(c[l])
    BY <1>1 DEF LoadsFirst, StartsWithLoads
  <2>2. CASE l # i
    BY <1>1, <2>1, <2>2
  <2>3. CASE l = i
    <3>1. IsSequence(c[i]) /\ StartsWithLoads(c[i])
      BY <2>1, <2>3
    <3>2. StartsWithLoads(c[i] \o items)
      BY <1>2, <1>3, <3>1, LoadsAppended
    <3> QED  BY <1>1, <2>3, <3>2
  <2> QED  BY <2>2, <2>3
<1>5. LoadsFirst(c2)
  BY <1>4 DEF LoadsFirst, StartsWithLoads
<1> QED  BY <1>5 DEF c2

\* So does handleShadowStackAllocation.
LEMMA AllocationKeepsLoads ==
  ASSUME NEW F, NEW c, c = [l \in DOMAIN F.body |-> c[l]],
         \A l \in DOMAIN F.body : IsSequence(c[l]), LoadsFirst(c),
         NEW i \in DOMAIN F.body, i + 1 \in DOMAIN F.body, i \in Int, NEW size
  PROVE  LET c1 == HandleShadowStackAllocation(c, i, size) IN
         /\ c1 = [l \in DOMAIN F.body |-> c1[l]]
         /\ \A l \in DOMAIN F.body : IsSequence(c1[l])
         /\ LoadsFirst(c1)
<1> DEFINE c1 == HandleShadowStackAllocation(c, i, size)
           alloc == Allocate(size)
<1>1. i + 1 # i
  OBVIOUS
<1>2. /\ c1 = [l \in DOMAIN F.body |-> c1[l]]
      /\ c1[i] = Append(c[i], alloc)
      /\ c1[i + 1] = DeallocatedBehindLoads(c[i + 1])
      /\ \A l \in DOMAIN F.body \ {i, i + 1} : c1[l] = c[l]
  BY <1>1 DEF HandleShadowStackAllocation
<1>3. alloc.op = "alloc"
  BY DEF Allocate
<1> HIDE DEF c1, alloc
<1>4. Append(c[i], alloc) = c[i] \o <<alloc>>
  <2> DEFINE s == c[i]
             S == {s[k] : k \in DOMAIN s} \cup {alloc}
  <2>1. s = [k \in 1 .. Len(s) |-> s[k]] /\ Len(s) \in Nat
    BY DEF IsSequence
  <2> HIDE DEF s
  <2>2. s \in Seq(S) /\ alloc \in S
    BY <2>1
  <2> HIDE DEF S
  <2>3. Append(s, alloc) = s \o <<alloc>>
    BY <2>2
  <2> QED  BY <2>3 DEF s
<1>5. /\ IsSequence(<<alloc>>) /\ \A k \in DOMAIN <<alloc>> : <<alloc>>[k].op # "load"
  <2>1. IsSequence(<<alloc>>) /\ Len(<<alloc>>) = 1 /\ <<alloc>>[1] = alloc
    BY ShortSequences
  <2>2. \A k \in DOMAIN <<alloc>> : k = 1
    OBVIOUS
  <2> QED  BY <1>3, <2>1, <2>2
<1>6. ASSUME NEW l \in DOMAIN F.body
      PROVE  IsSequence(c1[l]) /\ (StartsWithLoads(c[l]) => StartsWithLoads(c1[l]))
  <2>1. IsSequence(c[l])
    OBVIOUS
  <2>2. CASE l = i
    <3> DEFINE t == <<alloc>>
    <3> HIDE DEF t
    <3>1. IsSequence(c[i] \o t)
      BY <1>5, <2>1, <2>2, Concatenated DEF t
    <3>2. StartsWithLoads(c[i]) => StartsWithLoads(c[i] \o t)
      BY <1>5, <2>1, <2>2, LoadsAppended DEF t
    <3> QED  BY <1>2, <1>4, <2>2, <3>1, <3>2 DEF t
  <2>3. CASE l = i + 1
    <3> DEFINE s == c[i + 1]
    <3>1. IsSequence(s)
      OBVIOUS
    <3> HIDE DEF s
    <3>2. IsSequence(DeallocatedBehindLoads(s))
      BY <3>1, Deallocated
    <3>3. StartsWithLoads(s) => StartsWithLoads(DeallocatedBehindLoads(s))
      BY <3>1, LoadsDeallocated
    <3> QED  BY <1>2, <2>3, <3>2, <3>3 DEF s
  <2>4. CASE l \notin {i, i + 1}
    BY <1>2, <2>1, <2>4
  <2> QED  BY <2>2, <2>3, <2>4
<1>7. LoadsFirst(c1)
  <2>1. ASSUME NEW l \in DOMAIN c1 \ {1}  PROVE StartsWithLoads(c1[l])
    <3>1. l \in DOMAIN F.body /\ StartsWithLoads(c[l])
      BY <1>2 DEF LoadsFirst, StartsWithLoads
    <3> QED  BY <1>6, <3>1
  <2> QED  BY <2>1 DEF LoadsFirst, StartsWithLoads
<1> QED  BY <1>2, <1>6, <1>7 DEF c1

\* So does handleInvariant.
LEMMA HandlingKeepsLoads ==
  ASSUME NEW p, WellFormed(p), NEW F, IsFunction(p, F), F.body # <<>>,
         NEW i \in DOMAIN F.body,
         NEW c, NEW m, Layout(F, c, m, i), NeedsMet(F, m, i), LoadsFirst(c)
  PROVE  LoadsFirst(Handled(F, m, c, i))
<1> DEFINE ins == F.body[i]
           c2 == Handled(F, m, c, i)
<1>1. /\ WitnessesFit(F, m) /\ c = [l \in DOMAIN F.body |-> c[l]]
      /\ \A l \in DOMAIN F.body : IsSequence(c[l])
  BY DEF Layout
<1>2. i \in Int
  BY DEF IsFunction
<1>3. CASE ins.op \notin {"call", "ret"}
  BY <1>3 DEF Handled
<1>4. CASE ins.op = "ret"
  <2> DEFINE items == StoresOfReturn(F, m, ins.val)
  <2>1. c2 = InsertBefore(c, i, items)
    BY <1>4 DEF Handled
  <2>2. StoresFit(F, m, i, items)
    BY <1>1, <1>4, ReturnStores
  <2> HIDE DEF items
  <2>3. LoadsFirst(InsertBefore(c, i, items))
    BY <1>1, <2>2, StoresKeepLoads
  <2> QED  BY <2>1, <2>3
<1>5. CASE ins.op = "call"
  <2> DEFINE items == StoresOfCall(m, ins)
  <2>1. StoresFit(F, m, i, items)
    BY <1>1, <1>5, CallStores
  <2>2. c2 = InsertBefore(IF FrameSize(ins) = 0 THEN c
                          ELSE HandleShadowStackAllocation(c, i, FrameSize(ins)), i, items)
    BY <1>5 DEF Handled, HandleCallInvariant
  <2> HIDE DEF items
  <2>3. CASE FrameSize(ins) = 0
    <3>1. LoadsFirst(InsertBefore(c, i, items))
      BY <1>1, <2>1, StoresKeepLoads
    <3> QED  BY <2>2, <2>3, <3>1
  <2>4. CASE FrameSize(ins) # 0
    <3> DEFINE size == FrameSize(ins)
               c1 == HandleShadowStackAllocation(c, i, size)
    <3>1. i + 1 \in DOMAIN F.body
      BY <1>5, Instructions
    <3> HIDE DEF size
    <3>2. /\ c1 = [l \in DOMAIN F.body |-> c1[l]]
          /\ \A l \in DOMAIN F.body : IsSequence(c1[l])
          /\ LoadsFirst(c1)
      BY <1>1, <1>2, <3>1, AllocationKeepsLoads
    <3> HIDE DEF c1
    <3>3. LoadsFirst(InsertBefore(c1, i, items))
      BY <2>1, <3>2, StoresKeepLoads
    <3> QED  BY <2>2, <2>4, <3>3 DEF c1, size
  <2> QED  BY <2>3, <2>4
<1> QED  BY <1>3, <1>4, <1>5

LoadsInv ==
  \A f \in Function : (HasBody(f) => SelectsApart(prog[f])) => LoadsFirst(code[f])

\* The steps that insert code.
LEMMA InsertWitnessesLoads ==
  ASSUME PassInv, LoadsInv, InsertWitnesses
  PROVE  LoadsInv'
<1> DEFINE o == Requested
           c2 == InsertBefore(code[now], Location(Current, o), WitnessCode(Current, made[now], o))
<1>1. /\ step = "witnesses" /\ calls # <<>> /\ prog \in Programs /\ now \in Function
      /\ now \in left /\ HasBody(now) /\ prog' = prog
      /\ o \notin DOMAIN made[now]
      /\ \A n \in DOMAIN Uses(Current, o) : Uses(Current, o)[n] \in DOMAIN made[now]
  BY DEF PassInv, PassTypes, InsertWitnesses, Current, IsRequested, HasWitness
<1>2. code' = [code EXCEPT ![now] = c2]
  BY DEF InsertWitnesses
<1>3. /\ IsSequence(calls) /\ \A n \in DOMAIN calls : IsNode(Current, calls[n])
  BY DEF PassInv, CallsInv
<1>4. /\ Len(calls) \in Nat \ {0} /\ DOMAIN calls = 1 .. Len(calls) /\ o = calls[1]
  BY <1>1, <1>3, Popped DEF Requested
<1>5. IsNode(Current, o) /\ WellFormed(prog) /\ IsFunction(prog, Current)
      /\ Current.body # <<>>
  <2>1. 1 \in DOMAIN calls
    BY <1>4
  <2> QED  BY <1>1, <1>3, <1>4, <2>1, ProgramsFit DEF Current, HasBody
<1>6. Layout(Current, code[now], made[now], 1)
  BY <1>1 DEF PassInv, HandledUpTo, Current
<1> HIDE DEF o
<1>7. SelectsApart(Current) /\ LoadsFirst(code[now]) => LoadsFirst(c2)
  BY <1>1, <1>5, <1>6, WitnessesKeepLoads
<1> HIDE DEF c2
<1>8. code'[now] = c2 /\ \A f \in Function \ {now} : code'[f] = code[f]
  BY <1>1, <1>2 DEF PassInv, PassTypes
<1>9. ASSUME NEW f \in Function, HasBody(f) => SelectsApart(prog[f])
      PROVE  LoadsFirst(code'[f])
  <2>1. LoadsFirst(code[f])
    BY <1>9 DEF LoadsInv
  <2>2. CASE f = now
    BY <1>1, <1>7, <1>8, <1>9, <2>1, <2>2 DEF Current
  <2>3. CASE f # now
    BY <1>8, <2>1, <2>3
  <2> QED  BY <2>2, <2>3
<1> QED  BY <1>1, <1>9 DEF LoadsInv, HasBody

\* HandleInvariant.
LEMMA HandleInvariantLoads ==
  ASSUME PassInv, LoadsInv, HandleInvariant
  PROVE  LoadsInv'
<1> DEFINE c2 == Handled(Current, made[now], code[now], at)
<1>1. /\ step = "invariants" /\ prog \in Programs /\ now \in Function
      /\ now \in left /\ HasBody(now) /\ prog' = prog /\ at <= Len(Current.body)
  BY DEF PassInv, PassTypes, HandleInvariant, Current
<1>2. code' = [code EXCEPT ![now] = c2]
  BY DEF HandleInvariant
<1>3. /\ at \in 1 .. Len(Current.body) + 1
      /\ \A i \in DOMAIN Current.body : NeedsMet(Current, made[now], i)
  BY <1>1 DEF PassInv, CallsInv
<1>4. /\ DOMAIN Current.body = 1 .. Len(Current.body) /\ Len(Current.body) \in Nat
      /\ WellFormed(prog) /\ IsFunction(prog, Current) /\ Current.body # <<>>
  BY <1>1, BodyFits, ProgramsFit DEF Current, HasBody
<1>5. at \in DOMAIN Current.body
  BY <1>1, <1>3, <1>4
<1>6. Layout(Current, code[now], made[now], at)
  BY <1>1 DEF PassInv, HandledUpTo, Current
<1>7. LoadsFirst(code[now]) => LoadsFirst(c2)
  BY <1>3, <1>4, <1>5, <1>6, HandlingKeepsLoads
<1> HIDE DEF c2
<1>8. code'[now] = c2 /\ \A f \in Function \ {now} : code'[f] = code[f]
  BY <1>1, <1>2 DEF PassInv, PassTypes
<1>9. ASSUME NEW f \in Function, HasBody(f) => SelectsApart(prog[f])
      PROVE  LoadsFirst(code'[f])
  <2>1. LoadsFirst(code[f])
    BY <1>9 DEF LoadsInv
  <2>2. CASE f = now
    BY <1>7, <1>8, <2>1, <2>2
  <2>3. CASE f # now
    BY <1>8, <2>1, <2>3
  <2> QED  BY <2>2, <2>3
<1> QED  BY <1>1, <1>9 DEF LoadsInv, HasBody

\* Nothing is inserted initially, and what is keeps the loads together.
LEMMA LoadsKept ==
  /\ Init => LoadsInv
  /\ PassInv /\ LoadsInv /\ [Next]_vars => LoadsInv'
<1>1. ASSUME Init  PROVE LoadsInv
  <2>1. code = [f \in Function |-> [i \in DOMAIN prog[f].body |-> <<>>]]
    BY <1>1 DEF Init, PassInit
  <2>2. ASSUME NEW f \in Function  PROVE LoadsFirst(code[f])
    BY <2>1 DEF LoadsFirst
  <2> QED  BY <2>2 DEF LoadsInv
<1>2. ASSUME PassInv, LoadsInv, [Next]_vars  PROVE LoadsInv'
  <2>2. ASSUME UNCHANGED <<prog, code>>  PROVE LoadsInv'
    BY <1>2, <2>2 DEF LoadsInv, HasBody
  <2>3. CASE PassNext
    <3>1. CASE InsertWitnesses
      BY <1>2, <3>1, InsertWitnessesLoads
    <3>2. CASE HandleInvariant
      BY <1>2, <3>2, HandleInvariantLoads
    <3>3. CASE NextTarget \/ WitnessExists \/ CreateRequirement \/ WitnessesDone \/ NextFunction
      BY <2>2, <3>3 DEF NextTarget, WitnessExists, CreateRequirement, WitnessesDone,
                        NextFunction
    <3> QED  BY <2>3, <3>1, <3>2, <3>3 DEF PassNext
  <2>4. CASE RunNext
    BY <2>2, <2>4, RunNextRuns DEF passVars
  <2>5. CASE UNCHANGED vars
    BY <2>2, <2>5 DEF vars, passVars
  <2> QED  BY <1>2, <2>3, <2>4, <2>5 DEF Next, RunNext
<1> QED  BY <1>1, <1>2

\* LoadsAreRightAfterTheCall holds throughout for every program in which no
\* select follows a call immediately: what SelectAfterCall finds is the only
\* way to come between a call and its loads.
THEOREM LoadsStayTogether == Spec => [](NoSelectFollowsCall => LoadsAreRightAfterTheCall)
<1>1. LoadsInv => (NoSelectFollowsCall => LoadsAreRightAfterTheCall)
  BY DEF LoadsInv, NoSelectFollowsCall, LoadsAreRightAfterTheCall, LoadsFirst
<1>2. Init => LoadsInv
  BY LoadsKept
<1>3. PassInv /\ LoadsInv /\ [Next]_vars => LoadsInv'
  BY LoadsKept
<1> QED  BY <1>1, <1>2, <1>3, PassIsRight, PTL DEF Spec
=============================================================================
