-------------------------- MODULE VarArgProxiesProofs --------------------------
(***************************************************************************)
(* The proxies of va_lists are as far as the lists, whatever the functions *)
(* and however deep the calls. A place is a variable of an active call or  *)
(* a cell of memory. It tracks a list if the list is started and was not   *)
(* started, copied to or ended through another value since. The argument:  *)
(* what tracks a list has a proxy at its position (InStep), and two places *)
(* have the same proxy exactly if they refer to the same list (Distinct),  *)
(* so an argument that is gotten through one place moves the others along  *)
(* and leaves those of other lists alone.                                  *)
(***************************************************************************)
EXTENDS VarArgProxies, SequenceTheorems, FunctionTheorems, FiniteSetTheorems, TLAPS

\* The slot of the variadic argument at this position of a call of s.
SlotOf(s, at) ==
  FirstVarArg(s.fun) + Cardinality({k \in 1 .. at - 1 : s.varargs[k] = "p"})

ContentsTo(depth) == [call : 1 .. depth, at : Nat] \cup {NoArgument}
ListsTo(depth) == [call : 1 .. depth, n : Locals] \cup {NoList}
Entries(proxies) == [proxy : 0 .. proxies, arg : Arguments \cup {NoArgument}]

Calls(depth, proxies) ==
  [of : Signatures,
   lists : [Locals -> ContentsTo(depth)],
   ref : [Values \cup {Shared} -> ListsTo(depth)],
   proxy : [Variables -> 0 .. proxies],
   frame : UNION {[0 .. n - 1 -> Entries(proxies)] : n \in Nat},
   loaded : Values \cup {Shared}]

Places == (1 .. Top) \X Variables \cup {0} \X InMemory

Proxies == [call : 1 .. MaxDepth, slot : Nat, live : BOOLEAN]

\* Nothing refers to a call that is not active.
StateTypes ==
  /\ stack \in Seq(Calls(Len(stack), Len(heap))) /\ Len(stack) \in 1 .. MaxDepth
  /\ heap \in Seq(Proxies)
  /\ memory \in [InMemory -> ListsTo(Len(stack))]
  /\ table \in [InMemory -> 0 .. Len(heap)]
  /\ stale \subseteq Places

\* A frame has a slot for each pointer, and there the bounds of the argument.
Framed ==
  \A c \in 1 .. Top :
    LET s == stack[c].of IN
    /\ DOMAIN stack[c].frame = 0 .. Code!FrameSize(CallOf(s)) - 1
    /\ \A at \in DOMAIN s.varargs : s.varargs[at] = "p" =>
         /\ SlotOf(s, at) \in DOMAIN stack[c].frame
         /\ stack[c].frame[SlotOf(s, at)].arg = [call |-> c, at |-> at]

\* The shared variable is for the list that was loaded last.
LoadsAgree ==
  \A c \in 1 .. Top : stack[c].loaded.kind = "load" =>
    stack[c].ref[stack[c].loaded] = stack[c].ref[Shared]

ListAt(a) == IF a[1] = 0 THEN memory[a[2]] ELSE stack[a[1]].ref[a[2]]
ProxyAt(a) == IF a[1] = 0 THEN table[a[2]] ELSE stack[a[1]].proxy[a[2]]

Tracks(a) ==
  /\ a \in Places /\ a \notin stale
  /\ ListAt(a) # NoList /\ Content(ListAt(a)) # NoArgument

TracksInStep == \A a \in Places : Tracks(a) => InStep(ProxyAt(a), Content(ListAt(a)))

Distinct ==
  \A a, b \in Places : Tracks(a) /\ Tracks(b) =>
    (ListAt(a) = ListAt(b) <=> ProxyAt(a) = ProxyAt(b))

Inv ==
  /\ StateTypes
  /\ Framed
  /\ LoadsAgree
  /\ Followed => TracksInStep /\ Distinct
  /\ VarArgBoundsAreRight
  /\ ProxiesAreFreed

-----------------------------------------------------------------------------
(* Slots.                                                                   *)

\* The code counts in the same way.
LEMMA CodeCounts == \A S : Code!Cardinality(S) = Cardinality(S)
BY DEF Code!Cardinality, Cardinality

\* The pointers before position j of these types.
Before(types, j) == {i \in 1 .. j - 1 : types[i] = "p"}

\* A pointer counts for the positions behind it.
LEMMA BeforeFacts ==
  ASSUME NEW types, NEW j \in Nat
  PROVE  /\ IsFiniteSet(Before(types, j)) /\ Cardinality(Before(types, j)) \in Nat
         /\ \A k \in Nat : j <= k =>
              Cardinality(Before(types, j)) <= Cardinality(Before(types, k))
         /\ \A k \in Nat : types[j] = "p" /\ 0 < j /\ j < k =>
              Cardinality(Before(types, j)) < Cardinality(Before(types, k))
<1>1. \A k \in Nat : IsFiniteSet(Before(types, k))
  <2> SUFFICES ASSUME NEW k \in Nat PROVE IsFiniteSet(Before(types, k))
    OBVIOUS
  <2>1. IsFiniteSet(1 .. k - 1) BY FS_Interval
  <2> QED BY <2>1, FS_Subset DEF Before
<1>2. \A k \in Nat : Cardinality(Before(types, k)) \in Nat
  BY <1>1, FS_CardinalityType
<1>3. ASSUME NEW k \in Nat, j <= k
      PROVE  Cardinality(Before(types, j)) <= Cardinality(Before(types, k))
  <2>1. Before(types, j) \in SUBSET Before(types, k)
    BY <1>3 DEF Before
  <2> QED BY <1>1, <2>1, FS_Subset
<1>4. ASSUME NEW k \in Nat, types[j] = "p", 0 < j, j < k
      PROVE  Cardinality(Before(types, j)) < Cardinality(Before(types, k))
  <2>1. Before(types, j) \cup {j} \in SUBSET Before(types, k)
    BY <1>4 DEF Before
  <2>2. Cardinality(Before(types, j) \cup {j}) = Cardinality(Before(types, j)) + 1
    <3>1. j \notin Before(types, j) BY DEF Before
    <3> QED BY <1>1, <3>1, FS_AddElement
  <2>3. Cardinality(Before(types, j) \cup {j}) <= Cardinality(Before(types, k))
    BY <1>1, <2>1, FS_Subset
  <2> QED BY <1>2, <2>2, <2>3
<1> QED BY <1>1, <1>2, <1>3, <1>4

\* The next position.
LEMMA BeforeNext ==
  ASSUME NEW types, NEW j \in Nat \ {0}
  PROVE  Cardinality(Before(types, j + 1)) =
           Cardinality(Before(types, j)) + IF types[j] = "p" THEN 1 ELSE 0
<1>1. CASE types[j] = "p"
  <2>1. Before(types, j + 1) = Before(types, j) \cup {j} /\ j \notin Before(types, j)
    BY <1>1 DEF Before
  <2> QED BY <1>1, <2>1, BeforeFacts, FS_AddElement
<1>2. CASE types[j] # "p"
  <2>1. Before(types, j + 1) = Before(types, j)
    BY <1>2 DEF Before
  <2> QED BY <1>2, <2>1, BeforeFacts
<1> QED BY <1>1, <1>2

\* Variadic arguments come behind the parameters.
LEMMA BeforeConcat ==
  ASSUME NEW s \in Seq(Type), NEW t \in Seq(Type), NEW at \in 1 .. Len(t)
  PROVE  Cardinality(Before(s \o t, Len(s) + at))
           = Cardinality(Before(s, Len(s) + 1)) + Cardinality(Before(t, at))
<1> DEFINE l == Len(s)
           A == Before(s, l + 1)
           B == Before(t, at)
           C == {l + i : i \in B}
<1>1. l \in Nat /\ Len(t) \in Nat /\ at \in Nat
  BY LenProperties
<1>2. \A i \in 1 .. l + Len(t) : (s \o t)[i] = IF i <= l THEN s[i] ELSE t[i - l]
  BY ConcatProperties
<1>3. Before(s \o t, l + at) = A \cup C
  <2>1. ASSUME NEW i \in Before(s \o t, l + at) PROVE i \in A \cup C
    <3>1. i \in 1 .. l + at - 1 /\ (s \o t)[i] = "p"
      BY <2>1 DEF Before
    <3>2. i \in 1 .. l + Len(t)
      BY <1>1, <3>1
    <3>3. CASE i <= l
      BY <1>1, <1>2, <3>1, <3>2, <3>3 DEF Before
    <3>4. CASE ~(i <= l)
      <4>1. t[i - l] = "p"
        BY <1>2, <3>1, <3>2, <3>4
      <4>2. i - l \in 1 .. at - 1 /\ i = l + (i - l)
        BY <1>1, <3>1, <3>4
      <4> QED BY <4>1, <4>2 DEF Before
    <3> QED BY <3>3, <3>4
  <2>2. ASSUME NEW i \in A PROVE i \in Before(s \o t, l + at)
    <3>1. i \in 1 .. l /\ s[i] = "p" /\ i \in 1 .. l + Len(t) /\ i \in 1 .. l + at - 1
      BY <1>1, <2>2 DEF Before
    <3> QED BY <1>2, <3>1 DEF Before
  <2>3. ASSUME NEW i \in B PROVE l + i \in Before(s \o t, l + at)
    <3>1. i \in 1 .. at - 1 /\ t[i] = "p"
      BY <2>3 DEF Before
    <3>2. l + i \in 1 .. l + Len(t) /\ ~(l + i <= l) /\ (l + i) - l = i /\ l + i \in 1 .. l + at - 1
      BY <1>1, <3>1
    <3>3. (s \o t)[l + i] = "p"
      BY <1>2, <3>1, <3>2
    <3> QED BY <3>2, <3>3 DEF Before
  <2> QED BY <2>1, <2>2, <2>3
<1>4. IsFiniteSet(A) /\ IsFiniteSet(B)
  BY <1>1, BeforeFacts
<1>5. IsFiniteSet(C) /\ Cardinality(C) = Cardinality(B)
  <2> DEFINE f == [i \in B |-> l + i]
  <2>1. B \subseteq Nat
    BY <1>1 DEF Before
  <2>2. \A i, j \in B : f[i] = f[j] => i = j
    BY <1>1, <2>1
  <2>3. f \in [B -> C] /\ \A c \in C : \E i \in B : f[i] = c
    OBVIOUS
  <2> HIDE DEF f, C, B
  <2>4. f \in Bijection(B, C)
    BY <2>2, <2>3, Fun_IsBij
  <2>5. ExistsBijection(B, C)
    BY <2>4 DEF ExistsBijection
  <2> QED BY <1>4, <2>5, FS_Bijection
<1>6. A \cap C = {}
  BY <1>1 DEF Before
<1> HIDE DEF A, C
<1>7. Cardinality(A \cup C) = Cardinality(A) + Cardinality(C)
  <2>1. Cardinality(A \cup C) = Cardinality(A) + Cardinality(C) - Cardinality(A \cap C)
    BY <1>4, <1>5, FS_Union
  <2>2. Cardinality(A \cap C) = 0
    BY <1>6, FS_EmptySet
  <2>3. Cardinality(A) \in Nat /\ Cardinality(C) \in Nat
    BY <1>4, <1>5, FS_CardinalityType
  <2> QED BY <2>1, <2>2, <2>3
<1> QED BY <1>3, <1>5, <1>7 DEF A

\* The sizes that slots are made of.
LEMMA SignatureFacts ==
  ASSUME NEW s \in Signatures
  PROVE  /\ s.fun.params \in Seq(Type) /\ s.varargs \in Seq(Type)
         /\ Types(s) \in Seq(Type)
         /\ Len(Types(s)) = Len(s.fun.params) + Len(s.varargs)
         /\ \A i \in 1 .. Len(Types(s)) :
              Types(s)[i] = IF i <= Len(s.fun.params) THEN s.fun.params[i]
                                                      ELSE s.varargs[i - Len(s.fun.params)]
         /\ Code!NumberOfPointers(s.fun.ret) \in Nat
         /\ s.lists \subseteq {j \in 1 .. Len(s.fun.params) : s.fun.params[j] = "p"}
<1>1. s \in Signature /\ s.lists \subseteq {j \in DOMAIN s.fun.params : s.fun.params[j] = "p"}
  BY SignatureAssumption DEF SignatureAssumption
<1>2. s.fun.params \in Seq(Type) /\ s.varargs \in Seq(Type) /\ s.fun.ret.elems \in Seq(Type)
  BY <1>1 DEF Signature
<1> DEFINE p == s.fun.params
           q == s.varargs
           e == s.fun.ret.elems
<1> HIDE DEF p, q, e
<1>3. p \in Seq(Type) /\ q \in Seq(Type) /\ e \in Seq(Type)
  BY <1>2 DEF p, q, e
<1>4. /\ p \o q \in Seq(Type) /\ Len(p \o q) = Len(p) + Len(q)
      /\ \A i \in 1 .. Len(p) + Len(q) : (p \o q)[i] = IF i <= Len(p) THEN p[i] ELSE q[i - Len(p)]
  BY <1>3, ConcatProperties
<1>5. Code!NumberOfPointers(s.fun.ret) \in Nat
  <2>1. DOMAIN e = 1 .. Len(e) /\ Len(e) \in Int /\ IsFiniteSet(1 .. Len(e))
    BY <1>3, LenProperties, FS_Interval
  <2> DEFINE S == {k \in DOMAIN e : s.fun.ret.array \/ e[k] = "p"}
  <2>2. S \in SUBSET (1 .. Len(e))
    BY <2>1
  <2> HIDE DEF S
  <2>3. Cardinality(S) \in Nat
    BY <2>1, <2>2, FS_Subset, FS_CardinalityType
  <2> QED BY <2>3, CodeCounts DEF S, e, Code!NumberOfPointers
<1>6. DOMAIN p = 1 .. Len(p)
  BY <1>3, LenProperties
<1> QED BY <1>1, <1>3, <1>4, <1>5, <1>6 DEF p, q, Types

\* A call has a frame with a slot for each pointer, in the order of arguments.
LEMMA CallSlots ==
  ASSUME NEW s \in Signatures
  PROVE  LET P == Code!NumberOfPointers(s.fun.ret)
             T == Types(s)
         IN /\ \A j \in 1 .. Len(T) :
                 Code!CallSlot(CallOf(s), j) = P + Cardinality(Before(T, j))
            /\ Code!FrameSize(CallOf(s)) = P + Cardinality(Before(T, Len(T) + 1))
            /\ Code!FrameSize(CallOf(s)) = P + Cardinality({j \in DOMAIN T : T[j] = "p"})
<1> DEFINE P == Code!NumberOfPointers(s.fun.ret)
           T == Types(s)
           args == [j \in DOMAIN T |-> IF T[j] = "p" THEN Code!Global ELSE Code!NoPointer]
<1>1. CallOf(s).ret = s.fun.ret /\ CallOf(s).args = args
  BY DEF CallOf
<1>2. Len(T) \in Nat /\ DOMAIN T = 1 .. Len(T)
  BY SignatureFacts, LenProperties
<1> HIDE DEF T
<1>3. \A j \in 1 .. Len(T) : Code!IsPointer(args[j]) <=> T[j] = "p"
  BY <1>2 DEF Code!IsPointer, Code!Global, Code!NoPointer
<1>4. DOMAIN args = 1 .. Len(T)
  BY <1>2
<1> HIDE DEF args
<1>5. ASSUME NEW j \in 1 .. Len(T)
      PROVE  Code!CallSlot(CallOf(s), j) = P + Cardinality(Before(T, j))
  <2>1. {i \in 1 .. j - 1 : Code!IsPointer(args[i])} = Before(T, j)
    BY <1>2, <1>3 DEF Before
  <2> QED BY <1>1, <2>1, CodeCounts DEF Code!CallSlot
<1>6. {i \in DOMAIN args : Code!IsPointer(args[i])} = {j \in DOMAIN T : T[j] = "p"}
  BY <1>2, <1>3, <1>4
<1>7. {j \in DOMAIN T : T[j] = "p"} = Before(T, Len(T) + 1)
  BY <1>2 DEF Before
<1>8. Code!FrameSize(CallOf(s)) = P + Cardinality({j \in DOMAIN T : T[j] = "p"})
  BY <1>1, <1>6, CodeCounts DEF Code!FrameSize
<1> QED BY <1>5, <1>7, <1>8 DEF T

\* No two pointers share a slot, and the callee finds them where the call put
\* them: parameters, and variadic arguments one after the other.
LEMMA SlotFacts ==
  ASSUME NEW s \in Signatures
  PROVE  LET slot(j) == Code!CallSlot(CallOf(s), j)
             size == Code!FrameSize(CallOf(s))
             pointers == {j \in 1 .. Len(Types(s)) : Types(s)[j] = "p"}
         IN /\ size \in Nat
            /\ \A j \in pointers : slot(j) \in 0 .. size - 1
            /\ \A j, k \in pointers : slot(j) = slot(k) => j = k
            /\ \A j \in s.lists : j \in pointers /\ j <= Len(s.fun.params)
                                    /\ Code!ArgumentSlot(s.fun, j) = slot(j)
            /\ \A at \in DOMAIN s.varargs : s.varargs[at] = "p" =>
                 /\ Len(s.fun.params) + at \in pointers
                 /\ SlotOf(s, at) = slot(Len(s.fun.params) + at)
<1> DEFINE P == Code!NumberOfPointers(s.fun.ret)
           T == Types(s)
           slot(j) == Code!CallSlot(CallOf(s), j)
           size == Code!FrameSize(CallOf(s))
           pointers == {j \in 1 .. Len(T) : T[j] = "p"}
           p == s.fun.params
           q == s.varargs
<1>1. /\ p \in Seq(Type) /\ q \in Seq(Type) /\ T = p \o q /\ Len(T) = Len(p) + Len(q)
      /\ \A i \in 1 .. Len(T) : T[i] = IF i <= Len(p) THEN p[i] ELSE q[i - Len(p)]
      /\ P \in Nat
      /\ s.lists \subseteq {j \in 1 .. Len(p) : p[j] = "p"}
  BY SignatureFacts DEF Types
<1>2. /\ \A j \in 1 .. Len(T) : slot(j) = P + Cardinality(Before(T, j))
      /\ size = P + Cardinality(Before(T, Len(T) + 1))
  BY CallSlots
<1> HIDE DEF P, T, slot, size, p, q
<1>3. Len(p) \in Nat /\ Len(q) \in Nat /\ DOMAIN q = 1 .. Len(q) /\ DOMAIN p = 1 .. Len(p)
  BY <1>1, LenProperties
<1>4. ASSUME NEW j \in pointers
      PROVE  /\ slot(j) \in 0 .. size - 1
             /\ \A k \in pointers : j < k => slot(j) < slot(k)
  <2>1. j \in 1 .. Len(T) /\ T[j] = "p" /\ j \in Nat /\ 0 < j /\ j < Len(T) + 1
        /\ Len(T) + 1 \in Nat
    BY <1>1, <1>3
  <2>2. /\ Cardinality(Before(T, j)) \in Nat
        /\ \A k \in Nat : j < k => Cardinality(Before(T, j)) < Cardinality(Before(T, k))
    BY <2>1, BeforeFacts
  <2>3. \A k \in Nat : Cardinality(Before(T, k)) \in Nat
    BY BeforeFacts
  <2>4. slot(j) < size /\ slot(j) \in Nat /\ size \in Nat
    <3>1. /\ Cardinality(Before(T, Len(T) + 1)) \in Nat
          /\ Cardinality(Before(T, j)) < Cardinality(Before(T, Len(T) + 1))
      BY <2>1, <2>2, <2>3
    <3>2. slot(j) = P + Cardinality(Before(T, j))
      BY <1>2, <2>1
    <3> QED BY <1>1, <1>2, <2>2, <3>1, <3>2
  <2>5. ASSUME NEW k \in pointers, j < k PROVE slot(j) < slot(k)
    <3>1. k \in Nat /\ k \in 1 .. Len(T)
      BY <1>1, <1>3
    <3>2. Cardinality(Before(T, j)) < Cardinality(Before(T, k))
      BY <2>2, <2>5, <3>1
    <3> QED BY <1>1, <1>2, <2>1, <2>2, <2>3, <3>1, <3>2
  <2> QED BY <2>4, <2>5
<1>5. size \in Nat
  <2>1. Cardinality(Before(T, Len(T) + 1)) \in Nat
    BY <1>1, <1>3, BeforeFacts
  <2> QED BY <1>1, <1>2, <2>1
<1>6. ASSUME NEW j \in pointers, NEW k \in pointers, slot(j) = slot(k)
      PROVE  j = k
  <2>1. j \in Nat /\ k \in Nat
    BY <1>1, <1>3
  <2>2. slot(j) \in Nat /\ slot(k) \in Nat
    BY <1>4, <1>5
  <2> QED BY <1>4, <1>6, <2>1, <2>2
<1>7. ASSUME NEW j \in s.lists
      PROVE  j \in pointers /\ j <= Len(p) /\ Code!ArgumentSlot(s.fun, j) = slot(j)
  <2>1. j \in 1 .. Len(p) /\ p[j] = "p" /\ j \in 1 .. Len(T)
    BY <1>1, <1>3
  <2>2. T[j] = "p"
    BY <1>1, <2>1
  <2>3. {i \in 1 .. j - 1 : p[i] = "p"} = Before(T, j)
    BY <1>1, <1>3, <2>1 DEF Before
  <2>4. Code!ArgumentSlot(s.fun, j) = P + Cardinality(Before(T, j))
    BY <2>3, CodeCounts DEF Code!ArgumentSlot, P, p
  <2> QED BY <1>2, <2>1, <2>2, <2>4
<1>8. ASSUME NEW at \in DOMAIN q, q[at] = "p"
      PROVE  Len(p) + at \in pointers /\ SlotOf(s, at) = slot(Len(p) + at)
  <2>1. at \in 1 .. Len(q) /\ Len(p) + at \in 1 .. Len(T) /\ ~(Len(p) + at <= Len(p))
        /\ (Len(p) + at) - Len(p) = at
    BY <1>1, <1>3
  <2>2. T[Len(p) + at] = "p"
    BY <1>1, <1>8, <2>1
  <2>3. Cardinality(Before(T, Len(p) + at))
          = Cardinality(Before(p, Len(p) + 1)) + Cardinality(Before(q, at))
    BY <1>1, <2>1, BeforeConcat
  <2>4. {j \in DOMAIN p : p[j] = "p"} = Before(p, Len(p) + 1)
    BY <1>3 DEF Before
  <2>5. SlotOf(s, at) = (P + Cardinality(Before(p, Len(p) + 1))) + Cardinality(Before(q, at))
    BY <2>4 DEF SlotOf, FirstVarArg, Before, P, p, q
  <2>6. Cardinality(Before(p, Len(p) + 1)) \in Nat /\ Cardinality(Before(q, at)) \in Nat
    BY <1>3, <2>1, BeforeFacts
  <2>7. Len(p) + at \in pointers
    BY <1>1, <2>1, <2>2
  <2>8. slot(Len(p) + at) = P + Cardinality(Before(T, Len(p) + at))
    BY <1>2, <2>1, <2>7
  <2>9. P \in Nat
    BY <1>1
  <2>10. SlotOf(s, at) = slot(Len(p) + at)
    BY <2>3, <2>5, <2>6, <2>8, <2>9
  <2> QED BY <2>7, <2>10
<1> QED BY <1>4, <1>5, <1>6, <1>7, <1>8 DEF P, T, slot, size, p, q

\* The frame of a call: its lists' proxies, and the variadic arguments' bounds.
LEMMA FrameFacts ==
  ASSUME NEW s \in Signatures, NEW depth, NEW proxies
  PROVE  LET f == Frame(s, depth, proxies) IN
         /\ DOMAIN f = 0 .. Code!FrameSize(CallOf(s)) - 1
         /\ \A j \in s.lists :
              /\ Code!ArgumentSlot(s.fun, j) \in DOMAIN f
              /\ f[Code!ArgumentSlot(s.fun, j)].proxy = proxies[j]
         /\ \A at \in DOMAIN s.varargs : s.varargs[at] = "p" =>
              /\ SlotOf(s, at) \in DOMAIN f
              /\ f[SlotOf(s, at)].arg = [call |-> depth, at |-> at]
         /\ \A n \in Nat : depth \in 1 .. MaxDepth /\ (\A j \in s.lists : proxies[j] \in 0 .. n) =>
              f \in [DOMAIN f -> Entries(n)]
<1> DEFINE f == Frame(s, depth, proxies)
           T == Types(s)
           p == s.fun.params
           slot(j) == Code!CallSlot(CallOf(s), j)
           size == Code!FrameSize(CallOf(s))
           pointers == {j \in 1 .. Len(T) : T[j] = "p"}
           Stored(j) == IF j \in s.lists THEN Entry(proxies[j], NoArgument)
                        ELSE IF j <= Len(p) THEN NoEntry
                        ELSE Entry(NoProxy, [call |-> depth, at |-> j - Len(p)])
           In(n) == {j \in DOMAIN T : T[j] = "p" /\ slot(j) = n}
<1>1. DOMAIN T = 1 .. Len(T) /\ Len(T) \in Nat /\ Len(p) \in Nat
  BY SignatureFacts, LenProperties
<1>2. f = [n \in 0 .. size - 1 |-> IF In(n) = {} THEN NoEntry ELSE Stored(CHOOSE j \in In(n) : TRUE)]
  BY DEF Frame, Slots
<1>3. /\ size \in Nat
      /\ \A j \in pointers : slot(j) \in 0 .. size - 1
      /\ \A j, k \in pointers : slot(j) = slot(k) => j = k
      /\ \A j \in s.lists : j \in pointers /\ j <= Len(p) /\ Code!ArgumentSlot(s.fun, j) = slot(j)
      /\ \A at \in DOMAIN s.varargs : s.varargs[at] = "p" =>
           /\ Len(p) + at \in pointers
           /\ SlotOf(s, at) = slot(Len(p) + at)
  BY SlotFacts
<1> HIDE DEF f, T, p, slot, size, pointers
<1>4. ASSUME NEW j \in pointers PROVE slot(j) \in DOMAIN f /\ f[slot(j)] = Stored(j)
  <2>1. slot(j) \in 0 .. size - 1 /\ In(slot(j)) = {j}
    BY <1>1, <1>3 DEF pointers
  <2>2. (CHOOSE k \in In(slot(j)) : TRUE) = j /\ In(slot(j)) # {}
    BY <2>1
  <2> HIDE DEF In, Stored
  <2> QED BY <1>2, <2>1, <2>2
<1>5. ASSUME NEW j \in s.lists
      PROVE  /\ Code!ArgumentSlot(s.fun, j) \in DOMAIN f
             /\ f[Code!ArgumentSlot(s.fun, j)].proxy = proxies[j]
  <2>1. Stored(j).proxy = proxies[j]
    BY DEF Entry
  <2> HIDE DEF Stored
  <2> QED BY <1>3, <1>4, <2>1
<1>6. ASSUME NEW at \in DOMAIN s.varargs, s.varargs[at] = "p"
      PROVE  SlotOf(s, at) \in DOMAIN f /\ f[SlotOf(s, at)].arg = [call |-> depth, at |-> at]
  <2>1. at \in Nat \ {0}
    <3>1. s.varargs \in Seq(Type)
      BY SignatureFacts
    <3> QED BY <3>1, LenProperties
  <2>2. Len(p) + at \notin s.lists /\ ~(Len(p) + at <= Len(p)) /\ (Len(p) + at) - Len(p) = at
    BY <1>1, <1>3, <2>1
  <2>3. Stored(Len(p) + at).arg = [call |-> depth, at |-> at]
    BY <2>2 DEF Entry
  <2> HIDE DEF Stored
  <2> QED BY <1>3, <1>4, <1>6, <2>3
<1>7. ASSUME NEW n \in Nat, depth \in 1 .. MaxDepth, \A j \in s.lists : proxies[j] \in 0 .. n
      PROVE  f \in [DOMAIN f -> Entries(n)]
  <2>1. NoEntry \in Entries(n)
    BY DEF NoEntry, Entry, Entries, NoProxy
  <2>2. \A j \in pointers : Stored(j) \in Entries(n)
    <3> SUFFICES ASSUME NEW j \in pointers PROVE Stored(j) \in Entries(n)
      OBVIOUS
    <3>1. CASE j \in s.lists
      BY <1>7, <3>1 DEF Entry, Entries
    <3>2. CASE j \notin s.lists /\ j <= Len(p)
      BY <2>1, <3>2
    <3>3. CASE j \notin s.lists /\ ~(j <= Len(p))
      <4>1. j - Len(p) \in Nat
        BY <1>1, <3>3 DEF pointers
      <4> QED BY <1>7, <3>3, <4>1 DEF Entry, Entries, Arguments, NoProxy
    <3> QED BY <3>1, <3>2, <3>3
  <2> HIDE DEF Stored
  <2>3. \A k : In(k) # {} => (CHOOSE j \in In(k) : TRUE) \in pointers
    BY <1>1 DEF pointers
  <2> HIDE DEF In
  <2> QED BY <1>2, <2>1, <2>2, <2>3
<1>8. DOMAIN f = 0 .. size - 1
  BY <1>2
<1> QED BY <1>5, <1>6, <1>7, <1>8 DEF f, size

-----------------------------------------------------------------------------
(* Calls and places.                                                        *)

\* More calls and more proxies: what was well-typed stays so.
LEMMA CallsGrow ==
  ASSUME NEW d \in Nat, NEW e \in Nat, d <= e, NEW m \in Nat, NEW n \in Nat, m <= n
  PROVE  /\ Calls(d, m) \subseteq Calls(e, n)
         /\ ContentsTo(d) \subseteq ContentsTo(e) /\ ListsTo(d) \subseteq ListsTo(e)
<1>1. 1 .. d \subseteq 1 .. e /\ 0 .. m \subseteq 0 .. n
  OBVIOUS
<1>2. ContentsTo(d) \subseteq ContentsTo(e) /\ ListsTo(d) \subseteq ListsTo(e)
        /\ Entries(m) \subseteq Entries(n)
  BY <1>1 DEF ContentsTo, ListsTo, Entries
<1>3. ASSUME NEW r \in Calls(d, m) PROVE r \in Calls(e, n)
  <2> DEFINE F(k) == UNION {[0 .. i - 1 -> Entries(k)] : i \in Nat}
  <2>1. F(m) \subseteq F(n)
    <3> SUFFICES ASSUME NEW i \in Nat, NEW f \in [0 .. i - 1 -> Entries(m)] PROVE f \in F(n)
      OBVIOUS
    <3>1. f \in [0 .. i - 1 -> Entries(n)] BY <1>2
    <3> QED BY <3>1
  <2>2. /\ [Locals -> ContentsTo(d)] \subseteq [Locals -> ContentsTo(e)]
        /\ [Values \cup {Shared} -> ListsTo(d)] \subseteq [Values \cup {Shared} -> ListsTo(e)]
        /\ [Variables -> 0 .. m] \subseteq [Variables -> 0 .. n]
    BY <1>1, <1>2
  <2> HIDE DEF F
  <2>3. Calls(d, m) = [of : Signatures, lists : [Locals -> ContentsTo(d)],
                       ref : [Values \cup {Shared} -> ListsTo(d)],
                       proxy : [Variables -> 0 .. m], frame : F(m),
                       loaded : Values \cup {Shared}]
    BY DEF Calls, F
  <2>4. Calls(e, n) = [of : Signatures, lists : [Locals -> ContentsTo(e)],
                       ref : [Values \cup {Shared} -> ListsTo(e)],
                       proxy : [Variables -> 0 .. n], frame : F(n),
                       loaded : Values \cup {Shared}]
    BY DEF Calls, F
  <2>5. /\ r.of \in Signatures /\ r.lists \in [Locals -> ContentsTo(d)]
        /\ r.ref \in [Values \cup {Shared} -> ListsTo(d)]
        /\ r.proxy \in [Variables -> 0 .. m] /\ r.frame \in F(m)
        /\ r.loaded \in Values \cup {Shared}
        /\ r = [of |-> r.of, lists |-> r.lists, ref |-> r.ref, proxy |-> r.proxy,
                frame |-> r.frame, loaded |-> r.loaded]
    BY <1>3, <2>3
  <2>6. /\ r.lists \in [Locals -> ContentsTo(e)]
        /\ r.ref \in [Values \cup {Shared} -> ListsTo(e)]
        /\ r.proxy \in [Variables -> 0 .. n] /\ r.frame \in F(n)
    BY <2>1, <2>2, <2>5
  <2> QED BY <2>4, <2>5, <2>6
<1> QED BY <1>2, <1>3

\* Values and the variables for them.
LEMMA ValueFacts ==
  /\ Shared \in Variables /\ Variables \subseteq Values \cup {Shared}
  /\ Shared.kind # "load" /\ Result \in Variables /\ Result \in Values /\ Result # Shared
  /\ \A v \in Values : /\ v.kind = "load" => Variable(v) = Shared
                       /\ v.kind # "load" => Variable(v) = v /\ v \in Variables
                       /\ Variable(v) \in Variables
  /\ \A v \in Variables : v.kind # "load"
<1>1. \A k, n : Place(k, n).kind = k
  BY DEF Place
<1>2. /\ Shared.kind = "shared" /\ Result.kind = "result" /\ Null.kind = "null"
      /\ \A v \in Params : v.kind = "param"
  BY <1>1 DEF Shared, Result, Null, Params
<1>3. \A v \in Values : v.kind = "load" <=> v \in {Place("load", n) : n \in Loads}
  BY <1>1, <1>2 DEF Values
<1>4. Result \in Values /\ Result # Shared
  BY <1>2 DEF Values
<1> QED BY <1>2, <1>3, <1>4 DEF Variables, Variable

\* The state, call by call.
LEMMA CallFacts ==
  ASSUME StateTypes
  PROVE  /\ Top \in Nat /\ Top \in 1 .. MaxDepth /\ DOMAIN stack = 1 .. Top
         /\ Len(heap) \in Nat /\ DOMAIN heap = 1 .. Len(heap)
         /\ \A c \in 1 .. Top : stack[c] \in Calls(Top, Len(heap))
         /\ \A p \in 1 .. Len(heap) : heap[p] \in Proxies
<1>1. stack \in Seq(Calls(Top, Len(heap))) /\ Top \in 1 .. MaxDepth /\ heap \in Seq(Proxies)
  BY DEF StateTypes, Top
<1> DEFINE C == Calls(Top, Len(heap))
           st == stack
           h == heap
<1>2. st \in Seq(C) /\ h \in Seq(Proxies)
  BY <1>1
<1> HIDE DEF C, st, h
<1>3. /\ Len(st) \in Nat /\ DOMAIN st = 1 .. Len(st) /\ \A c \in 1 .. Len(st) : st[c] \in C
      /\ Len(h) \in Nat /\ DOMAIN h = 1 .. Len(h) /\ \A p \in 1 .. Len(h) : h[p] \in Proxies
  BY <1>2, LenProperties, ElementOfSeq
<1> QED BY <1>1, <1>3 DEF st, h, C, Top

\* What a list is, wherever it is found.
LEMMA ListFacts ==
  ASSUME StateTypes, NEW list \in ListsTo(Top), list # NoList
  PROVE  /\ list.call \in 1 .. Top /\ list.n \in Locals /\ list = [call |-> list.call, n |-> list.n]
         /\ Content(list) \in ContentsTo(Top)
         /\ Content(list) # NoArgument =>
              Content(list).call \in 1 .. Top /\ Content(list).at \in Nat
<1>1. list.call \in 1 .. Top /\ list.n \in Locals /\ list = [call |-> list.call, n |-> list.n]
  BY DEF ListsTo
<1>2. stack[list.call].lists \in [Locals -> ContentsTo(Top)]
  BY <1>1, CallFacts DEF Calls
<1>3. Content(list) \in ContentsTo(Top)
  BY <1>1, <1>2 DEF Content
<1> QED BY <1>1, <1>3 DEF ContentsTo

\* Places refer to lists and have proxies.
LEMMA PlaceFacts ==
  ASSUME StateTypes, NEW a \in Places
  PROVE  ListAt(a) \in ListsTo(Top) /\ ProxyAt(a) \in 0 .. Len(heap)
<1>1. CASE a[1] = 0
  <2>1. a[2] \in InMemory
    BY <1>1 DEF Places
  <2> QED BY <1>1, <2>1 DEF ListAt, ProxyAt, StateTypes, Top
<1>2. CASE a[1] # 0
  <2>1. a[1] \in 1 .. Top /\ a[2] \in Variables
    BY <1>2 DEF Places
  <2>2. /\ stack[a[1]].ref \in [Values \cup {Shared} -> ListsTo(Top)]
        /\ stack[a[1]].proxy \in [Variables -> 0 .. Len(heap)]
    BY <2>1, CallFacts DEF Calls
  <2> QED BY <1>2, <2>1, <2>2, ValueFacts DEF ListAt, ProxyAt
<1> QED BY <1>1, <1>2

\* The same of the state after a step.
WellTyped ==
  /\ Top \in Nat /\ Len(heap) \in Nat
  /\ \A a \in Places : /\ ListAt(a) \in ListsTo(Top) /\ ProxyAt(a) \in 0 .. Len(heap)
                       /\ Tracks(a) => Content(ListAt(a)).call \in 1 .. Top

\* It holds of every state that is well-typed,
LEMMA StateWellTyped == StateTypes => WellTyped
<1> SUFFICES ASSUME StateTypes PROVE WellTyped
  OBVIOUS
<1>1. Top \in Nat /\ Len(heap) \in Nat
  BY CallFacts
<1>2. ASSUME NEW a \in Places
      PROVE  /\ ListAt(a) \in ListsTo(Top) /\ ProxyAt(a) \in 0 .. Len(heap)
             /\ Tracks(a) => Content(ListAt(a)).call \in 1 .. Top
  <2>1. ListAt(a) \in ListsTo(Top) /\ ProxyAt(a) \in 0 .. Len(heap)
    BY PlaceFacts
  <2>2. ASSUME Tracks(a) PROVE Content(ListAt(a)).call \in 1 .. Top
    <3>1. ListAt(a) # NoList /\ Content(ListAt(a)) # NoArgument
      BY <2>2 DEF Tracks
    <3> QED BY <2>1, <3>1, ListFacts
  <2> QED BY <2>1, <2>2
<1> QED BY <1>1, <1>2 DEF WellTyped

\* also of the next one.
LEMMA NextWellTyped == (StateTypes => WellTyped)'
BY StateWellTyped, PTL

\* A value of the function on top as a place, unless its list was overwritten.
LEMMA HereFacts ==
  ASSUME StateTypes, LoadsAgree, NEW v \in Values
  PROVE  LET a == <<Top, Variable(v)>> IN
         /\ a \in Places /\ a[1] = Top /\ a[2] = Variable(v)
         /\ Ref(v) \in ListsTo(Top)
         /\ ProxyOf(v) = ProxyAt(a) /\ ProxyOf(v) \in 0 .. Len(heap)
         /\ IsStale(v) <=> a \in stale
         /\ ~IsOverwritten(v) => Ref(v) = ListAt(a)
<1> DEFINE a == <<Top, Variable(v)>>
<1>1. Top \in 1 .. Top /\ Top # 0 /\ Here \in Calls(Top, Len(heap))
  BY CallFacts DEF Here
<1>2. a \in Places /\ a[1] = Top /\ a[2] = Variable(v)
  BY <1>1, ValueFacts DEF Places
<1>3. ProxyOf(v) = ProxyAt(a) /\ ListAt(a) = Here.ref[Variable(v)]
  BY <1>1, <1>2 DEF ProxyOf, ProxyAt, ListAt, Here
<1>4. Ref(v) \in ListsTo(Top)
  BY <1>1 DEF Ref, Calls
<1>5. ~IsOverwritten(v) => Ref(v) = Here.ref[Variable(v)]
  BY <1>1, ValueFacts DEF IsOverwritten, LoadsAgree, Ref, Here
<1> QED BY <1>2, <1>3, <1>4, <1>5, PlaceFacts DEF IsStale

\* A proxy that is in step is an object of the heap.
LEMMA InStepFacts ==
  ASSUME StateTypes, NEW p \in 0 .. Len(heap), NEW content, InStep(p, content)
  PROVE  p \in 1 .. Len(heap) /\ heap[p].live /\ heap[p].call = content.call
BY CallFacts DEF InStep, IsLive, NoProxy

\* A place after a step that was one before it, with the same list and proxy.
Persists(a, b) ==
  /\ b \in Places /\ Tracks(b)
  /\ ListAt(a)' = ListAt(b) /\ ProxyAt(a)' = ProxyAt(b)
  /\ Content(ListAt(a))' = Content(ListAt(b))
  /\ heap'[ProxyAt(b)] = heap[ProxyAt(b)]

\* It stays in step.
LEMMA PersistsInStep ==
  ASSUME StateTypes, StateTypes', TracksInStep,
         \A c \in 1 .. Top : c <= Top' => stack'[c].of = stack[c].of,
         NEW a \in Places', Tracks(a)', NEW b, Persists(a, b)
  PROVE  InStep(ProxyAt(a), Content(ListAt(a)))'
<1> PICK p, k : p = ProxyAt(b) /\ k = Content(ListAt(b))
  OBVIOUS
<1>1. b \in Places /\ InStep(p, k) /\ p \in 0 .. Len(heap)
  BY PlaceFacts DEF Persists, TracksInStep
<1>2. p # NoProxy /\ heap[p].live /\ heap[p].call = k.call
        /\ heap[p].slot = SlotOf(stack[k.call].of, k.at)
  BY <1>1 DEF InStep, IsLive, SlotOf
<1>3. ProxyAt(a)' = p /\ Content(ListAt(a))' = k /\ heap'[p] = heap[p]
  BY DEF Persists
<1>4. ListAt(b) \in ListsTo(Top) /\ ListAt(b) # NoList /\ k # NoArgument
  BY <1>1, PlaceFacts DEF Persists, Tracks
<1>5. k.call \in 1 .. Top
  BY <1>4, ListFacts
<1>6. k.call <= Top' /\ Top' \in Nat
  <2>1. (Top \in Nat)' /\ Content(ListAt(a))'.call \in 1 .. Top'
    BY NextWellTyped DEF WellTyped
  <2> QED BY <1>3, <2>1
<1>7. stack'[k.call].of = stack[k.call].of
  BY <1>5, <1>6
<1>8. IsLive(p)'
  BY <1>2, <1>3, <1>6 DEF IsLive, NoProxy
<1> QED BY <1>2, <1>3, <1>7, <1>8 DEF InStep, SlotOf

\* If what is not from before is in step and distinct, all is.
LEMMA Persisting ==
  ASSUME StateTypes, StateTypes', TracksInStep, Distinct,
         \A c \in 1 .. Top : c <= Top' => stack'[c].of = stack[c].of,
         NEW W,
         \A a \in Places' : Tracks(a)' /\ a \notin W => \E b : Persists(a, b),
         \A a \in Places' : Tracks(a)' /\ a \in W => InStep(ProxyAt(a), Content(ListAt(a)))',
         \A a, b \in Places' : Tracks(a)' /\ Tracks(b)' /\ a \in W =>
           (ListAt(a) = ListAt(b) <=> ProxyAt(a) = ProxyAt(b))'
  PROVE  TracksInStep' /\ Distinct'
<1>1. ASSUME NEW a \in Places', Tracks(a)'
      PROVE  InStep(ProxyAt(a), Content(ListAt(a)))'
  <2>1. CASE a \in W
    BY <1>1, <2>1
  <2>2. CASE a \notin W
    <3>1. PICK b : Persists(a, b)
      BY <1>1, <2>2
    <3> QED BY <1>1, <3>1, PersistsInStep
  <2> QED BY <2>1, <2>2
<1>2. ASSUME NEW a \in Places', NEW b \in Places', Tracks(a)', Tracks(b)'
      PROVE  (ListAt(a) = ListAt(b) <=> ProxyAt(a) = ProxyAt(b))'
  <2>1. CASE a \in W
    BY <1>2, <2>1
  <2>2. CASE b \in W
    <3>1. (ListAt(b) = ListAt(a) <=> ProxyAt(b) = ProxyAt(a))'
      BY <1>2, <2>2
    <3> QED BY <3>1
  <2>3. CASE a \notin W /\ b \notin W
    <3>1. PICK x : Persists(a, x)
      BY <1>2, <2>3
    <3>2. PICK y : Persists(b, y)
      BY <1>2, <2>3
    <3>3. ListAt(x) = ListAt(y) <=> ProxyAt(x) = ProxyAt(y)
      BY <3>1, <3>2 DEF Persists, Distinct
    <3> QED BY <3>1, <3>2, <3>3 DEF Persists
  <2> QED BY <2>1, <2>2, <2>3
<1> QED BY <1>1, <1>2 DEF TracksInStep, Distinct

\* What was misused stays so; a program that is followed uses what it may.
LEMMA UsingFacts ==
  ASSUME NEW S, NEW L, NEW others, Using(S, L, others)
  PROVE  /\ Followed' =>
              Followed /\ (\A v \in S : ~IsOverwritten(v)) /\ (\A v \in L : ~IsStale(v))
         /\ misused' = {} => misused = {} /\ others = {}
BY DEF Using, Followed

-----------------------------------------------------------------------------
(* Writing to a call.                                                       *)

\* A call in which a list gets a new position.
LEMMA CallWithList ==
  ASSUME NEW d, NEW m, NEW r \in Calls(d, m), NEW n \in Locals, NEW content \in ContentsTo(d)
  PROVE  LET new == [r EXCEPT !.lists[n] = content] IN
         /\ new \in Calls(d, m)
         /\ new.of = r.of /\ new.ref = r.ref /\ new.proxy = r.proxy
         /\ new.frame = r.frame /\ new.loaded = r.loaded
         /\ \A k \in Locals : new.lists[k] = IF k = n THEN content ELSE r.lists[k]
<1>1. r.lists \in [Locals -> ContentsTo(d)]
  BY DEF Calls
<1> DEFINE l == [r.lists EXCEPT ![n] = content]
<1>2. l \in [Locals -> ContentsTo(d)] /\ \A k \in Locals : l[k] = IF k = n THEN content ELSE r.lists[k]
  BY <1>1
<1>3. [r EXCEPT !.lists[n] = content] = [r EXCEPT !.lists = l]
  OBVIOUS
<1> HIDE DEF l
<1> QED BY <1>2, <1>3 DEF Calls

\* A call in which a variable gets a new proxy.
LEMMA CallWithProxy ==
  ASSUME NEW d, NEW m, NEW r \in Calls(d, m), NEW x \in Variables, NEW p \in 0 .. m
  PROVE  LET new == [r EXCEPT !.proxy[x] = p] IN
         /\ new \in Calls(d, m)
         /\ new.of = r.of /\ new.ref = r.ref /\ new.lists = r.lists
         /\ new.frame = r.frame /\ new.loaded = r.loaded
         /\ \A y \in Variables : new.proxy[y] = IF y = x THEN p ELSE r.proxy[y]
<1>1. r.proxy \in [Variables -> 0 .. m]
  BY DEF Calls
<1> DEFINE l == [r.proxy EXCEPT ![x] = p]
<1>2. l \in [Variables -> 0 .. m] /\ \A y \in Variables : l[y] = IF y = x THEN p ELSE r.proxy[y]
  BY <1>1
<1>3. [r EXCEPT !.proxy[x] = p] = [r EXCEPT !.proxy = l]
  OBVIOUS
<1> HIDE DEF l
<1> QED BY <1>2, <1>3 DEF Calls

\* The stack in which a list has a new position, and a variable a new proxy.
ListWritten(st, c, n, content) == [st EXCEPT ![c].lists[n] = content]
ProxyWritten(st, c, x, p) == [st EXCEPT ![c].proxy[x] = p]
WithBoth(st, c, n, content, t, x, p) ==
  [st EXCEPT ![c].lists[n] = content, ![t].proxy[x] = p]

\* What is different in `new': a list, a variable, or both.
OnlyList(new, st, c, n, content) ==
  /\ Len(new) = Len(st)
  /\ \A i \in 1 .. Len(st) :
       /\ new[i].of = st[i].of /\ new[i].ref = st[i].ref /\ new[i].proxy = st[i].proxy
       /\ new[i].frame = st[i].frame /\ new[i].loaded = st[i].loaded
       /\ \A k \in Locals :
            new[i].lists[k] = IF i = c /\ k = n THEN content ELSE st[i].lists[k]

OnlyProxy(new, st, c, x, p) ==
  /\ Len(new) = Len(st)
  /\ \A i \in 1 .. Len(st) :
       /\ new[i].of = st[i].of /\ new[i].ref = st[i].ref /\ new[i].lists = st[i].lists
       /\ new[i].frame = st[i].frame /\ new[i].loaded = st[i].loaded
       /\ \A y \in Variables :
            new[i].proxy[y] = IF i = c /\ y = x THEN p ELSE st[i].proxy[y]

OnlyBoth(new, st, c, n, content, t, x, p) ==
  /\ Len(new) = Len(st)
  /\ \A i \in 1 .. Len(st) :
       /\ new[i].of = st[i].of /\ new[i].ref = st[i].ref
       /\ new[i].frame = st[i].frame /\ new[i].loaded = st[i].loaded
       /\ \A k \in Locals :
            new[i].lists[k] = IF i = c /\ k = n THEN content ELSE st[i].lists[k]
       /\ \A y \in Variables :
            new[i].proxy[y] = IF i = t /\ y = x THEN p ELSE st[i].proxy[y]

\* Only that list of that call has changed.
LEMMA WriteList ==
  ASSUME NEW d, NEW m, NEW st \in Seq(Calls(d, m)), NEW c \in 1 .. Len(st), NEW n \in Locals,
         NEW content \in ContentsTo(d)
  PROVE  /\ ListWritten(st, c, n, content) \in Seq(Calls(d, m))
         /\ OnlyList(ListWritten(st, c, n, content), st, c, n, content)
<1> DEFINE r == [st[c] EXCEPT !.lists[n] = content]
           new == [st EXCEPT ![c] = r]
<1>1. st[c] \in Calls(d, m)
  BY ElementOfSeq
<1>2. /\ r \in Calls(d, m)
      /\ r.of = st[c].of /\ r.ref = st[c].ref /\ r.proxy = st[c].proxy
      /\ r.frame = st[c].frame /\ r.loaded = st[c].loaded
      /\ \A k \in Locals : r.lists[k] = IF k = n THEN content ELSE st[c].lists[k]
  BY <1>1, CallWithList
<1>3. new = ListWritten(st, c, n, content)
  BY DEF ListWritten
<1> HIDE DEF r
<1>4. /\ new \in Seq(Calls(d, m)) /\ Len(new) = Len(st)
      /\ \A i \in 1 .. Len(st) : new[i] = IF i = c THEN r ELSE st[i]
  BY <1>2, ExceptSeq
<1> HIDE DEF new
<1>5. OnlyList(new, st, c, n, content)
  BY <1>2, <1>4 DEF OnlyList
<1> QED BY <1>3, <1>4, <1>5

\* Only that variable of that call has changed.
LEMMA WriteProxy ==
  ASSUME NEW d, NEW m, NEW st \in Seq(Calls(d, m)), NEW c \in 1 .. Len(st), NEW x \in Variables,
         NEW p \in 0 .. m
  PROVE  /\ ProxyWritten(st, c, x, p) \in Seq(Calls(d, m))
         /\ OnlyProxy(ProxyWritten(st, c, x, p), st, c, x, p)
<1> DEFINE r == [st[c] EXCEPT !.proxy[x] = p]
           new == [st EXCEPT ![c] = r]
<1>1. st[c] \in Calls(d, m)
  BY ElementOfSeq
<1>2. /\ r \in Calls(d, m)
      /\ r.of = st[c].of /\ r.ref = st[c].ref /\ r.lists = st[c].lists
      /\ r.frame = st[c].frame /\ r.loaded = st[c].loaded
      /\ \A y \in Variables : r.proxy[y] = IF y = x THEN p ELSE st[c].proxy[y]
  BY <1>1, CallWithProxy
<1>3. new = ProxyWritten(st, c, x, p)
  BY DEF ProxyWritten
<1> HIDE DEF r
<1>4. /\ new \in Seq(Calls(d, m)) /\ Len(new) = Len(st)
      /\ \A i \in 1 .. Len(st) : new[i] = IF i = c THEN r ELSE st[i]
  BY <1>2, ExceptSeq
<1> HIDE DEF new
<1>5. OnlyProxy(new, st, c, x, p)
  BY <1>2, <1>4 DEF OnlyProxy
<1> QED BY <1>3, <1>4, <1>5

\* Only the one list and the one variable have changed.
LEMMA WriteBoth ==
  ASSUME NEW d, NEW m, NEW st \in Seq(Calls(d, m)), NEW c \in 1 .. Len(st), NEW n \in Locals,
         NEW content \in ContentsTo(d), NEW t \in 1 .. Len(st), NEW x \in Variables,
         NEW p \in 0 .. m
  PROVE  /\ WithBoth(st, c, n, content, t, x, p) \in Seq(Calls(d, m))
         /\ OnlyBoth(WithBoth(st, c, n, content, t, x, p), st, c, n, content, t, x, p)
<1> DEFINE one == ListWritten(st, c, n, content)
           new == ProxyWritten(one, t, x, p)
<1>1. WithBoth(st, c, n, content, t, x, p) = new
  BY DEF WithBoth, ListWritten, ProxyWritten
<1>2. one \in Seq(Calls(d, m)) /\ OnlyList(one, st, c, n, content)
  BY WriteList
<1>3. t \in 1 .. Len(one)
  BY <1>2 DEF OnlyList
<1> HIDE DEF one
<1>4. new \in Seq(Calls(d, m)) /\ OnlyProxy(new, one, t, x, p)
  BY <1>2, <1>3, WriteProxy
<1> HIDE DEF new
<1>5. OnlyBoth(new, st, c, n, content, t, x, p)
  BY <1>2, <1>4 DEF OnlyList, OnlyProxy, OnlyBoth
<1> QED BY <1>1, <1>4, <1>5

-----------------------------------------------------------------------------
(* Steps that start, copy to or end a list.                                 *)

\* The same functions are active, with the same frames.
SameCalls ==
  /\ Len(stack') = Len(stack)
  /\ \A c \in 1 .. Top : stack'[c].of = stack[c].of /\ stack'[c].frame = stack[c].frame

\* Frames of calls that stay active have the same bounds.
LEMMA FramesStay == Framed /\ SameCalls => Framed'
<1> SUFFICES ASSUME Framed, SameCalls PROVE Framed'
  OBVIOUS
<1>1. Top' = Top
  BY DEF SameCalls, Top
<1>2. SUFFICES ASSUME NEW c \in 1 .. Top
               PROVE  LET s == stack'[c].of IN
                      /\ DOMAIN stack'[c].frame = 0 .. Code!FrameSize(CallOf(s)) - 1
                      /\ \A at \in DOMAIN s.varargs : s.varargs[at] = "p" =>
                           /\ SlotOf(s, at) \in DOMAIN stack'[c].frame
                           /\ stack'[c].frame[SlotOf(s, at)].arg = [call |-> c, at |-> at]
  BY <1>1 DEF Framed, SlotOf
<1>3. stack'[c].of = stack[c].of /\ stack'[c].frame = stack[c].frame
  BY DEF SameCalls
<1> QED BY <1>3 DEF Framed

\* The state after such a step: only one list and one variable changed.
LEMMA RestartState ==
  ASSUME StateTypes, Framed, LoadsAgree, NEW v \in Values, Ref(v) # NoList,
         NEW content \in ContentsTo(Top), NEW proxy \in 0 .. Len(heap'),
         heap' \in Seq(Proxies), Len(heap) <= Len(heap'),
         Restarted(v, content, proxy), UNCHANGED <<memory, table>>
  PROVE  /\ StateTypes' /\ Framed' /\ LoadsAgree' /\ SameCalls
         /\ \A c \in 1 .. Top, n \in Locals :
              stack'[c].lists[n] = IF c = Ref(v).call /\ n = Ref(v).n THEN content
                                                                   ELSE stack[c].lists[n]
         /\ \A a \in Places :
              /\ ListAt(a)' = ListAt(a)
              /\ ProxyAt(a)' = IF a = <<Top, Variable(v)>> THEN proxy ELSE ProxyAt(a)
         /\ \A list \in ListsTo(Top) : list # NoList =>
              Content(list)' = IF list = Ref(v) THEN content ELSE Content(list)
<1> DEFINE m == Len(heap')
           l == Ref(v)
           x == Variable(v)
<1>1. Top \in Nat /\ Top \in 1 .. Top /\ Len(heap) \in Nat /\ m \in Nat /\ Top = Len(stack)
  BY CallFacts, LenProperties DEF Top
<1>2. l \in ListsTo(Top) /\ l.call \in 1 .. Top /\ l.n \in Locals /\ x \in Variables
  BY ValueFacts, HereFacts, ListFacts
<1>3. stack \in Seq(Calls(Top, m))
  <2>1. stack \in Seq(Calls(Top, Len(heap)))
    BY DEF StateTypes, Top
  <2>2. Calls(Top, Len(heap)) \subseteq Calls(Top, m)
    BY <1>1, CallsGrow
  <2> DEFINE A == Calls(Top, Len(heap))
             B == Calls(Top, m)
  <2> HIDE DEF A, B
  <2>3. stack \in Seq(B)
    BY <2>1, <2>2, SeqMonotonic DEF A, B
  <2> QED BY <2>3 DEF B
<1>4. stack' = WithBoth(stack, l.call, l.n, content, Top, x, proxy)
  BY DEF Restarted, WithBoth
<1>5. /\ stack' \in Seq(Calls(Top, m)) /\ Len(stack') = Len(stack)
      /\ \A i \in 1 .. Len(stack) :
           /\ stack'[i].of = stack[i].of /\ stack'[i].ref = stack[i].ref
           /\ stack'[i].frame = stack[i].frame /\ stack'[i].loaded = stack[i].loaded
           /\ \A k \in Locals :
                stack'[i].lists[k] = IF i = l.call /\ k = l.n THEN content ELSE stack[i].lists[k]
           /\ \A y \in Variables :
                stack'[i].proxy[y] = IF i = Top /\ y = x THEN proxy ELSE stack[i].proxy[y]
  <2> DEFINE st == stack
             c == l.call
             n == l.n
  <2>1. st \in Seq(Calls(Top, m)) /\ c \in 1 .. Len(st) /\ n \in Locals /\ Top \in 1 .. Len(st)
       /\ x \in Variables /\ content \in ContentsTo(Top) /\ proxy \in 0 .. m
    BY <1>1, <1>2, <1>3
  <2> HIDE DEF st, c, n, l, x, m
  <2>2. /\ WithBoth(st, c, n, content, Top, x, proxy) \in Seq(Calls(Top, m))
        /\ OnlyBoth(WithBoth(st, c, n, content, Top, x, proxy), st, c, n, content, Top, x, proxy)
    BY <2>1, WriteBoth
  <2>3. stack' = WithBoth(st, c, n, content, Top, x, proxy)
    BY <1>4 DEF st, c, n
  <2> QED BY <2>2, <2>3 DEF st, c, n, OnlyBoth
<1> HIDE DEF m, x
<1>6. SameCalls /\ Top' = Top
  BY <1>1, <1>5 DEF SameCalls, Top
<1>7. Framed'
  BY <1>6, FramesStay
<1>8. LoadsAgree'
  BY <1>1, <1>5, <1>6 DEF LoadsAgree
<1>9. Places' = Places
  BY <1>6 DEF Places, InMemory
<1>10. StateTypes'
  <2>1. Aliases(l) \subseteq Places
    BY DEF Aliases, Places
  <2>2. stale' \subseteq Places'
    <3>1. stale' \subseteq stale \cup Aliases(l)
      BY DEF Restarted
    <3> QED BY <1>9, <2>1, <3>1 DEF StateTypes
  <2>3. stack' \in Seq(Calls(Len(stack'), Len(heap'))) /\ Len(stack') \in 1 .. MaxDepth
    BY <1>1, <1>5 DEF StateTypes, m
  <2>4. memory' \in [InMemory -> ListsTo(Len(stack'))]
    BY <1>5 DEF StateTypes
  <2>5. table' \in [InMemory -> 0 .. Len(heap')]
    <3>1. 0 .. Len(heap) \subseteq 0 .. m
      BY <1>1 DEF m
    <3> QED BY <3>1 DEF StateTypes, m
  <2> QED BY <2>2, <2>3, <2>4, <2>5 DEF StateTypes, InMemory
<1>11. ASSUME NEW a \in Places
       PROVE  /\ ListAt(a)' = ListAt(a)
              /\ ProxyAt(a)' = IF a = <<Top, Variable(v)>> THEN proxy ELSE ProxyAt(a)
  <2>1. CASE a[1] = 0
    <3>1. a # <<Top, Variable(v)>>
      BY <1>1, <2>1
    <3> QED BY <2>1, <3>1 DEF ListAt, ProxyAt
  <2>2. CASE a[1] # 0
    <3>1. a = <<a[1], a[2]>> /\ a[1] \in 1 .. Len(stack) /\ a[2] \in Variables
      BY <1>1, <2>2 DEF Places
    <3>2. stack'[a[1]].ref = stack[a[1]].ref
          /\ stack'[a[1]].proxy[a[2]] =
               IF a[1] = Top /\ a[2] = x THEN proxy ELSE stack[a[1]].proxy[a[2]]
      BY <1>5, <3>1
    <3>3. a = <<Top, x>> <=> a[1] = Top /\ a[2] = x
      BY <3>1
    <3> QED BY <2>2, <3>2, <3>3 DEF ListAt, ProxyAt, x
  <2> QED BY <2>1, <2>2
<1>12. ASSUME NEW list \in ListsTo(Top), list # NoList
       PROVE  Content(list)' = IF list = Ref(v) THEN content ELSE Content(list)
  <2>1. list.call \in 1 .. Top /\ list.n \in Locals /\ list = [call |-> list.call, n |-> list.n]
    BY <1>12, ListFacts
  <2>2. l = [call |-> l.call, n |-> l.n]
    BY <1>2, ListFacts
  <2>3. list = l <=> list.call = l.call /\ list.n = l.n
    BY <2>1, <2>2
  <2>4. Content(list)' = stack'[list.call].lists[list.n]
    BY DEF Content
  <2> QED BY <1>1, <1>5, <2>1, <2>3, <2>4 DEF Content
<1> QED BY <1>1, <1>5, <1>6, <1>7, <1>8, <1>10, <1>11, <1>12

\* What such a step leaves in step, if the new proxy is at the new position and
\* no other list has it.
LEMMA RestartTracks ==
  ASSUME StateTypes, Framed, LoadsAgree, TracksInStep, Distinct,
         NEW v \in Values, Ref(v) # NoList, ~IsOverwritten(v),
         NEW content \in ContentsTo(Top), NEW proxy \in 0 .. Len(heap'),
         heap' \in Seq(Proxies), Len(heap) <= Len(heap'),
         Restarted(v, content, proxy), UNCHANGED <<memory, table>>,
         \A b \in Places : Tracks(b) /\ ListAt(b) # Ref(v) =>
           ProxyAt(b) # proxy /\ heap'[ProxyAt(b)] = heap[ProxyAt(b)],
         content # NoArgument =>
           /\ proxy # NoProxy /\ heap'[proxy].live /\ heap'[proxy].call = content.call
           /\ heap'[proxy].slot = SlotOf(stack[content.call].of, content.at)
  PROVE  TracksInStep' /\ Distinct'
<1>0. PICK w : w = <<Top, Variable(v)>>
  OBVIOUS
<1>1. /\ StateTypes' /\ SameCalls
      /\ \A a \in Places :
           /\ ListAt(a)' = ListAt(a)
           /\ ProxyAt(a)' = IF a = w THEN proxy ELSE ProxyAt(a)
      /\ \A list \in ListsTo(Top) : list # NoList =>
           Content(list)' = IF list = Ref(v) THEN content ELSE Content(list)
  BY <1>0, RestartState
<1>2. Top' = Top /\ Places' = Places /\ Top \in Nat
  BY <1>1, CallFacts DEF SameCalls, Top, Places, InMemory
<1>3. w \in Places /\ ListAt(w) = Ref(v)
  BY <1>0, HereFacts
<1>4. ASSUME NEW a \in Places, Tracks(a)', a # w
      PROVE  Tracks(a) /\ ListAt(a) # Ref(v) /\ Persists(a, a)
  <2>1. a \notin stale' /\ ListAt(a) # NoList
    BY <1>1, <1>4 DEF Tracks, NoList
  <2>2. a \notin stale /\ a \notin Aliases(Ref(v))
    BY <1>0, <1>4, <2>1 DEF Restarted
  <2>3. ListAt(a) # Ref(v)
    <3>1. CASE a[1] = 0
      <4>1. a[2] \in InMemory /\ a = <<0, a[2]>>
        BY <1>2, <3>1 DEF Places
      <4> QED BY <2>2, <3>1, <4>1 DEF Aliases, ListAt
    <3>2. CASE a[1] # 0
      <4>1. a \in (1 .. Top) \X Variables
        BY <3>2 DEF Places
      <4> QED BY <2>2, <3>2, <4>1 DEF Aliases, ListAt
    <3> QED BY <3>1, <3>2
  <2>4. ListAt(a) \in ListsTo(Top)
    BY PlaceFacts
  <2>5. Content(ListAt(a))' = Content(ListAt(a))
    <3> PICK list : list = ListAt(a) OBVIOUS
    <3>1. Content(list)' = Content(list)
      BY <1>1, <2>1, <2>3, <2>4
    <3>2. ListAt(a)' = list
      BY <1>1
    <3> QED BY <3>1, <3>2 DEF Content
  <2>6. Content(ListAt(a)) # NoArgument
    BY <1>4, <2>5 DEF Tracks, NoArgument
  <2>7. Tracks(a)
    BY <2>1, <2>2, <2>6 DEF Tracks
  <2> QED BY <1>1, <1>4, <2>3, <2>5, <2>7 DEF Persists
<1>5. ASSUME Tracks(w)'
      PROVE  InStep(ProxyAt(w), Content(ListAt(w)))'
  <2> PICK list : list = ListAt(w) OBVIOUS
  <2>1. list # NoList /\ list \in ListsTo(Top) /\ ListAt(w)' = list
    BY <1>1, <1>3, <1>5, PlaceFacts DEF Tracks, NoList
  <2>2. Content(list)' = content
    BY <1>1, <1>3, <2>1
  <2>3. Content(ListAt(w))' = content
    BY <2>1, <2>2 DEF Content
  <2>4. content # NoArgument
    BY <1>5, <2>3 DEF Tracks, NoArgument
  <2>5. content.call \in 1 .. Top
    BY <2>4 DEF ContentsTo
  <2>6. IsLive(proxy)' /\ ProxyAt(w)' = proxy
    BY <1>1, <1>2, <1>3, <2>4, <2>5 DEF IsLive, NoProxy
  <2>7. stack'[content.call].of = stack[content.call].of
    BY <1>1, <2>5 DEF SameCalls
  <2> QED BY <2>3, <2>4, <2>6, <2>7 DEF InStep, SlotOf
<1>6. ASSUME NEW b \in Places, Tracks(w)', Tracks(b)'
      PROVE  (ListAt(w) = ListAt(b) <=> ProxyAt(w) = ProxyAt(b))'
  <2>1. CASE b = w
    BY <2>1
  <2>2. CASE b # w
    <3>1. Tracks(b) /\ ListAt(b) # Ref(v)
      BY <1>4, <1>6, <2>2
    <3> QED BY <1>1, <1>3, <2>2, <3>1
  <2> QED BY <2>1, <2>2
<1>7. \A c \in 1 .. Top : c <= Top' => stack'[c].of = stack[c].of
  BY <1>1 DEF SameCalls
<1> DEFINE W == {w}
<1>8. /\ \A a \in Places' : Tracks(a)' /\ a \notin W => \E b : Persists(a, b)
      /\ \A a \in Places' : Tracks(a)' /\ a \in W => InStep(ProxyAt(a), Content(ListAt(a)))'
      /\ \A a, b \in Places' : Tracks(a)' /\ Tracks(b)' /\ a \in W =>
           (ListAt(a) = ListAt(b) <=> ProxyAt(a) = ProxyAt(b))'
  BY <1>2, <1>4, <1>5, <1>6
<1> HIDE DEF W
<1> QED BY <1>1, <1>7, <1>8, Persisting

-----------------------------------------------------------------------------
(* Counting proxies and started lists.                                      *)

Alive == {p \in DOMAIN heap : heap[p].live}
Started == {a \in (1 .. Top) \X Locals : stack[a[1]].lists[a[2]] # NoArgument}

\* There are finitely many of both.
LEMMA CountFacts ==
  ASSUME StateTypes
  PROVE  IsFiniteSet(Alive) /\ IsFiniteSet(Started)
<1>1. Len(heap) \in Nat /\ DOMAIN heap = 1 .. Len(heap) /\ Top \in Nat
  BY CallFacts
<1>2. IsFiniteSet(1 .. Len(heap)) /\ IsFiniteSet(1 .. Top)
  BY <1>1, FS_Interval
<1>3. IsFiniteSet((1 .. Top) \X Locals)
  BY <1>2, LocalsAssumption, FS_Product DEF LocalsAssumption
<1>4. Alive \subseteq 1 .. Len(heap) /\ Started \subseteq (1 .. Top) \X Locals
  BY <1>1 DEF Alive, Started
<1> QED BY <1>2, <1>3, <1>4, FS_Subset

\* One more of both, or one less, are as many.
LEMMA SameCount ==
  ASSUME NEW A, NEW B, IsFiniteSet(A), IsFiniteSet(B), Cardinality(A) = Cardinality(B), NEW x, NEW y
  PROVE  /\ x \notin A /\ y \notin B => Cardinality(A \cup {x}) = Cardinality(B \cup {y})
         /\ x \in A /\ y \in B => Cardinality(A \ {x}) = Cardinality(B \ {y})
<1>1. /\ Cardinality(A \cup {x}) = IF x \in A THEN Cardinality(A) ELSE Cardinality(A) + 1
      /\ Cardinality(B \cup {y}) = IF y \in B THEN Cardinality(B) ELSE Cardinality(B) + 1
  BY FS_AddElement
<1>2. /\ Cardinality(A \ {x}) = IF x \in A THEN Cardinality(A) - 1 ELSE Cardinality(A)
      /\ Cardinality(B \ {y}) = IF y \in B THEN Cardinality(B) - 1 ELSE Cardinality(B)
  BY FS_RemoveElement
<1> QED BY <1>1, <1>2

\* No list has another content than before, but this one.
Rewritten(list, content) ==
  \A c \in 1 .. Top, n \in Locals :
    stack'[c].lists[n] = IF c = list.call /\ n = list.n THEN content ELSE stack[c].lists[n]

\* Which lists are started after one was started, copied to or ended.
LEMMA RestartCount ==
  ASSUME StateTypes, SameCalls, NEW list \in ListsTo(Top), list # NoList, NEW content,
         Rewritten(list, content)
  PROVE  /\ content # NoArgument => Started' = Started \cup {<<list.call, list.n>>}
         /\ content = NoArgument => Started' = Started \ {<<list.call, list.n>>}
         /\ <<list.call, list.n>> \in Started <=> Content(list) # NoArgument
<1>1. list.call \in 1 .. Top /\ list.n \in Locals
  BY ListFacts
<1>2. Top' = Top
  BY DEF SameCalls, Top
<1>3. Started' = {a \in (1 .. Top) \X Locals : stack'[a[1]].lists[a[2]] # NoArgument}
  BY <1>2 DEF Started, NoArgument
<1>4. \A a \in (1 .. Top) \X Locals :
        /\ a = <<list.call, list.n>> => stack'[a[1]].lists[a[2]] = content
        /\ a # <<list.call, list.n>> => stack'[a[1]].lists[a[2]] = stack[a[1]].lists[a[2]]
  BY DEF Rewritten
<1>5. <<list.call, list.n>> \in (1 .. Top) \X Locals
  BY <1>1
<1> QED BY <1>3, <1>4, <1>5 DEF Started, Content

-----------------------------------------------------------------------------
(* Operations on lists.                                                     *)

\* A new proxy is the last object of the heap.
LEMMA HeapGrows ==
  ASSUME StateTypes, NEW x \in Proxies, heap' = Append(heap, x)
  PROVE  /\ heap' \in Seq(Proxies) /\ Len(heap') = Len(heap) + 1 /\ Len(heap) <= Len(heap')
         /\ \A p \in 1 .. Len(heap) : heap'[p] = heap[p]
         /\ heap'[Len(heap')] = x
         /\ Len(heap') \notin DOMAIN heap
         /\ Alive' = IF x.live THEN Alive \cup {Len(heap')} ELSE Alive
<1>1. heap \in Seq(Proxies) /\ Len(heap) \in Nat /\ DOMAIN heap = 1 .. Len(heap)
  BY CallFacts DEF StateTypes
<1>2. /\ heap' \in Seq(Proxies) /\ Len(heap') = Len(heap) + 1
      /\ \A p \in 1 .. Len(heap) : heap'[p] = heap[p]
      /\ heap'[Len(heap) + 1] = x
  <2> DEFINE h == heap
             P == Proxies
  <2>1. h \in Seq(P) /\ x \in P
    BY <1>1
  <2> HIDE DEF h, P
  <2>2. /\ Append(h, x) \in Seq(P) /\ Len(Append(h, x)) = Len(h) + 1
        /\ \A p \in 1 .. Len(h) : Append(h, x)[p] = h[p]
        /\ Append(h, x)[Len(h) + 1] = x
    BY <2>1, AppendProperties
  <2> QED BY <2>2 DEF h, P
<1>3. DOMAIN heap' = 1 .. Len(heap) + 1
  BY <1>1, <1>2, LenProperties
<1>4. Alive' = IF x.live THEN Alive \cup {Len(heap')} ELSE Alive
  BY <1>1, <1>2, <1>3 DEF Alive
<1> QED BY <1>1, <1>2, <1>4

\* The first slot of the variadic arguments is that of the first of them.
LEMMA FirstSlot ==
  ASSUME NEW s \in Signatures
  PROVE  FirstVarArg(s.fun) \in Nat /\ SlotOf(s, 1) = FirstVarArg(s.fun)
<1>1. s.fun.params \in Seq(Type) /\ Code!NumberOfPointers(s.fun.ret) \in Nat
  BY SignatureFacts
<1>2. DOMAIN s.fun.params = 1 .. Len(s.fun.params) /\ Len(s.fun.params) \in Nat
  BY <1>1, LenProperties
<1>3. IsFiniteSet(1 .. Len(s.fun.params))
  BY <1>2, FS_Interval
<1>4. IsFiniteSet({j \in DOMAIN s.fun.params : s.fun.params[j] = "p"})
  BY <1>2, <1>3, FS_Subset
<1>5. FirstVarArg(s.fun) \in Nat
  BY <1>1, <1>4, FS_CardinalityType DEF FirstVarArg
<1>6. {k \in 1 .. 1 - 1 : s.varargs[k] = "p"} = {}
  OBVIOUS
<1> QED BY <1>5, <1>6, FS_EmptySet DEF SlotOf

\* The bounds gotten last are not touched.
LEMMA GotStays ==
  ASSUME VarArgBoundsAreRight, got' = got, Followed' => Followed
  PROVE  VarArgBoundsAreRight'
BY DEF VarArgBoundsAreRight

\* What va_start, va_copy and va_end have in common.
LEMMA RestartKeeps ==
  ASSUME Inv, NEW v \in Values, Ref(v) # NoList,
         NEW content \in ContentsTo(Top), NEW proxy \in 0 .. Len(heap'),
         heap' \in Seq(Proxies), Len(heap) <= Len(heap'),
         Restarted(v, content, proxy), UNCHANGED <<memory, table, got>>,
         Followed' => Followed /\ ~IsOverwritten(v),
         Followed' => \A b \in Places : Tracks(b) /\ ListAt(b) # Ref(v) =>
           ProxyAt(b) # proxy /\ heap'[ProxyAt(b)] = heap[ProxyAt(b)],
         Followed' /\ content # NoArgument =>
           /\ proxy # NoProxy /\ heap'[proxy].live /\ heap'[proxy].call = content.call
           /\ heap'[proxy].slot = SlotOf(stack[content.call].of, content.at),
         misused' = {} => Cardinality(Alive') = Cardinality(Started')
  PROVE  Inv'
<1>1. StateTypes /\ Framed /\ LoadsAgree /\ UNCHANGED <<memory, table>>
  BY DEF Inv
<1>2. StateTypes' /\ Framed' /\ LoadsAgree'
  BY <1>1, RestartState
<1>3. ASSUME Followed' PROVE TracksInStep' /\ Distinct'
  <2>1. /\ TracksInStep /\ Distinct /\ ~IsOverwritten(v)
        /\ \A b \in Places : Tracks(b) /\ ListAt(b) # Ref(v) =>
             ProxyAt(b) # proxy /\ heap'[ProxyAt(b)] = heap[ProxyAt(b)]
        /\ content # NoArgument =>
             /\ proxy # NoProxy /\ heap'[proxy].live /\ heap'[proxy].call = content.call
             /\ heap'[proxy].slot = SlotOf(stack[content.call].of, content.at)
    BY <1>3 DEF Inv
  <2> QED BY <1>1, <2>1, RestartTracks
<1>4. ProxiesAreFreed'
  BY DEF ProxiesAreFreed, Alive, Started
<1>5. VarArgBoundsAreRight'
  BY GotStays DEF Inv
<1> QED BY <1>2, <1>3, <1>4, <1>5 DEF Inv

\* Which lists are started then.
LEMMA RestartStarts ==
  ASSUME Inv, NEW v \in Values, Ref(v) # NoList,
         NEW content \in ContentsTo(Top), NEW proxy \in 0 .. Len(heap'),
         heap' \in Seq(Proxies), Len(heap) <= Len(heap'),
         Restarted(v, content, proxy), UNCHANGED <<memory, table>>
  PROVE  \E a :
           /\ content # NoArgument => Started' = Started \cup {a}
           /\ content = NoArgument => Started' = Started \ {a}
           /\ a \in Started <=> IsStarted(v)
<1>1. StateTypes /\ Framed /\ LoadsAgree
  BY DEF Inv
<1>2. /\ SameCalls
      /\ \A c \in 1 .. Top, n \in Locals :
           stack'[c].lists[n] = IF c = Ref(v).call /\ n = Ref(v).n THEN content
                                                                ELSE stack[c].lists[n]
  BY <1>1, RestartState
<1>3. PICK list : list = Ref(v)
  OBVIOUS
<1>4. list \in ListsTo(Top) /\ list # NoList
  BY <1>1, <1>3, HereFacts
<1>5. Rewritten(list, content)
  BY <1>2, <1>3 DEF Rewritten
<1>6. SameCalls
  BY <1>2
<1>7. /\ content # NoArgument => Started' = Started \cup {<<list.call, list.n>>}
      /\ content = NoArgument => Started' = Started \ {<<list.call, list.n>>}
      /\ <<list.call, list.n>> \in Started <=> Content(list) # NoArgument
  BY <1>1, <1>4, <1>5, <1>6, RestartCount
<1> QED BY <1>3, <1>4, <1>7 DEF IsStarted

\* As many proxies as started lists, before and after.
LEMMA Counted ==
  ASSUME Inv, misused = {}
  PROVE  /\ IsFiniteSet(Alive) /\ IsFiniteSet(Started)
         /\ Cardinality(Alive) = Cardinality(Started)
BY CountFacts DEF Inv, ProxiesAreFreed, Alive, Started

\* What is tracked is not touched when a proxy is made.
LEMMA NewProxy ==
  ASSUME StateTypes, TracksInStep, NEW x \in Proxies, heap' = Append(heap, x),
         NEW b \in Places, Tracks(b)
  PROVE  ProxyAt(b) # Len(heap') /\ heap'[ProxyAt(b)] = heap[ProxyAt(b)]
<1>1. ProxyAt(b) \in 0 .. Len(heap) /\ InStep(ProxyAt(b), Content(ListAt(b)))
  BY PlaceFacts DEF TracksInStep
<1>2. ProxyAt(b) \in 1 .. Len(heap) /\ Len(heap) \in Nat
  BY <1>1, CallFacts, InStepFacts
<1> QED BY <1>2, HeapGrows

\* A list that the program may use has a proxy that is in step.
LEMMA UsedInStep ==
  ASSUME Inv, Followed, NEW v \in Values, IsStarted(v), ~IsStale(v), ~IsOverwritten(v)
  PROVE  \E a \in Places :
           /\ Tracks(a) /\ ListAt(a) = Ref(v) /\ ProxyAt(a) = ProxyOf(v)
           /\ InStep(ProxyOf(v), Content(Ref(v))) /\ ProxyOf(v) \in 1 .. Len(heap)
<1>1. StateTypes /\ LoadsAgree /\ TracksInStep
  BY DEF Inv
<1>2. PICK a : a = <<Top, Variable(v)>>
  OBVIOUS
<1>3. a \in Places /\ ProxyOf(v) = ProxyAt(a) /\ ProxyOf(v) \in 0 .. Len(heap)
        /\ a \notin stale /\ Ref(v) = ListAt(a)
  BY <1>1, <1>2, HereFacts
<1>4. Tracks(a)
  BY <1>3 DEF Tracks, IsStarted
<1>5. InStep(ProxyOf(v), Content(Ref(v)))
  BY <1>1, <1>3, <1>4 DEF TracksInStep
<1>6. ProxyOf(v) \in 1 .. Len(heap)
  BY <1>1, <1>3, <1>5, InStepFacts
<1> QED BY <1>3, <1>4, <1>5, <1>6

\* An object of the heap changes.
LEMMA HeapChanges ==
  ASSUME StateTypes, NEW p \in 1 .. Len(heap), NEW x \in Proxies,
         heap' = [heap EXCEPT ![p] = x]
  PROVE  /\ heap' \in Seq(Proxies) /\ Len(heap') = Len(heap)
         /\ \A q \in 1 .. Len(heap) : heap'[q] = IF q = p THEN x ELSE heap[q]
         /\ Alive' = IF x.live THEN Alive \cup {p} ELSE Alive \ {p}
<1>1. heap \in Seq(Proxies) /\ DOMAIN heap = 1 .. Len(heap)
  BY CallFacts DEF StateTypes
<1>2. /\ heap' \in Seq(Proxies) /\ Len(heap') = Len(heap)
      /\ \A q \in 1 .. Len(heap) : heap'[q] = IF q = p THEN x ELSE heap[q]
  <2> DEFINE h == heap
             P == Proxies
  <2>1. h \in Seq(P) /\ x \in P /\ p \in 1 .. Len(h)
    BY <1>1
  <2> HIDE DEF h, P
  <2>2. /\ [h EXCEPT ![p] = x] \in Seq(P) /\ Len([h EXCEPT ![p] = x]) = Len(h)
        /\ \A q \in 1 .. Len(h) : [h EXCEPT ![p] = x][q] = IF q = p THEN x ELSE h[q]
    BY <2>1, ExceptSeq
  <2> QED BY <2>2 DEF h, P
<1>3. DOMAIN heap' = 1 .. Len(heap)
  BY <1>1
<1> QED BY <1>1, <1>2, <1>3 DEF Alive

\* va_start
LEMMA VaStartKeeps ==
  ASSUME Inv, NEW v \in Values, VaStart(v)
  PROVE  Inv'
<1>0. PICK content, p, x :
        /\ content = [call |-> Top, at |-> 1] /\ p = Len(heap')
        /\ x = [call |-> Top, slot |-> FirstVarArg(Here.of.fun), live |-> TRUE]
  OBVIOUS
<1>1. /\ StateTypes /\ Ref(v) # NoList
      /\ Restarted(v, content, p) /\ UNCHANGED <<memory, table, got>>
      /\ heap' = Append(heap, x) /\ Using({v}, {}, Unended(v))
  BY <1>0 DEF Inv, VaStart
<1>2. Top \in 1 .. MaxDepth /\ Top \in 1 .. Top /\ Top \in Nat /\ Here.of \in Signatures
      /\ DOMAIN heap = 1 .. Len(heap) /\ Len(heap) \in Nat
  BY <1>1, CallFacts DEF Here, Calls
<1>3. x \in Proxies /\ content \in ContentsTo(Top) /\ content # NoArgument
  BY <1>0, <1>2, FirstSlot DEF Proxies, ContentsTo, NoArgument
<1>4. /\ heap' \in Seq(Proxies) /\ p = Len(heap) + 1 /\ Len(heap) <= Len(heap')
      /\ \A q \in 1 .. Len(heap) : heap'[q] = heap[q]
      /\ heap'[p] = x /\ p \notin DOMAIN heap /\ Alive' = Alive \cup {p}
  BY <1>0, <1>1, <1>3, HeapGrows
<1>5. p \in 0 .. Len(heap') /\ p # NoProxy
  BY <1>0, <1>2, <1>4 DEF NoProxy
<1>6. /\ heap'[p].live /\ heap'[p].call = content.call
      /\ heap'[p].slot = SlotOf(stack[content.call].of, content.at)
  BY <1>0, <1>2, <1>4, FirstSlot DEF Here
<1>7. /\ Followed' => Followed /\ ~IsOverwritten(v)
      /\ misused' = {} => misused = {} /\ Unended(v) = {}
  BY <1>1, UsingFacts
<1>8. ASSUME Followed', NEW b \in Places, Tracks(b)
      PROVE  ProxyAt(b) # p /\ heap'[ProxyAt(b)] = heap[ProxyAt(b)]
  <2>1. TracksInStep
    BY <1>7, <1>8 DEF Inv
  <2> QED BY <1>0, <1>1, <1>3, <1>8, <2>1, NewProxy
<1>9. ASSUME misused' = {} PROVE Cardinality(Alive') = Cardinality(Started')
  <2>1. misused = {} /\ ~IsStarted(v)
    BY <1>7, <1>9 DEF Unended
  <2>2. PICK a : Started' = Started \cup {a} /\ a \notin Started
    BY <1>1, <1>3, <1>4, <1>5, <2>1, RestartStarts
  <2>3. p \notin Alive
    BY <1>4 DEF Alive
  <2> QED BY <1>4, <2>1, <2>2, <2>3, Counted, SameCount
<1> QED BY <1>1, <1>3, <1>4, <1>5, <1>6, <1>7, <1>8, <1>9, RestartKeeps

\* va_copy
LEMMA VaCopyKeeps ==
  ASSUME Inv, NEW d \in Values, NEW s \in Values, VaCopy(d, s)
  PROVE  Inv'
<1>0. PICK content, p, x :
        /\ content = Content(Ref(s)) /\ p = Len(heap')
        /\ x = IF IsLive(ProxyOf(s)) THEN heap[ProxyOf(s)]
               ELSE [call |-> Top, slot |-> 0, live |-> FALSE]
  OBVIOUS
<1>1. /\ StateTypes /\ LoadsAgree /\ Ref(d) # NoList /\ IsStarted(s)
      /\ Restarted(d, content, p) /\ UNCHANGED <<memory, table, got>>
      /\ heap' = Append(heap, x) /\ Using({d, s}, {s}, Unended(d))
  BY <1>0 DEF Inv, VaCopy
<1>2. Top \in 1 .. MaxDepth /\ DOMAIN heap = 1 .. Len(heap) /\ Len(heap) \in Nat
        /\ \A q \in 1 .. Len(heap) : heap[q] \in Proxies
  BY <1>1, CallFacts
<1>3. x \in Proxies
  <2>1. CASE IsLive(ProxyOf(s))
    <3>1. ProxyOf(s) \in 0 .. Len(heap) /\ ProxyOf(s) # 0
      BY <1>1, <2>1, HereFacts DEF IsLive, NoProxy
    <3>2. ProxyOf(s) \in 1 .. Len(heap)
      BY <1>2, <3>1
    <3> QED BY <1>0, <1>2, <2>1, <3>2
  <2>2. CASE ~IsLive(ProxyOf(s))
    BY <1>0, <1>2, <2>2 DEF Proxies
  <2> QED BY <2>1, <2>2
<1>4. content \in ContentsTo(Top) /\ content # NoArgument
  BY <1>0, <1>1, HereFacts, ListFacts DEF IsStarted
<1>5. /\ heap' \in Seq(Proxies) /\ p = Len(heap) + 1 /\ Len(heap) <= Len(heap')
      /\ heap'[p] = x /\ p \notin DOMAIN heap /\ Alive' = IF x.live THEN Alive \cup {p} ELSE Alive
  BY <1>0, <1>1, <1>3, HeapGrows
<1>6. p \in 0 .. Len(heap') /\ p # NoProxy
  BY <1>0, <1>2, <1>5 DEF NoProxy
<1>7. /\ Followed' => Followed /\ ~IsOverwritten(d) /\ ~IsOverwritten(s) /\ ~IsStale(s)
      /\ misused' = {} => misused = {} /\ Unended(d) = {}
  BY <1>1, UsingFacts
<1>8. ASSUME Followed'
      PROVE  x.live /\ x.call = content.call
               /\ x.slot = SlotOf(stack[content.call].of, content.at)
  <2>1. InStep(ProxyOf(s), content)
    BY <1>0, <1>1, <1>7, <1>8, UsedInStep
  <2> QED BY <1>0, <2>1 DEF InStep, SlotOf, IsLive
<1>9. ASSUME Followed', NEW b \in Places, Tracks(b)
      PROVE  ProxyAt(b) # p /\ heap'[ProxyAt(b)] = heap[ProxyAt(b)]
  <2>1. TracksInStep
    BY <1>7, <1>9 DEF Inv
  <2> QED BY <1>0, <1>1, <1>3, <1>9, <2>1, NewProxy
<1>10. ASSUME misused' = {} PROVE Cardinality(Alive') = Cardinality(Started')
  <2>1. misused = {} /\ ~IsStarted(d) /\ Followed'
    BY <1>7, <1>10 DEF Unended, Followed
  <2>2. PICK a : Started' = Started \cup {a} /\ a \notin Started
    BY <1>1, <1>4, <1>5, <1>6, <2>1, RestartStarts
  <2>3. p \notin Alive /\ Alive' = Alive \cup {p}
    BY <1>5, <1>8, <2>1 DEF Alive
  <2> QED BY <2>1, <2>2, <2>3, Counted, SameCount
<1> QED BY <1>1, <1>4, <1>5, <1>6, <1>7, <1>8, <1>9, <1>10, RestartKeeps

\* va_end
LEMMA VaEndKeeps ==
  ASSUME Inv, NEW v \in Values, VaEnd(v)
  PROVE  Inv'
<1>0. PICK p : p = ProxyOf(v)
  OBVIOUS
<1>1. /\ StateTypes /\ LoadsAgree /\ IsStarted(v) /\ Ref(v) # NoList
      /\ Restarted(v, NoArgument, p) /\ UNCHANGED <<memory, table, got>>
      /\ heap' = (IF IsLive(p) THEN [heap EXCEPT ![p].live = FALSE] ELSE heap)
      /\ Using({v}, {v}, {})
  BY <1>0 DEF Inv, VaEnd, IsStarted
<1>2. /\ Len(heap) \in Nat /\ p \in 0 .. Len(heap) /\ NoArgument \in ContentsTo(Top)
      /\ \A q \in 1 .. Len(heap) : heap[q] \in Proxies
  BY <1>0, <1>1, CallFacts, HereFacts DEF ContentsTo
<1>3. /\ heap' \in Seq(Proxies) /\ Len(heap') = Len(heap)
      /\ \A q \in 1 .. Len(heap) : q # p => heap'[q] = heap[q]
      /\ IsLive(p) => Alive' = Alive \ {p}
  <2>1. CASE ~IsLive(p)
    BY <1>1, <2>1 DEF StateTypes
  <2>2. CASE IsLive(p)
    <3> DEFINE x == [heap[p] EXCEPT !.live = FALSE]
    <3>1. p \in 1 .. Len(heap)
      BY <1>2, <2>2 DEF IsLive, NoProxy
    <3>2. x \in Proxies /\ x.live = FALSE
      BY <1>2, <3>1 DEF Proxies
    <3>3. heap' = [heap EXCEPT ![p] = x]
      BY <1>1, <2>2
    <3> HIDE DEF x
    <3> QED BY <1>1, <3>1, <3>2, <3>3, HeapChanges
  <2> QED BY <2>1, <2>2
<1>4. /\ Followed' => Followed /\ ~IsOverwritten(v) /\ ~IsStale(v)
      /\ misused' = {} => misused = {}
  BY <1>1, UsingFacts
<1>5. ASSUME Followed', NEW b \in Places, Tracks(b), ListAt(b) # Ref(v)
      PROVE  ProxyAt(b) # p /\ heap'[ProxyAt(b)] = heap[ProxyAt(b)]
  <2>1. TracksInStep /\ Distinct
    BY <1>4, <1>5 DEF Inv
  <2>2. PICK a \in Places : Tracks(a) /\ ListAt(a) = Ref(v) /\ ProxyAt(a) = p
    BY <1>0, <1>1, <1>4, <1>5, UsedInStep
  <2>3. ProxyAt(b) # p
    BY <1>5, <2>1, <2>2 DEF Distinct
  <2>4. ProxyAt(b) \in 0 .. Len(heap) /\ InStep(ProxyAt(b), Content(ListAt(b)))
    BY <1>1, <1>5, <2>1, PlaceFacts DEF TracksInStep
  <2>5. ProxyAt(b) \in 1 .. Len(heap)
    BY <1>1, <2>4, InStepFacts
  <2> QED BY <1>3, <2>3, <2>5
<1>6. ASSUME misused' = {} PROVE Cardinality(Alive') = Cardinality(Started')
  <2>1. misused = {} /\ Followed'
    BY <1>4, <1>6 DEF Followed
  <2>2. p \in 1 .. Len(heap) /\ InStep(p, Content(Ref(v)))
    BY <1>0, <1>1, <1>4, <2>1, UsedInStep
  <2>3. IsLive(p) /\ p \in Alive
    BY <1>1, <2>2, CallFacts DEF InStep, IsLive, Alive
  <2>4. p \in 0 .. Len(heap') /\ Len(heap) <= Len(heap')
    BY <1>2, <1>3
  <2>5. PICK a : Started' = Started \ {a} /\ a \in Started
    BY <1>1, <1>2, <1>3, <2>4, RestartStarts
  <2> QED BY <1>3, <2>1, <2>3, <2>5, Counted, SameCount
<1>7. p \in 0 .. Len(heap') /\ Len(heap) <= Len(heap')
  BY <1>2, <1>3
<1> QED BY <1>1, <1>2, <1>3, <1>4, <1>5, <1>6, <1>7, RestartKeeps

\* The state after an argument was gotten: one list is at the next position.
LEMMA AdvancedState ==
  ASSUME StateTypes, Framed, LoadsAgree, NEW v \in Values, IsStarted(v), Advanced(v),
         heap' \in Seq(Proxies), Len(heap') = Len(heap), UNCHANGED <<memory, table, stale>>
  PROVE  /\ StateTypes' /\ Framed' /\ LoadsAgree' /\ SameCalls
         /\ \A a \in Places : ListAt(a)' = ListAt(a) /\ ProxyAt(a)' = ProxyAt(a)
         /\ \A list \in ListsTo(Top) : list # NoList =>
              Content(list)' = IF list = Ref(v) THEN [Content(list) EXCEPT !.at = @ + 1]
                                                ELSE Content(list)
         /\ Started' = Started
<1>0. PICK l, m, content :
        l = Ref(v) /\ m = Len(heap) /\ content = [Content(Ref(v)) EXCEPT !.at = @ + 1]
  OBVIOUS
<1>1. Top \in Nat /\ Top \in 1 .. Top /\ m \in Nat /\ Top = Len(stack)
  BY <1>0, CallFacts DEF Top
<1>2. l \in ListsTo(Top) /\ l # NoList /\ Content(l) # NoArgument
  BY <1>0, HereFacts DEF IsStarted
<1>3. /\ l.call \in 1 .. Top /\ l.n \in Locals /\ l = [call |-> l.call, n |-> l.n]
      /\ Content(l) \in ContentsTo(Top)
      /\ Content(l).call \in 1 .. Top /\ Content(l).at \in Nat
  BY <1>2, ListFacts
<1>4. content \in ContentsTo(Top) /\ content # NoArgument
  <2>1. Content(l) \in [call : 1 .. Top, at : Nat]
    BY <1>2, <1>3 DEF ContentsTo
  <2>2. content = [call |-> Content(l).call, at |-> Content(l).at + 1]
    BY <1>0, <2>1
  <2> QED BY <1>1, <1>3, <2>2 DEF ContentsTo, NoArgument
<1>5. stack' = ListWritten(stack, l.call, l.n, content)
  BY <1>0 DEF Advanced, ListWritten, Content
<1>6. stack \in Seq(Calls(Top, m))
  BY <1>0 DEF StateTypes, Top
<1>7. /\ stack' \in Seq(Calls(Top, m)) /\ Len(stack') = Len(stack)
      /\ \A i \in 1 .. Len(stack) :
           /\ stack'[i].of = stack[i].of /\ stack'[i].ref = stack[i].ref
           /\ stack'[i].proxy = stack[i].proxy
           /\ stack'[i].frame = stack[i].frame /\ stack'[i].loaded = stack[i].loaded
           /\ \A k \in Locals :
                stack'[i].lists[k] = IF i = l.call /\ k = l.n THEN content ELSE stack[i].lists[k]
  <2> DEFINE st == stack
             c == l.call
             n == l.n
  <2>1. st \in Seq(Calls(Top, m)) /\ c \in 1 .. Len(st) /\ n \in Locals
    BY <1>1, <1>3, <1>6
  <2> HIDE DEF st, c, n
  <2>2. /\ ListWritten(st, c, n, content) \in Seq(Calls(Top, m))
        /\ OnlyList(ListWritten(st, c, n, content), st, c, n, content)
    BY <1>4, <2>1, WriteList
  <2>3. stack' = ListWritten(st, c, n, content)
    BY <1>5 DEF st, c, n
  <2> QED BY <2>2, <2>3 DEF st, c, n, OnlyList
<1>8. SameCalls /\ Top' = Top
  BY <1>1, <1>7 DEF SameCalls, Top
<1>9. Framed'
  BY <1>8, FramesStay
<1>10. LoadsAgree'
  BY <1>1, <1>7, <1>8 DEF LoadsAgree
<1>11. StateTypes'
  <2>1. Places' = Places
    BY <1>8 DEF Places, InMemory
  <2>2. stack' \in Seq(Calls(Len(stack'), Len(heap'))) /\ Len(stack') \in 1 .. MaxDepth
    BY <1>0, <1>1, <1>7 DEF StateTypes
  <2> QED BY <1>7, <2>1, <2>2 DEF StateTypes, InMemory
<1>12. ASSUME NEW a \in Places PROVE ListAt(a)' = ListAt(a) /\ ProxyAt(a)' = ProxyAt(a)
  <2>1. CASE a[1] = 0
    BY <2>1 DEF ListAt, ProxyAt
  <2>2. CASE a[1] # 0
    <3>1. a[1] \in 1 .. Len(stack)
      BY <1>1, <2>2 DEF Places
    <3> QED BY <1>7, <2>2, <3>1 DEF ListAt, ProxyAt
  <2> QED BY <2>1, <2>2
<1>13. ASSUME NEW list \in ListsTo(Top), list # NoList
       PROVE  Content(list)' = IF list = l THEN content ELSE Content(list)
  <2>1. list.call \in 1 .. Top /\ list.n \in Locals /\ list = [call |-> list.call, n |-> list.n]
    BY <1>13, ListFacts
  <2>2. list = l <=> list.call = l.call /\ list.n = l.n
    BY <1>3, <2>1
  <2>3. Content(list)' = stack'[list.call].lists[list.n]
    BY DEF Content
  <2>4. stack'[list.call].lists[list.n]
          = IF list.call = l.call /\ list.n = l.n THEN content
                                                  ELSE stack[list.call].lists[list.n]
    BY <1>1, <1>7, <2>1
  <2> QED BY <2>2, <2>3, <2>4 DEF Content
<1>14. Started' = Started
  <2>1. Rewritten(l, content)
    BY <1>1, <1>7 DEF Rewritten
  <2>2. l \in ListsTo(Top) /\ l # NoList
    BY <1>2
  <2>3. /\ content # NoArgument => Started' = Started \cup {<<l.call, l.n>>}
        /\ <<l.call, l.n>> \in Started <=> Content(l) # NoArgument
    BY <1>8, <2>1, <2>2, RestartCount
  <2> QED BY <1>2, <1>4, <2>3
<1>15. \A list \in ListsTo(Top) : list # NoList =>
         Content(list)' = IF list = Ref(v) THEN [Content(list) EXCEPT !.at = @ + 1]
                                           ELSE Content(list)
  BY <1>0, <1>13
<1> QED BY <1>8, <1>9, <1>10, <1>11, <1>12, <1>14, <1>15

\* The slot behind a pointer is the next one; others have none.
LEMMA NextSlot ==
  ASSUME NEW s \in Signatures, NEW at \in DOMAIN s.varargs
  PROVE  /\ SlotOf(s, at) \in Nat
         /\ SlotOf(s, at + 1) = SlotOf(s, at) + IF s.varargs[at] = "p" THEN 1 ELSE 0
<1>1. at \in Nat \ {0}
  <2>1. s.varargs \in Seq(Type)
    BY SignatureFacts
  <2>2. DOMAIN s.varargs = 1 .. Len(s.varargs) /\ Len(s.varargs) \in Nat
    BY <2>1, LenProperties
  <2> QED BY <2>2
<1>2. /\ Cardinality(Before(s.varargs, at)) \in Nat
      /\ Cardinality(Before(s.varargs, at + 1)) =
           Cardinality(Before(s.varargs, at)) + IF s.varargs[at] = "p" THEN 1 ELSE 0
  BY <1>1, BeforeNext, BeforeFacts
<1>3. /\ SlotOf(s, at) = FirstVarArg(s.fun) + Cardinality(Before(s.varargs, at))
      /\ SlotOf(s, at + 1) = FirstVarArg(s.fun) + Cardinality(Before(s.varargs, at + 1))
  BY DEF SlotOf, Before
<1>4. FirstVarArg(s.fun) \in Nat
  BY FirstSlot
<1> QED BY <1>2, <1>3, <1>4

\* The proxies of the list move along, if those of others do not.
LEMMA AdvancedTracks ==
  ASSUME StateTypes, Framed, LoadsAgree, TracksInStep, Distinct,
         NEW v \in Values, NEW ty, IsNext(v, ty), Advanced(v),
         heap' \in Seq(Proxies), Len(heap') = Len(heap), UNCHANGED <<memory, table, stale>>,
         \A a \in Places : Tracks(a) =>
           LET p == ProxyAt(a) IN
           /\ heap'[p].live = heap[p].live /\ heap'[p].call = heap[p].call
           /\ heap'[p].slot =
                heap[p].slot + IF ListAt(a) = Ref(v) /\ ty = "p" THEN 1 ELSE 0
  PROVE  TracksInStep' /\ Distinct'
<1>1. IsStarted(v)
  BY DEF IsNext
<1>2. /\ StateTypes' /\ SameCalls
      /\ \A a \in Places : ListAt(a)' = ListAt(a) /\ ProxyAt(a)' = ProxyAt(a)
      /\ \A list \in ListsTo(Top) : list # NoList =>
           Content(list)' = IF list = Ref(v) THEN [Content(list) EXCEPT !.at = @ + 1]
                                             ELSE Content(list)
  BY <1>1, AdvancedState
<1>3. Top' = Top /\ Places' = Places /\ Top \in Nat
  BY <1>2, CallFacts DEF SameCalls, Top, Places, InMemory
<1>4. ASSUME NEW a \in Places, Tracks(a)'
      PROVE  Tracks(a) /\ InStep(ProxyAt(a), Content(ListAt(a)))'
  <2>1. PICK list, p, k : list = ListAt(a) /\ p = ProxyAt(a) /\ k = Content(ListAt(a))
    OBVIOUS
  <2>2. list \in ListsTo(Top) /\ p \in 0 .. Len(heap) /\ ListAt(a)' = list /\ ProxyAt(a)' = p
    BY <1>2, <2>1, PlaceFacts
  <2>3. list # NoList /\ a \notin stale /\ Content(list)' # NoArgument
    BY <1>4, <2>2 DEF Tracks, NoList, NoArgument, Content
  <2>4. Content(list)' = (IF list = Ref(v) THEN [k EXCEPT !.at = @ + 1] ELSE k)
    BY <1>2, <2>1, <2>2, <2>3
  <2>5. k # NoArgument
    BY <1>1, <2>1, <2>3, <2>4 DEF IsStarted
  <2>6. Tracks(a)
    BY <2>1, <2>3, <2>5 DEF Tracks
  <2>7. InStep(p, k)
    BY <2>1, <2>6 DEF TracksInStep
  <2>8. /\ p # NoProxy /\ heap[p].live /\ heap[p].call = k.call /\ heap[p].call <= Top
        /\ heap[p].slot = SlotOf(stack[k.call].of, k.at)
    BY <2>7 DEF InStep, IsLive, SlotOf
  <2>9. k \in ContentsTo(Top) /\ k.call \in 1 .. Top /\ k.at \in Nat
    BY <2>1, <2>2, <2>3, <2>5, ListFacts
  <2>10. k \in [call : 1 .. Top, at : Nat]
    BY <2>5, <2>9 DEF ContentsTo
  <2>11. PICK s : s = stack[k.call].of
    OBVIOUS
  <2>12. s \in Signatures /\ stack'[k.call].of = s
    BY <1>2, <2>9, <2>11, CallFacts DEF Calls, SameCalls
  <2>13. /\ heap'[p].live /\ heap'[p].call = k.call
         /\ heap'[p].slot =
              SlotOf(s, k.at) + IF list = Ref(v) /\ ty = "p" THEN 1 ELSE 0
    BY <2>1, <2>6, <2>8, <2>11
  <2>14. Content(ListAt(a))' = Content(list)'
    BY <2>2 DEF Content
  <2>15. IsLive(p)'
    BY <1>3, <2>8, <2>13 DEF IsLive, NoProxy
  <2>16. CASE list # Ref(v)
    <3>1. Content(ListAt(a))' = k /\ heap'[p].slot = SlotOf(s, k.at)
      <4>1. SlotOf(s, k.at) \in Nat
        BY <2>7, <2>8, <2>11, <2>1, <2>2, InStepFacts, CallFacts DEF Proxies
      <4> QED BY <2>4, <2>13, <2>14, <2>16, <4>1
    <3> QED BY <2>2, <2>6, <2>12, <2>13, <2>15, <3>1 DEF InStep, SlotOf
  <2>17. CASE list = Ref(v)
    <3>1. k.at \in DOMAIN s.varargs /\ s.varargs[k.at] = ty
      BY <2>1, <2>11, <2>17 DEF IsNext
    <3>2. SlotOf(s, k.at + 1) = heap'[p].slot
      <4>1. CASE ty = "p"
        BY <2>12, <2>13, <2>17, <3>1, <4>1, NextSlot
      <4>2. CASE ty # "p"
        BY <2>12, <2>13, <2>17, <3>1, <4>2, NextSlot
      <4> QED BY <4>1, <4>2
    <3>3. PICK j : j = [k EXCEPT !.at = @ + 1]
      OBVIOUS
    <3>4. j.call = k.call /\ j.at = k.at + 1
      BY <2>10, <3>3
    <3>5. Content(ListAt(a))' = j
      BY <2>4, <2>14, <2>17, <3>3
    <3> QED BY <2>2, <2>6, <2>12, <2>13, <2>15, <3>2, <3>4, <3>5 DEF InStep, SlotOf
  <2> QED BY <2>16, <2>17
<1>5. TracksInStep'
  BY <1>3, <1>4 DEF TracksInStep
<1>6. Distinct'
  BY <1>2, <1>3, <1>4 DEF Distinct
<1> QED BY <1>5, <1>6

\* va_arg of a pointer
LEMMA VaArgPointerKeeps ==
  ASSUME Inv, NEW v \in Values, VaArgPointer(v)
  PROVE  Inv'
<1>0. PICK p, k : p = ProxyOf(v) /\ k = Content(Ref(v))
  OBVIOUS
<1>1. /\ StateTypes /\ Framed /\ LoadsAgree /\ IsNext(v, "p") /\ IsStarted(v) /\ Advanced(v)
      /\ heap' = (IF IsLive(p) THEN [heap EXCEPT ![p].slot = @ + 1] ELSE heap)
      /\ got' = (IF IsLive(p) /\ heap[p].slot \in DOMAIN stack[heap[p].call].frame
                  THEN [arg |-> k, bounds |-> stack[heap[p].call].frame[heap[p].slot].arg]
                  ELSE [arg |-> k, bounds |-> NoArgument])
      /\ Using({v}, {v}, {}) /\ UNCHANGED <<memory, table, stale>>
  BY <1>0 DEF Inv, VaArgPointer, IsNext
<1>2. /\ Len(heap) \in Nat /\ p \in 0 .. Len(heap)
      /\ \A q \in 1 .. Len(heap) : heap[q] \in Proxies
  BY <1>0, <1>1, CallFacts, HereFacts
<1>3. /\ heap' \in Seq(Proxies) /\ Len(heap') = Len(heap) /\ Alive' = Alive
      /\ \A q \in 1 .. Len(heap) :
           /\ heap'[q].live = heap[q].live /\ heap'[q].call = heap[q].call
           /\ heap'[q].slot = heap[q].slot + IF q = p /\ IsLive(p) THEN 1 ELSE 0
  <2>1. CASE ~IsLive(p)
    <3>1. heap' = heap
      BY <1>1, <2>1
    <3> QED BY <1>1, <1>2, <2>1, <3>1 DEF StateTypes, Alive, Proxies
  <2>2. CASE IsLive(p)
    <3> DEFINE x == [heap[p] EXCEPT !.slot = @ + 1]
    <3>1. p \in 1 .. Len(heap)
      BY <1>2, <2>2 DEF IsLive, NoProxy
    <3>2. /\ x \in Proxies /\ x.live = heap[p].live /\ x.call = heap[p].call
          /\ x.slot = heap[p].slot + 1
      BY <1>2, <3>1 DEF Proxies
    <3>3. heap' = [heap EXCEPT ![p] = x]
      BY <1>1, <2>2
    <3> HIDE DEF x
    <3>4. /\ heap' \in Seq(Proxies) /\ Len(heap') = Len(heap)
          /\ \A q \in 1 .. Len(heap) : heap'[q] = IF q = p THEN x ELSE heap[q]
          /\ Alive' = IF x.live THEN Alive \cup {p} ELSE Alive \ {p}
      BY <1>1, <3>1, <3>2, <3>3, HeapChanges
    <3>5. Alive' = Alive
      BY <1>1, <2>2, <3>1, <3>2, <3>4, CallFacts DEF Alive, IsLive
    <3>6. \A q \in 1 .. Len(heap) : heap[q].slot \in Nat
      BY <1>2 DEF Proxies
    <3> QED BY <2>2, <3>2, <3>4, <3>5, <3>6
  <2> QED BY <2>1, <2>2
<1>4. /\ StateTypes' /\ Framed' /\ LoadsAgree' /\ Started' = Started
  BY <1>1, <1>3, AdvancedState
<1>5. /\ Followed' => Followed /\ ~IsOverwritten(v) /\ ~IsStale(v)
      /\ misused' = {} => misused = {}
  BY <1>1, UsingFacts
<1>6. ASSUME Followed'
      PROVE  /\ TracksInStep /\ Distinct
             /\ \E a \in Places : Tracks(a) /\ ListAt(a) = Ref(v) /\ ProxyAt(a) = p
             /\ InStep(p, k) /\ p \in 1 .. Len(heap)
  BY <1>0, <1>1, <1>5, <1>6, UsedInStep DEF Inv
<1>7. ASSUME Followed' PROVE TracksInStep' /\ Distinct'
  <2>1. ASSUME NEW a \in Places, Tracks(a)
        PROVE  LET q == ProxyAt(a) IN
               /\ heap'[q].live = heap[q].live /\ heap'[q].call = heap[q].call
               /\ heap'[q].slot = heap[q].slot + IF ListAt(a) = Ref(v) THEN 1 ELSE 0
    <3>1. ProxyAt(a) \in 0 .. Len(heap) /\ InStep(ProxyAt(a), Content(ListAt(a)))
      BY <1>1, <1>6, <1>7, <2>1, PlaceFacts DEF TracksInStep
    <3>2. ProxyAt(a) \in 1 .. Len(heap)
      BY <1>1, <3>1, InStepFacts
    <3>3. ListAt(a) = Ref(v) <=> ProxyAt(a) = p
      BY <1>6, <1>7, <2>1 DEF Distinct
    <3>4. IsLive(p)
      BY <1>6, <1>7 DEF InStep
    <3> QED BY <1>3, <3>2, <3>3, <3>4
  <2>2. \A a \in Places : Tracks(a) =>
          LET q == ProxyAt(a) IN
          /\ heap'[q].live = heap[q].live /\ heap'[q].call = heap[q].call
          /\ heap'[q].slot = heap[q].slot + IF ListAt(a) = Ref(v) /\ "p" = "p" THEN 1 ELSE 0
    BY <2>1
  <2> QED BY <1>1, <1>3, <1>6, <1>7, <2>2, AdvancedTracks
<1>8. ASSUME Followed' PROVE got'.bounds = got'.arg
  <2>1. InStep(p, k) /\ k # NoArgument /\ k \in ContentsTo(Top)
    BY <1>0, <1>1, <1>6, <1>8, HereFacts, ListFacts DEF IsStarted
  <2>2. k.call \in 1 .. Top /\ k = [call |-> k.call, at |-> k.at]
    BY <2>1 DEF ContentsTo
  <2>3. /\ k.at \in DOMAIN stack[k.call].of.varargs /\ stack[k.call].of.varargs[k.at] = "p"
    BY <1>0, <1>1 DEF IsNext
  <2>4. /\ SlotOf(stack[k.call].of, k.at) \in DOMAIN stack[k.call].frame
        /\ stack[k.call].frame[SlotOf(stack[k.call].of, k.at)].arg = [call |-> k.call, at |-> k.at]
    BY <1>1, <2>2, <2>3 DEF Framed
  <2>5. IsLive(p) /\ heap[p].call = k.call /\ heap[p].slot = SlotOf(stack[k.call].of, k.at)
    BY <2>1 DEF InStep, SlotOf
  <2>6. got' = [arg |-> k, bounds |-> k]
    BY <1>1, <2>2, <2>4, <2>5
  <2> QED BY <2>6
<1>9. ProxiesAreFreed'
  <2>1. misused = {} => Cardinality(Alive) = Cardinality(Started)
    BY DEF Inv, ProxiesAreFreed, Alive, Started
  <2> QED BY <1>3, <1>4, <1>5, <2>1 DEF ProxiesAreFreed, Alive, Started
<1>10. VarArgBoundsAreRight'
  BY <1>8 DEF VarArgBoundsAreRight
<1> QED BY <1>4, <1>7, <1>9, <1>10 DEF Inv

\* va_arg of anything else: the list moves on, the proxy need not.
LEMMA VaArgOtherKeeps ==
  ASSUME Inv, NEW v \in Values, VaArgOther(v)
  PROVE  Inv'
<1>1. /\ StateTypes /\ Framed /\ LoadsAgree /\ IsNext(v, "i") /\ IsStarted(v) /\ Advanced(v)
      /\ heap' = heap /\ heap' \in Seq(Proxies) /\ Len(heap') = Len(heap)
      /\ UNCHANGED <<memory, table, stale, got, misused>>
  BY DEF Inv, VaArgOther, IsNext, StateTypes
<1>2. /\ StateTypes' /\ Framed' /\ LoadsAgree' /\ Started' = Started
  BY <1>1, AdvancedState
<1>3. ASSUME Followed' PROVE TracksInStep' /\ Distinct'
  <2>1. TracksInStep /\ Distinct
    BY <1>1, <1>3 DEF Inv, Followed
  <2>2. ASSUME NEW a \in Places, Tracks(a)
        PROVE  LET p == ProxyAt(a) IN
               /\ heap'[p].live = heap[p].live /\ heap'[p].call = heap[p].call
               /\ heap'[p].slot = heap[p].slot + IF ListAt(a) = Ref(v) /\ "i" = "p" THEN 1 ELSE 0
    <3>1. ProxyAt(a) \in 0 .. Len(heap) /\ InStep(ProxyAt(a), Content(ListAt(a)))
      BY <1>1, <2>1, <2>2, PlaceFacts DEF TracksInStep
    <3>2. ProxyAt(a) \in 1 .. Len(heap)
      BY <1>1, <3>1, InStepFacts
    <3>3. heap[ProxyAt(a)].slot \in Nat
      BY <1>1, <3>2, CallFacts DEF Proxies
    <3> QED BY <1>1, <3>3
  <2> QED BY <1>1, <2>1, <2>2, AdvancedTracks
<1>4. ProxiesAreFreed'
  <2>1. misused = {} => Cardinality(Alive) = Cardinality(Started)
    BY DEF Inv, ProxiesAreFreed, Alive, Started
  <2>2. Alive' = Alive
    BY <1>1 DEF Alive
  <2> QED BY <1>1, <1>2, <2>1, <2>2 DEF ProxiesAreFreed, Alive, Started
<1>5. VarArgBoundsAreRight'
  BY <1>1 DEF Inv, VarArgBoundsAreRight, Followed
<1> QED BY <1>2, <1>3, <1>4, <1>5 DEF Inv

-----------------------------------------------------------------------------
(* Lists are stored and loaded.                                             *)

\* Nothing is new but places for lists that others tracked before.
LEMMA AllPersist ==
  ASSUME StateTypes, StateTypes', TracksInStep, Distinct,
         \A c \in 1 .. Top : c <= Top' => stack'[c].of = stack[c].of,
         \A a \in Places' : Tracks(a)' => \E b : Persists(a, b)
  PROVE  TracksInStep' /\ Distinct'
<1> PICK W : W = {}
  OBVIOUS
<1>1. /\ \A a \in Places' : Tracks(a)' /\ a \notin W => \E b : Persists(a, b)
      /\ \A a \in Places' : Tracks(a)' /\ a \in W => InStep(ProxyAt(a), Content(ListAt(a)))'
      /\ \A a, b \in Places' : Tracks(a)' /\ Tracks(b)' /\ a \in W =>
           (ListAt(a) = ListAt(b) <=> ProxyAt(a) = ProxyAt(b))'
  OBVIOUS
<1> QED BY <1>1, Persisting

\* A place that gets the list and the proxy of another, which is not stale.
LEMMA PersistsFrom ==
  ASSUME NEW a, Tracks(a)', NEW b \in Places, b \notin stale, heap' = heap,
         ListAt(a)' = ListAt(b), ProxyAt(a)' = ProxyAt(b),
         Content(ListAt(a))' = Content(ListAt(b))
  PROVE  Persists(a, b)
BY DEF Persists, Tracks, NoList, NoArgument

\* The lists that are started are the same.
LEMMA CountStays ==
  ASSUME Inv, heap' = heap, Started' = Started, misused' = {} => misused = {}
  PROVE  ProxiesAreFreed'
<1>1. misused = {} => Cardinality(Alive) = Cardinality(Started)
  BY DEF Inv, ProxiesAreFreed, Alive, Started
<1>2. Alive' = Alive
  BY DEF Alive
<1> QED BY <1>1, <1>2 DEF ProxiesAreFreed, Alive, Started

\* A list is stored.
LEMMA StoreListKeeps ==
  ASSUME Inv, NEW v \in Values, NEW m \in InMemory, StoreList(v, m)
  PROVE  Inv'
<1>0. PICK w, cell : w = <<Top, Variable(v)>> /\ cell = <<0, m>>
  OBVIOUS
<1>1. /\ StateTypes /\ Framed /\ LoadsAgree
      /\ memory' = [memory EXCEPT ![m] = Ref(v)] /\ table' = [table EXCEPT ![m] = ProxyOf(v)]
      /\ stale' = (IF IsStale(v) THEN stale \cup {cell} ELSE stale \ {cell})
      /\ Using({v}, {}, {}) /\ UNCHANGED <<stack, heap, got>>
  BY <1>0 DEF Inv, StoreList
<1>2. /\ w \in Places /\ ProxyOf(v) = ProxyAt(w) /\ ProxyOf(v) \in 0 .. Len(heap)
      /\ Ref(v) \in ListsTo(Top) /\ (IsStale(v) <=> w \in stale)
      /\ ~IsOverwritten(v) => Ref(v) = ListAt(w)
  BY <1>0, <1>1, HereFacts
<1>3. cell \in Places /\ Places' = Places /\ Top' = Top /\ Top \in Nat
  BY <1>0, <1>1, CallFacts DEF Places, Top, InMemory
<1>4. StateTypes'
  <2>1. memory' \in [InMemory -> ListsTo(Top)] /\ table' \in [InMemory -> 0 .. Len(heap)]
    BY <1>1, <1>2 DEF StateTypes, Top
  <2> QED BY <1>1, <1>3, <2>1 DEF StateTypes, InMemory, Top
<1>5. Framed' /\ LoadsAgree'
  <2>1. SameCalls
    BY <1>1 DEF SameCalls
  <2> QED BY <1>1, <2>1, FramesStay DEF LoadsAgree, Top
<1>6. /\ Followed' => Followed /\ ~IsOverwritten(v)
      /\ misused' = {} => misused = {}
  BY <1>1, UsingFacts
<1>7. ASSUME Followed' PROVE TracksInStep' /\ Distinct'
  <2>1. ASSUME NEW a \in Places', Tracks(a)' PROVE \E b : Persists(a, b)
    <3>1. a \in Places /\ a \notin stale'
      BY <1>3, <2>1 DEF Tracks
    <3>2. CASE a = cell
      <4>1. w \notin stale
        BY <1>1, <1>2, <3>1, <3>2
      <4>2. memory'[m] = Ref(v) /\ table'[m] = ProxyOf(v)
        <5>1. DOMAIN memory = InMemory /\ DOMAIN table = InMemory
          BY <1>1 DEF StateTypes
        <5> QED BY <1>1, <5>1
      <4>3. ListAt(a)' = ListAt(w) /\ ProxyAt(a)' = ProxyAt(w)
        BY <1>0, <1>2, <1>6, <1>7, <3>2, <4>2 DEF ListAt, ProxyAt
      <4>4. Content(ListAt(a))' = Content(ListAt(w))
        BY <1>1, <4>3 DEF Content
      <4>5. Persists(a, w)
        BY <1>1, <1>2, <2>1, <4>1, <4>3, <4>4, PersistsFrom
      <4> QED BY <4>5
    <3>3. CASE a # cell
      <4>1. a \notin stale
        BY <1>1, <3>1, <3>3
      <4>2. ListAt(a)' = ListAt(a) /\ ProxyAt(a)' = ProxyAt(a)
        <5>1. CASE a[1] = 0
          <6>1. a[2] \in InMemory /\ a[2] # m
            BY <1>0, <3>1, <3>3, <5>1 DEF Places
          <6>2. memory'[a[2]] = memory[a[2]] /\ table'[a[2]] = table[a[2]]
            BY <1>1, <6>1 DEF StateTypes
          <6> QED BY <5>1, <6>2 DEF ListAt, ProxyAt
        <5>2. CASE a[1] # 0
          BY <1>1, <5>2 DEF ListAt, ProxyAt
        <5> QED BY <5>1, <5>2
      <4>3. Content(ListAt(a))' = Content(ListAt(a))
        BY <1>1, <4>2 DEF Content
      <4>4. Persists(a, a)
        BY <1>1, <2>1, <3>1, <4>1, <4>2, <4>3, PersistsFrom
      <4> QED BY <4>4
    <3> QED BY <3>2, <3>3
  <2>2. TracksInStep /\ Distinct
    BY <1>6, <1>7 DEF Inv
  <2>3. \A c \in 1 .. Top : c <= Top' => stack'[c].of = stack[c].of
    BY <1>1
  <2> QED BY <1>1, <1>4, <2>1, <2>2, <2>3, AllPersist
<1>8. ProxiesAreFreed'
  <2>1. Started' = Started
    BY <1>1 DEF Started, NoArgument, Top
  <2> QED BY <1>1, <1>6, <2>1, CountStays
<1>9. VarArgBoundsAreRight'
  BY <1>1, <1>6, GotStays DEF Inv
<1> QED BY <1>4, <1>5, <1>7, <1>8, <1>9 DEF Inv

\* A call that loaded a list.
Loaded(r, v, list, p) ==
  [r EXCEPT !.ref[v] = list, !.ref[Shared] = list, !.proxy[Shared] = p, !.loaded = v]

\* The list is in the variable that all loads share.
LEMMA CallLoaded ==
  ASSUME NEW d, NEW m, NEW r \in Calls(d, m), NEW v \in Values, v.kind = "load",
         NEW list \in ListsTo(d), NEW p \in 0 .. m
  PROVE  LET new == Loaded(r, v, list, p) IN
         /\ new \in Calls(d, m)
         /\ new.of = r.of /\ new.lists = r.lists /\ new.frame = r.frame /\ new.loaded = v
         /\ new.ref[v] = list /\ new.ref[Shared] = list /\ new.proxy[Shared] = p
         /\ \A y \in Variables \ {Shared} : new.ref[y] = r.ref[y] /\ new.proxy[y] = r.proxy[y]
<1>1. r.ref \in [Values \cup {Shared} -> ListsTo(d)] /\ r.proxy \in [Variables -> 0 .. m]
  BY DEF Calls
<1> DEFINE refs == [r.ref EXCEPT ![v] = list, ![Shared] = list]
           proxies == [r.proxy EXCEPT ![Shared] = p]
<1>2. /\ refs \in [Values \cup {Shared} -> ListsTo(d)]
      /\ refs[v] = list /\ refs[Shared] = list
      /\ \A y \in Variables \ {Shared} : refs[y] = r.ref[y]
  BY <1>1, ValueFacts
<1>3. /\ proxies \in [Variables -> 0 .. m] /\ proxies[Shared] = p
      /\ \A y \in Variables \ {Shared} : proxies[y] = r.proxy[y]
  BY <1>1, ValueFacts
<1>4. Loaded(r, v, list, p) = [r EXCEPT !.ref = refs, !.proxy = proxies, !.loaded = v]
  BY DEF Loaded, Calls
<1> HIDE DEF refs, proxies
<1> QED BY <1>2, <1>3, <1>4 DEF Calls

\* A list is loaded.
LEMMA LoadListKeeps ==
  ASSUME Inv, NEW v \in Values, v.kind = "load", NEW m \in InMemory, LoadList(v, m)
  PROVE  Inv'
<1>0. PICK w, cell, r : /\ w = <<Top, Shared>> /\ cell = <<0, m>>
                        /\ r = Loaded(stack[Top], v, memory[m], table[m])
  OBVIOUS
<1>1. /\ StateTypes /\ Framed /\ LoadsAgree
      /\ stack' = [stack EXCEPT ![Top] = r]
      /\ stale' = (IF cell \in stale THEN stale \cup {w} ELSE stale \ {w})
      /\ UNCHANGED <<heap, memory, table, got, misused>>
  BY <1>0 DEF Inv, LoadList, Loaded
<1>2. /\ Top \in Nat /\ Top \in 1 .. Top /\ Len(heap) \in Nat /\ Top = Len(stack)
      /\ stack[Top] \in Calls(Top, Len(heap))
      /\ memory[m] \in ListsTo(Top) /\ table[m] \in 0 .. Len(heap)
  BY <1>1, CallFacts DEF StateTypes, Top
<1>3. /\ r \in Calls(Top, Len(heap))
      /\ r.of = stack[Top].of /\ r.lists = stack[Top].lists /\ r.frame = stack[Top].frame
      /\ r.loaded = v /\ r.ref[v] = memory[m] /\ r.ref[Shared] = memory[m]
      /\ r.proxy[Shared] = table[m]
      /\ \A y \in Variables \ {Shared} :
           r.ref[y] = stack[Top].ref[y] /\ r.proxy[y] = stack[Top].proxy[y]
  BY <1>0, <1>2, CallLoaded
<1>4. /\ stack' \in Seq(Calls(Top, Len(heap))) /\ Len(stack') = Len(stack)
      /\ \A i \in 1 .. Len(stack) : stack'[i] = IF i = Top THEN r ELSE stack[i]
  <2> DEFINE st == stack
             C == Calls(Top, Len(heap))
             t == Top
  <2>1. st \in Seq(C) /\ r \in C /\ t \in 1 .. Len(st)
    BY <1>1, <1>2, <1>3 DEF StateTypes
  <2> HIDE DEF st, C, t
  <2>2. /\ [st EXCEPT ![t] = r] \in Seq(C) /\ Len([st EXCEPT ![t] = r]) = Len(st)
        /\ \A i \in 1 .. Len(st) : [st EXCEPT ![t] = r][i] = IF i = t THEN r ELSE st[i]
    BY <2>1, ExceptSeq
  <2> QED BY <1>1, <2>2 DEF st, C, t
<1>5. w \in Places /\ cell \in Places /\ Places' = Places /\ Top' = Top
  BY <1>0, <1>2, <1>4, ValueFacts DEF Places, Top, InMemory
<1>6. StateTypes'
  <2>1. stale' \subseteq Places
    BY <1>1, <1>5 DEF StateTypes
  <2> QED BY <1>1, <1>2, <1>4, <1>5, <2>1 DEF StateTypes, InMemory
<1>7. SameCalls /\ \A c \in 1 .. Top : stack'[c].lists = stack[c].lists
  BY <1>2, <1>3, <1>4 DEF SameCalls
<1>8. Framed'
  BY <1>1, <1>7, FramesStay
<1>9. LoadsAgree'
  BY <1>1, <1>2, <1>3, <1>4, <1>5 DEF LoadsAgree
<1>10. \A list \in ListsTo(Top) : list # NoList => Content(list)' = Content(list)
  <2> SUFFICES ASSUME NEW list \in ListsTo(Top), list # NoList
               PROVE  Content(list)' = Content(list)
    OBVIOUS
  <2>1. list.call \in 1 .. Top
    BY <1>1, ListFacts
  <2>2. Content(list)' = stack'[list.call].lists[list.n]
    BY DEF Content
  <2> QED BY <1>7, <2>1, <2>2 DEF Content
<1>11. ASSUME Followed' PROVE TracksInStep' /\ Distinct'
  <2>1. ASSUME NEW a \in Places', Tracks(a)' PROVE \E b : Persists(a, b)
    <3>1. a \in Places /\ a \notin stale' /\ ListAt(a)' # NoList
      BY <1>5, <2>1 DEF Tracks, NoList
    <3>2. ASSUME NEW b \in Places, b \notin stale,
                 ListAt(a)' = ListAt(b), ProxyAt(a)' = ProxyAt(b)
          PROVE  Persists(a, b)
      <4>1. ListAt(b) \in ListsTo(Top) /\ ListAt(b) # NoList
        BY <1>1, <3>1, <3>2, PlaceFacts
      <4>2. PICK list : list = ListAt(b)
        OBVIOUS
      <4>3. Content(list)' = Content(list)
        BY <1>10, <4>1, <4>2
      <4>4. Content(ListAt(a))' = Content(ListAt(b))
        BY <3>2, <4>2, <4>3 DEF Content
      <4> QED BY <1>1, <2>1, <3>2, <4>4, PersistsFrom
    <3>3. CASE a = w
      <4>1. cell \notin stale
        BY <1>1, <3>1, <3>3
      <4>2. ListAt(a)' = memory[m] /\ ProxyAt(a)' = table[m]
        BY <1>0, <1>2, <1>3, <1>4, <3>3 DEF ListAt, ProxyAt
      <4>3. ListAt(cell) = memory[m] /\ ProxyAt(cell) = table[m]
        BY <1>0 DEF ListAt, ProxyAt
      <4>4. Persists(a, cell)
        BY <1>5, <3>2, <4>1, <4>2, <4>3
      <4> QED BY <4>4
    <3>4. CASE a # w
      <4>1. a \notin stale
        BY <1>1, <3>1, <3>4
      <4>2. ListAt(a)' = ListAt(a) /\ ProxyAt(a)' = ProxyAt(a)
        <5>1. CASE a[1] = 0
          BY <1>1, <5>1 DEF ListAt, ProxyAt
        <5>2. CASE a[1] # 0
          <6>1. a[1] \in 1 .. Top /\ a[2] \in Variables /\ a = <<a[1], a[2]>>
            BY <3>1, <5>2 DEF Places
          <6>2. a[1] = Top => a[2] # Shared
            BY <1>0, <3>4, <6>1
          <6> QED BY <1>2, <1>3, <1>4, <5>2, <6>1, <6>2 DEF ListAt, ProxyAt
        <5> QED BY <5>1, <5>2
      <4>3. Persists(a, a)
        BY <3>1, <3>2, <4>1, <4>2
      <4> QED BY <4>3
    <3> QED BY <3>3, <3>4
  <2>2. TracksInStep /\ Distinct
    BY <1>1, <1>11 DEF Inv, Followed
  <2>3. \A c \in 1 .. Top : c <= Top' => stack'[c].of = stack[c].of
    BY <1>7 DEF SameCalls
  <2> QED BY <1>1, <1>6, <2>1, <2>2, <2>3, AllPersist
<1>12. ProxiesAreFreed'
  <2>1. Started' = Started
    <3>1. Started' = {a \in (1 .. Top) \X Locals : stack'[a[1]].lists[a[2]] # NoArgument}
      BY <1>5 DEF Started, NoArgument
    <3> QED BY <1>7, <3>1 DEF Started
  <2> QED BY <1>1, <2>1, CountStays
<1>13. VarArgBoundsAreRight'
  BY <1>1 DEF Inv, VarArgBoundsAreRight, Followed
<1> QED BY <1>6, <1>8, <1>9, <1>11, <1>12, <1>13 DEF Inv

-----------------------------------------------------------------------------
(* Calls.                                                                   *)

\* Which values are lists of a function, and which are arguments.
LEMMA KindFacts ==
  /\ \A v \in Values \cup {Shared} : v.kind = "local" => v.n \in Locals
  /\ \A v \in Values \cup {Shared} : v.kind = "param" => v = Place("param", v.n)
  /\ \A s \in Signatures : \A j \in s.lists :
       /\ Place("param", j) \in Variables
       /\ Place("param", j).kind = "param" /\ Place("param", j).n = j
<1>1. \A k, n : Place(k, n).kind = k /\ Place(k, n).n = n
  BY DEF Place
<1>2. /\ Shared.kind = "shared" /\ Result.kind = "result" /\ Null.kind = "null"
  BY <1>1 DEF Shared, Result, Null
<1>3. \A v \in Params : v.kind = "param" /\ v = Place("param", v.n)
  BY <1>1 DEF Params
<1>4. ASSUME NEW s \in Signatures, NEW j \in s.lists
      PROVE  Place("param", j) \in Variables
  <2>1. Place("param", j) \in Params
    BY DEF Params
  <2>2. Place("param", j) \notin {Place("load", n) : n \in Loads}
    BY <1>1
  <2> QED BY <2>1, <2>2 DEF Variables, Values
<1>5. ASSUME NEW v \in Values \cup {Shared}
      PROVE  /\ v.kind = "local" => v.n \in Locals
             /\ v.kind = "param" => v = Place("param", v.n)
  <2>1. CASE v \in {Place("local", n) : n \in Locals}
    BY <1>1, <2>1
  <2>2. CASE v \in {Place("load", n) : n \in Loads}
    BY <1>1, <2>2
  <2>3. CASE v \in Params
    BY <1>3, <2>3
  <2>4. CASE v \in {Result, Null, Shared}
    BY <1>2, <2>4
  <2> QED BY <2>1, <2>2, <2>3, <2>4 DEF Values
<1> QED BY <1>1, <1>4, <1>5

\* A function that is entered.
LEMMA EnterFacts ==
  ASSUME NEW s \in Signatures, NEW d \in 1 .. MaxDepth, NEW m \in Nat,
         NEW proxies, \A j \in s.lists : proxies[j] \in 0 .. m,
         NEW refs, \A j \in s.lists : refs[j] \in ListsTo(d)
  PROVE  LET new == Enter(s, d, Frame(s, d, proxies), refs) IN
         /\ new \in Calls(d, m)
         /\ new.of = s /\ new.frame = Frame(s, d, proxies) /\ new.loaded = Shared
         /\ \A n \in Locals : new.lists[n] = NoArgument
         /\ \A v \in Variables :
              IF v.kind = "local" THEN new.ref[v] = [call |-> d, n |-> v.n] /\ v.n \in Locals
              ELSE IF v.kind = "param" /\ v.n \in s.lists
                THEN new.ref[v] = refs[v.n] /\ new.proxy[v] = proxies[v.n]
              ELSE new.ref[v] = NoList
<1>1. PICK f : f = Frame(s, d, proxies)
  OBVIOUS
<1>2. PICK new : new = Enter(s, d, f, refs)
  OBVIOUS
<1>3. d \in Nat /\ MaxDepth \in Nat
  BY BoundAssumption DEF BoundAssumption
<1>4. /\ DOMAIN f = 0 .. Code!FrameSize(CallOf(s)) - 1
      /\ \A j \in s.lists : f[Code!ArgumentSlot(s.fun, j)].proxy = proxies[j]
      /\ f \in [DOMAIN f -> Entries(m)]
  BY <1>1, FrameFacts
<1>5. Code!FrameSize(CallOf(s)) \in Nat
  BY SlotFacts
<1>6. f \in UNION {[0 .. n - 1 -> Entries(m)] : n \in Nat}
  BY <1>4, <1>5
<1>7. /\ new.of = s /\ new.frame = f /\ new.loaded = Shared
      /\ new.lists = [n \in Locals |-> NoArgument]
      /\ new.ref = [v \in Values \cup {Shared} |->
              IF v.kind = "local" THEN [call |-> d, n |-> v.n]
              ELSE IF v.kind = "param" /\ v.n \in s.lists THEN refs[v.n]
              ELSE NoList]
      /\ new.proxy = [v \in Variables |->
                IF v.kind = "param" /\ v.n \in s.lists
                  THEN f[Code!ArgumentSlot(s.fun, v.n)].proxy ELSE NoProxy]
      /\ new = [of |-> new.of, lists |-> new.lists, ref |-> new.ref, proxy |-> new.proxy,
                frame |-> new.frame, loaded |-> new.loaded]
  BY <1>2 DEF Enter
<1>8. new.lists \in [Locals -> ContentsTo(d)]
  BY <1>7 DEF ContentsTo
<1>9. new.ref \in [Values \cup {Shared} -> ListsTo(d)]
  <2> SUFFICES ASSUME NEW v \in Values \cup {Shared}
               PROVE  (IF v.kind = "local" THEN [call |-> d, n |-> v.n]
                       ELSE IF v.kind = "param" /\ v.n \in s.lists THEN refs[v.n]
                       ELSE NoList) \in ListsTo(d)
    BY <1>7
  <2>1. CASE v.kind = "local"
    BY <1>3, <2>1, KindFacts DEF ListsTo
  <2>2. CASE v.kind # "local"
    BY <2>2 DEF ListsTo
  <2> QED BY <2>1, <2>2
<1>10. new.proxy \in [Variables -> 0 .. m]
  BY <1>4, <1>7 DEF NoProxy
<1>11. new \in Calls(d, m)
  BY <1>6, <1>7, <1>8, <1>9, <1>10 DEF Calls
<1>12. ASSUME NEW v \in Variables
       PROVE  IF v.kind = "local" THEN new.ref[v] = [call |-> d, n |-> v.n] /\ v.n \in Locals
              ELSE IF v.kind = "param" /\ v.n \in s.lists
                THEN new.ref[v] = refs[v.n] /\ new.proxy[v] = proxies[v.n]
              ELSE new.ref[v] = NoList
  <2>1. v \in Values \cup {Shared}
    BY ValueFacts
  <2> QED BY <1>4, <1>7, <2>1, KindFacts
<1> QED BY <1>1, <1>2, <1>7, <1>11, <1>12

\* A list is passed.
LEMMA CallKeeps ==
  ASSUME Inv, NEW s \in Signatures, NEW given \in [s.lists -> Values], Call(s, given)
  PROVE  Inv'
<1>0. PICK d, m, proxies, refs, new :
        /\ d = Top + 1 /\ m = Len(heap)
        /\ proxies = [j \in s.lists |-> ProxyOf(given[j])]
        /\ refs = [j \in s.lists |-> Ref(given[j])]
        /\ new = Enter(s, Top + 1, Frame(s, Top + 1, proxies), refs)
  OBVIOUS
<1>1. /\ StateTypes /\ Framed /\ LoadsAgree /\ Top < MaxDepth
      /\ stack' = Append(stack, new)
      /\ stale' = stale \cup
           {<<d, Place("param", j)>> : j \in {j \in s.lists : IsStale(given[j])}}
      /\ Using({given[j] : j \in s.lists}, {}, {})
      /\ UNCHANGED <<heap, memory, table, got>>
  BY <1>0 DEF Inv, Call
<1>2. /\ Top \in Nat /\ Top \in 1 .. MaxDepth /\ MaxDepth \in Nat /\ m \in Nat /\ Top = Len(stack)
      /\ d \in 1 .. MaxDepth /\ d \in Nat /\ Top <= d /\ d # 0 /\ d \notin 1 .. Top
  BY <1>0, <1>1, CallFacts, BoundAssumption DEF Top, BoundAssumption
<1>3. ContentsTo(Top) \subseteq ContentsTo(d) /\ ListsTo(Top) \subseteq ListsTo(d)
        /\ Calls(Top, m) \subseteq Calls(d, m)
  BY <1>2, CallsGrow
<1>4. ASSUME NEW j \in s.lists
      PROVE  /\ proxies[j] = ProxyOf(given[j]) /\ proxies[j] \in 0 .. m
             /\ refs[j] = Ref(given[j]) /\ refs[j] \in ListsTo(Top)
  BY <1>0, <1>1, HereFacts
<1>5. /\ new \in Calls(d, m)
      /\ new.of = s /\ new.frame = Frame(s, d, proxies) /\ new.loaded = Shared
      /\ \A n \in Locals : new.lists[n] = NoArgument
      /\ \A v \in Variables :
           IF v.kind = "local" THEN new.ref[v] = [call |-> d, n |-> v.n] /\ v.n \in Locals
           ELSE IF v.kind = "param" /\ v.n \in s.lists
             THEN new.ref[v] = refs[v.n] /\ new.proxy[v] = proxies[v.n]
           ELSE new.ref[v] = NoList
  <2>1. \A j \in s.lists : proxies[j] \in 0 .. m /\ refs[j] \in ListsTo(d)
    BY <1>3, <1>4
  <2>2. new = Enter(s, d, Frame(s, d, proxies), refs)
    BY <1>0
  <2>3. d \in 1 .. MaxDepth /\ m \in Nat
    BY <1>2
  <2> QED BY <2>1, <2>2, <2>3, EnterFacts
<1>6. /\ stack' \in Seq(Calls(d, m)) /\ Len(stack') = d
      /\ \A i \in 1 .. Top : stack'[i] = stack[i]
      /\ stack'[d] = new
  <2> DEFINE st == stack
             C == Calls(d, m)
  <2>1. st \in Seq(C) /\ new \in C /\ Len(st) + 1 = d
    <3>1. stack \in Seq(Calls(Top, m))
      BY <1>0, <1>1 DEF StateTypes, Top
    <3> DEFINE A == Calls(Top, m)
    <3> HIDE DEF A, C
    <3>2. stack \in Seq(A) /\ A \subseteq C
      BY <1>3, <3>1 DEF A, C
    <3>3. stack \in Seq(C)
      BY <3>2, SeqMonotonic
    <3> QED BY <1>0, <1>2, <1>5, <3>3 DEF C
  <2> HIDE DEF st, C
  <2>2. /\ Append(st, new) \in Seq(C) /\ Len(Append(st, new)) = Len(st) + 1
        /\ \A i \in 1 .. Len(st) : Append(st, new)[i] = st[i]
        /\ Append(st, new)[Len(st) + 1] = new
    BY <2>1, AppendProperties
  <2> QED BY <1>1, <1>2, <2>1, <2>2 DEF st, C
<1>7. /\ Top' = d /\ 1 .. d = (1 .. Top) \cup {d}
      /\ Places' = Places \cup {d} \X Variables
  <2>1. Top' = d /\ 1 .. d = (1 .. Top) \cup {d}
    BY <1>0, <1>2, <1>6 DEF Top
  <2> QED BY <2>1 DEF Places, InMemory
<1>8. StateTypes'
  <2>1. stale' \subseteq Places'
    <3>1. \A j \in s.lists : <<d, Place("param", j)>> \in {d} \X Variables
      BY KindFacts
    <3> QED BY <1>1, <1>7, <3>1 DEF StateTypes
  <2>2. memory' \in [InMemory -> ListsTo(d)]
    <3>1. memory \in [InMemory -> ListsTo(Top)]
      BY <1>1 DEF StateTypes, Top
    <3> QED BY <1>1, <1>3, <3>1
  <2> QED BY <1>0, <1>1, <1>2, <1>6, <2>1, <2>2 DEF StateTypes, InMemory
<1>9. Framed'
  <2> SUFFICES ASSUME NEW c \in 1 .. d
               PROVE  LET t == stack'[c].of IN
                      /\ DOMAIN stack'[c].frame = 0 .. Code!FrameSize(CallOf(t)) - 1
                      /\ \A at \in DOMAIN t.varargs : t.varargs[at] = "p" =>
                           /\ SlotOf(t, at) \in DOMAIN stack'[c].frame
                           /\ stack'[c].frame[SlotOf(t, at)].arg = [call |-> c, at |-> at]
    BY <1>7 DEF Framed, SlotOf
  <2>1. CASE c = d
    <3>1. stack'[c].of = s /\ stack'[c].frame = Frame(s, d, proxies)
      BY <1>5, <1>6, <2>1
    <3> QED BY <2>1, <3>1, FrameFacts
  <2>2. CASE c # d
    <3>1. c \in 1 .. Top /\ stack'[c] = stack[c]
      BY <1>6, <1>7, <2>2
    <3> QED BY <1>1, <3>1 DEF Framed
  <2> QED BY <2>1, <2>2
<1>10. LoadsAgree'
  BY <1>1, <1>5, <1>6, <1>7, ValueFacts DEF LoadsAgree
<1>11. \A list \in ListsTo(Top) : list # NoList => Content(list)' = Content(list)
  <2> SUFFICES ASSUME NEW list \in ListsTo(Top), list # NoList
               PROVE  Content(list)' = Content(list)
    OBVIOUS
  <2>1. list.call \in 1 .. Top
    BY <1>1, ListFacts
  <2>2. Content(list)' = stack'[list.call].lists[list.n]
    BY DEF Content
  <2> QED BY <1>6, <2>1, <2>2 DEF Content
<1>12. /\ Followed' => Followed /\ \A j \in s.lists : ~IsOverwritten(given[j])
       /\ misused' = {} => misused = {}
  <2>1. PICK S : S = {given[j] : j \in s.lists}
    OBVIOUS
  <2>2. Using(S, {}, {})
    BY <1>1, <2>1
  <2>3. /\ Followed' => Followed /\ \A v \in S : ~IsOverwritten(v)
        /\ misused' = {} => misused = {}
    BY <2>2, UsingFacts
  <2> QED BY <2>1, <2>3
<1>13. ASSUME Followed' PROVE TracksInStep' /\ Distinct'
  <2>1. ASSUME NEW a \in Places', Tracks(a)' PROVE \E b : Persists(a, b)
    <3>1. a \notin stale' /\ ListAt(a)' # NoList /\ Content(ListAt(a))' # NoArgument
      BY <2>1 DEF Tracks, NoList, NoArgument
    <3>2. ASSUME NEW b \in Places, b \notin stale,
                 ListAt(a)' = ListAt(b), ProxyAt(a)' = ProxyAt(b)
          PROVE  Persists(a, b)
      <4>1. ListAt(b) \in ListsTo(Top) /\ ListAt(b) # NoList
        BY <1>1, <3>1, <3>2, PlaceFacts
      <4>2. PICK list : list = ListAt(b)
        OBVIOUS
      <4>3. Content(list)' = Content(list)
        BY <1>11, <4>1, <4>2
      <4>4. Content(ListAt(a))' = Content(ListAt(b))
        BY <3>2, <4>2, <4>3 DEF Content
      <4> QED BY <1>1, <2>1, <3>2, <4>4, PersistsFrom
    <3>3. CASE a \in Places
      <4>1. a \notin stale
        BY <1>1, <3>1
      <4>2. ListAt(a)' = ListAt(a) /\ ProxyAt(a)' = ProxyAt(a)
        <5>1. CASE a[1] = 0
          BY <1>1, <5>1 DEF ListAt, ProxyAt
        <5>2. CASE a[1] # 0
          <6>1. a[1] \in 1 .. Top
            BY <3>3, <5>2 DEF Places
          <6> QED BY <1>6, <5>2, <6>1 DEF ListAt, ProxyAt
        <5> QED BY <5>1, <5>2
      <4>3. Persists(a, a)
        BY <3>2, <3>3, <4>1, <4>2
      <4> QED BY <4>3
    <3>4. CASE a \notin Places
      <4>1. PICK y \in Variables : a = <<d, y>>
        BY <1>7, <2>1, <3>4
      <4>2. ListAt(a)' = new.ref[y] /\ ProxyAt(a)' = new.proxy[y]
        BY <1>2, <1>6, <4>1 DEF ListAt, ProxyAt
      <4>3. y.kind # "local"
        <5> SUFFICES ASSUME y.kind = "local" PROVE FALSE
          OBVIOUS
        <5>1. ListAt(a)' = [call |-> d, n |-> y.n] /\ y.n \in Locals
          BY <1>5, <4>2
        <5>2. Content(ListAt(a))' = new.lists[y.n]
          BY <1>6, <5>1 DEF Content
        <5> QED BY <1>5, <3>1, <5>1, <5>2
      <4>4. y.kind = "param" /\ y.n \in s.lists
        BY <1>5, <3>1, <4>2, <4>3
      <4>5. PICK v \in Values : v = given[y.n]
        BY <4>4
      <4>6. ListAt(a)' = Ref(v) /\ ProxyAt(a)' = ProxyOf(v)
        BY <1>4, <1>5, <4>2, <4>4, <4>5
      <4>7. y = Place("param", y.n)
        BY <4>4, KindFacts, ValueFacts
      <4>8. ~IsStale(v) /\ ~IsOverwritten(v)
        BY <1>1, <1>12, <1>13, <3>1, <4>1, <4>4, <4>5, <4>7
      <4>9. PICK b : b = <<Top, Variable(v)>>
        OBVIOUS
      <4>10. b \in Places /\ b \notin stale /\ ListAt(b) = Ref(v) /\ ProxyAt(b) = ProxyOf(v)
        BY <1>1, <4>8, <4>9, HereFacts
      <4>11. Persists(a, b)
        BY <3>2, <4>6, <4>10
      <4> QED BY <4>11
    <3> QED BY <3>3, <3>4
  <2>2. TracksInStep /\ Distinct
    BY <1>12, <1>13 DEF Inv
  <2>3. \A c \in 1 .. Top : c <= Top' => stack'[c].of = stack[c].of
    BY <1>6
  <2> QED BY <1>1, <1>8, <2>1, <2>2, <2>3, AllPersist
<1>14. ProxiesAreFreed'
  <2>1. Started' = Started
    <3>1. Started' = {a \in (1 .. d) \X Locals : stack'[a[1]].lists[a[2]] # NoArgument}
      BY <1>7 DEF Started, NoArgument
    <3>2. \A n \in Locals : stack'[d].lists[n] = NoArgument
      BY <1>5, <1>6
    <3>3. \A c \in 1 .. Top : stack'[c] = stack[c]
      BY <1>6
    <3> QED BY <1>7, <3>1, <3>2, <3>3 DEF Started
  <2> QED BY <1>1, <1>12, <2>1, CountStays
<1>15. VarArgBoundsAreRight'
  BY <1>1, <1>12, GotStays DEF Inv
<1> QED BY <1>8, <1>9, <1>10, <1>13, <1>14, <1>15 DEF Inv

-----------------------------------------------------------------------------
(* Returns.                                                                 *)

\* What is left of lists and their contents is not of the call that ended.
LEMMA LeftFacts ==
  ASSUME Top \in Nat \ {0}
  PROVE  /\ \A k \in ContentsTo(Top) :
              /\ Survives(k) \in ContentsTo(Top - 1)
              /\ Survives(k) # NoArgument => Survives(k) = k
              /\ k.call # Top => Survives(k) = k
         /\ \A list \in ListsTo(Top) :
              /\ Remaining(list) \in ListsTo(Top - 1)
              /\ Remaining(list) # NoList => Remaining(list) = list
<1>1. ASSUME NEW k \in ContentsTo(Top)
      PROVE  Survives(k) \in ContentsTo(Top - 1)
  <2>1. CASE k \in [call : 1 .. Top, at : Nat]
    BY <2>1 DEF ContentsTo, Survives
  <2>2. CASE k = NoArgument
    BY <2>2 DEF ContentsTo, Survives
  <2> QED BY <2>1, <2>2 DEF ContentsTo
<1>2. ASSUME NEW list \in ListsTo(Top)
      PROVE  Remaining(list) \in ListsTo(Top - 1)
  <2>1. CASE list \in [call : 1 .. Top, n : Locals]
    BY <2>1 DEF ListsTo, Remaining
  <2>2. CASE list = NoList
    BY <2>2 DEF ListsTo, Remaining
  <2> QED BY <2>1, <2>2 DEF ListsTo
<1>3. /\ \A k \in ContentsTo(Top) : /\ Survives(k) # NoArgument => Survives(k) = k
                                    /\ k.call # Top => Survives(k) = k
      /\ \A list \in ListsTo(Top) : Remaining(list) # NoList => Remaining(list) = list
  BY DEF Survives, Remaining
<1> QED BY <1>1, <1>2, <1>3

\* A caller, and the one that gets what is returned.
Caller(r) == [r EXCEPT !.lists = [n \in Locals |-> Survives(r.lists[n])],
                       !.ref = [v \in DOMAIN @ |-> Remaining(@[v])]]
Receiver(r, list, p) == [Caller(r) EXCEPT !.ref[Result] = Remaining(list), !.proxy[Result] = p]

\* In a caller, what referred to lists of the call that ended refers to none.
LEMMA CallerFacts ==
  ASSUME Top \in Nat \ {0}, NEW m \in Nat, NEW r \in Calls(Top, m)
  PROVE  LET new == Caller(r) IN
         /\ new \in Calls(Top - 1, m)
         /\ new.of = r.of /\ new.frame = r.frame /\ new.loaded = r.loaded /\ new.proxy = r.proxy
         /\ \A n \in Locals : new.lists[n] = Survives(r.lists[n])
         /\ \A v \in Values \cup {Shared} : new.ref[v] = Remaining(r.ref[v])
<1>1. r.lists \in [Locals -> ContentsTo(Top)] /\ r.ref \in [Values \cup {Shared} -> ListsTo(Top)]
  BY DEF Calls
<1> DEFINE lists == [n \in Locals |-> Survives(r.lists[n])]
           ref == [v \in Values \cup {Shared} |-> Remaining(r.ref[v])]
<1>2. lists \in [Locals -> ContentsTo(Top - 1)] /\ ref \in [Values \cup {Shared} -> ListsTo(Top - 1)]
  BY <1>1, LeftFacts
<1>3. Caller(r) = [r EXCEPT !.lists = lists, !.ref = ref]
  BY <1>1 DEF Caller, Calls
<1>4. /\ \A n \in Locals : lists[n] = Survives(r.lists[n])
      /\ \A v \in Values \cup {Shared} : ref[v] = Remaining(r.ref[v])
  OBVIOUS
<1> HIDE DEF lists, ref
<1> QED BY <1>2, <1>3, <1>4 DEF Calls

\* The one that gets a list has it, and its proxy, for the result of the call.
LEMMA ReceiverFacts ==
  ASSUME Top \in Nat \ {0}, NEW m \in Nat, NEW r \in Calls(Top, m),
         NEW list \in ListsTo(Top), NEW p \in 0 .. m
  PROVE  LET new == Receiver(r, list, p) IN
         /\ new \in Calls(Top - 1, m)
         /\ new.of = r.of /\ new.frame = r.frame /\ new.loaded = r.loaded
         /\ \A n \in Locals : new.lists[n] = Survives(r.lists[n])
         /\ \A v \in (Values \cup {Shared}) \ {Result} : new.ref[v] = Remaining(r.ref[v])
         /\ \A v \in Variables \ {Result} : new.proxy[v] = r.proxy[v]
         /\ new.ref[Result] = Remaining(list) /\ new.proxy[Result] = p
<1>1. PICK c : c = Caller(r)
  OBVIOUS
<1>2. /\ c \in Calls(Top - 1, m)
      /\ c.of = r.of /\ c.frame = r.frame /\ c.loaded = r.loaded /\ c.proxy = r.proxy
      /\ \A n \in Locals : c.lists[n] = Survives(r.lists[n])
      /\ \A v \in Values \cup {Shared} : c.ref[v] = Remaining(r.ref[v])
  BY <1>1, CallerFacts
<1>3. c.ref \in [Values \cup {Shared} -> ListsTo(Top - 1)] /\ c.proxy \in [Variables -> 0 .. m]
  BY <1>2 DEF Calls
<1>4. Remaining(list) \in ListsTo(Top - 1)
  BY LeftFacts
<1> DEFINE ref == [c.ref EXCEPT ![Result] = Remaining(list)]
           proxy == [c.proxy EXCEPT ![Result] = p]
<1>5. /\ ref \in [Values \cup {Shared} -> ListsTo(Top - 1)] /\ proxy \in [Variables -> 0 .. m]
      /\ ref[Result] = Remaining(list) /\ proxy[Result] = p
      /\ \A v \in (Values \cup {Shared}) \ {Result} : ref[v] = c.ref[v]
      /\ \A v \in Variables \ {Result} : proxy[v] = c.proxy[v]
  BY <1>3, <1>4, ValueFacts
<1>6. Receiver(r, list, p) = [c EXCEPT !.ref = ref, !.proxy = proxy]
  BY <1>1, <1>2 DEF Receiver, Calls
<1> HIDE DEF ref, proxy
<1>7. /\ [c EXCEPT !.ref = ref, !.proxy = proxy] \in Calls(Top - 1, m)
      /\ [c EXCEPT !.ref = ref, !.proxy = proxy].ref = ref
      /\ [c EXCEPT !.ref = ref, !.proxy = proxy].proxy = proxy
      /\ [c EXCEPT !.ref = ref, !.proxy = proxy].of = c.of
      /\ [c EXCEPT !.ref = ref, !.proxy = proxy].frame = c.frame
      /\ [c EXCEPT !.ref = ref, !.proxy = proxy].loaded = c.loaded
      /\ [c EXCEPT !.ref = ref, !.proxy = proxy].lists = c.lists
  BY <1>2, <1>5 DEF Calls
<1> QED BY <1>2, <1>5, <1>6, <1>7

\* The state after a return.
LEMMA ReturnState ==
  ASSUME Inv, NEW v \in Values, Return(v)
  PROVE  /\ Top \in Nat /\ Top > 1 /\ Len(stack') = Top - 1
         /\ stack' \in Seq(Calls(Top - 1, Len(heap)))
         /\ \A c \in 1 .. Top - 1 :
              /\ stack'[c].of = stack[c].of /\ stack'[c].frame = stack[c].frame
              /\ stack'[c].loaded = stack[c].loaded
              /\ \A n \in Locals : stack'[c].lists[n] = Survives(stack[c].lists[n])
              /\ \A y \in Values \cup {Shared} : ~(c = Top - 1 /\ ReturnsList /\ y = Result) =>
                   stack'[c].ref[y] = Remaining(stack[c].ref[y])
              /\ \A y \in Variables : ~(c = Top - 1 /\ ReturnsList /\ y = Result) =>
                   stack'[c].proxy[y] = stack[c].proxy[y]
              /\ c = Top - 1 /\ ReturnsList =>
                   /\ stack'[c].ref[Result] = Remaining(Ref(v))
                   /\ stack'[c].proxy[Result] = ProxyOf(v)
<1>0. PICK list, p, t, m : list = Ref(v) /\ p = ProxyOf(v) /\ t = Top - 1 /\ m = Len(heap)
  OBVIOUS
<1>1. StateTypes /\ LoadsAgree /\ Top > 1 /\ stack' = Callers(list, p)
  BY <1>0 DEF Inv, Return
<1>2. /\ Top \in Nat \ {0} /\ t \in Nat /\ m \in Nat /\ 1 .. t \subseteq 1 .. Top
      /\ list \in ListsTo(Top) /\ p \in 0 .. m
      /\ \A c \in 1 .. Top : stack[c] \in Calls(Top, m)
  <2>1. /\ Top \in Nat /\ m \in Nat
        /\ \A c \in 1 .. Top : stack[c] \in Calls(Top, m)
    BY <1>0, <1>1, CallFacts
  <2>2. t \in Nat /\ 1 .. t \subseteq 1 .. Top /\ Top \in Nat \ {0}
    BY <1>0, <1>1, <2>1
  <2>3. Ref(v) \in ListsTo(Top) /\ ProxyOf(v) \in 0 .. Len(heap)
    BY <1>1, HereFacts
  <2> QED BY <1>0, <2>1, <2>2, <2>3
<1>3. /\ DOMAIN stack' = 1 .. t
      /\ \A c \in 1 .. t :
           stack'[c] = IF c = t /\ ReturnsList THEN Receiver(stack[c], list, p)
                                               ELSE Caller(stack[c])
  <2>1. Callers(list, p) = [c \in 1 .. Top - 1 |-> IF c = Top - 1 /\ ReturnsList
                                                   THEN Receiver(stack[c], list, p)
                                                   ELSE Caller(stack[c])]
    BY Zenon DEF Callers, Caller, Receiver
  <2>2. stack' = [c \in 1 .. t |-> IF c = t /\ ReturnsList THEN Receiver(stack[c], list, p)
                                                          ELSE Caller(stack[c])]
    BY <1>0, <1>1, <2>1
  <2> QED BY <2>2
<1>4. ASSUME NEW c \in 1 .. t
      PROVE  /\ stack'[c] \in Calls(t, m)
             /\ stack'[c].of = stack[c].of /\ stack'[c].frame = stack[c].frame
             /\ stack'[c].loaded = stack[c].loaded
             /\ \A n \in Locals : stack'[c].lists[n] = Survives(stack[c].lists[n])
             /\ \A y \in Values \cup {Shared} : ~(c = t /\ ReturnsList /\ y = Result) =>
                  stack'[c].ref[y] = Remaining(stack[c].ref[y])
             /\ \A y \in Variables : ~(c = t /\ ReturnsList /\ y = Result) =>
                  stack'[c].proxy[y] = stack[c].proxy[y]
             /\ c = t /\ ReturnsList =>
                  stack'[c].ref[Result] = Remaining(list) /\ stack'[c].proxy[Result] = p
  <2>1. PICK r \in Calls(Top, m) : r = stack[c]
    BY <1>2
  <2>2. CASE c = t /\ ReturnsList
    <3>1. stack'[c] = Receiver(r, list, p)
      BY <1>3, <2>1, <2>2
    <3> QED BY <1>0, <1>2, <2>1, <2>2, <3>1, ReceiverFacts
  <2>3. CASE ~(c = t /\ ReturnsList)
    <3>1. stack'[c] = Caller(r)
      BY <1>3, <2>1, <2>3
    <3> QED BY <1>0, <1>2, <2>1, <2>3, <3>1, CallerFacts
  <2> QED BY <2>2, <2>3
<1>5. stack' \in Seq(Calls(t, m)) /\ Len(stack') = t
  <2> DEFINE st == stack'
             C == Calls(t, m)
  <2>1. DOMAIN st = 1 .. t /\ (\A c \in 1 .. t : st[c] \in C) /\ t \in Nat
    BY <1>2, <1>3, <1>4
  <2>2. st = [c \in 1 .. t |-> st[c]]
    BY <1>0, <1>1 DEF Callers
  <2> HIDE DEF st, C
  <2>3. st \in [1 .. t -> C]
    BY <2>1, <2>2
  <2>4. st \in Seq(C)
    BY <2>1, <2>3, SeqDef
  <2>5. Len(st) = t
    BY <2>1, <2>4, LenProperties
  <2> QED BY <2>4, <2>5 DEF st, C
<1> QED BY <1>0, <1>1, <1>2, <1>4, <1>5

\* A function returns.
LEMMA ReturnKeeps ==
  ASSUME Inv, NEW v \in Values, Return(v)
  PROVE  Inv'
<1>0. PICK t, m, w, result, left :
        /\ t = Top - 1 /\ m = Len(heap) /\ w = <<Top, Variable(v)>> /\ result = <<Top - 1, Result>>
        /\ left = {a \in stale : a[1] # Top}
  OBVIOUS
<1>1. /\ StateTypes /\ Framed /\ LoadsAgree
      /\ memory' = [c \in InMemory |-> Remaining(memory[c])]
      /\ stale' = (IF ~ReturnsList THEN left
                   ELSE IF IsStale(v) THEN left \cup {result} ELSE left \ {result})
      /\ Using({v}, {}, Lost) /\ UNCHANGED <<heap, table, got>>
  BY <1>0 DEF Inv, Return
<1>2. /\ Top \in Nat \ {0} /\ Top \in 1 .. MaxDepth /\ t \in Nat /\ t # 0 /\ m \in Nat
      /\ Top = Len(stack) /\ 1 .. Top = (1 .. t) \cup {Top} /\ Top \notin 1 .. t
      /\ t \in 1 .. t /\ MaxDepth \in Nat
  BY <1>0, <1>1, CallFacts, ReturnState, BoundAssumption DEF Top, BoundAssumption
<1>3. /\ Len(stack') = t /\ stack' \in Seq(Calls(t, m))
      /\ \A c \in 1 .. t :
           /\ stack'[c].of = stack[c].of /\ stack'[c].frame = stack[c].frame
           /\ stack'[c].loaded = stack[c].loaded
           /\ \A n \in Locals : stack'[c].lists[n] = Survives(stack[c].lists[n])
           /\ \A y \in Values \cup {Shared} : ~(c = t /\ ReturnsList /\ y = Result) =>
                stack'[c].ref[y] = Remaining(stack[c].ref[y])
           /\ \A y \in Variables : ~(c = t /\ ReturnsList /\ y = Result) =>
                stack'[c].proxy[y] = stack[c].proxy[y]
           /\ c = t /\ ReturnsList =>
                stack'[c].ref[Result] = Remaining(Ref(v)) /\ stack'[c].proxy[Result] = ProxyOf(v)
  BY <1>0, ReturnState
<1>4. /\ Top' = t /\ Places' = {a \in Places : a[1] # Top} /\ result \in Places'
  <2>1. Top' = t
    BY <1>3 DEF Top
  <2>2. Places' = (1 .. t) \X Variables \cup {0} \X InMemory
    BY <2>1 DEF Places, InMemory
  <2> QED BY <1>0, <1>2, <2>1, <2>2, ValueFacts DEF Places
<1>5. /\ \A k \in ContentsTo(Top) :
           Survives(k) # NoArgument => Survives(k) = k
      /\ \A list \in ListsTo(Top) :
           /\ Remaining(list) \in ListsTo(t)
           /\ Remaining(list) # NoList => Remaining(list) = list /\ list.call # Top
  <2>1. \A list : Remaining(list) # NoList => list.call # Top
    BY DEF Remaining
  <2> QED BY <1>0, <1>2, <2>1, LeftFacts
<1>6. StateTypes'
  <2>1. stale' \subseteq Places'
    BY <1>0, <1>1, <1>4 DEF StateTypes
  <2>2. memory' \in [InMemory -> ListsTo(t)]
    BY <1>1, <1>5 DEF StateTypes, Top
  <2>3. stack' \in Seq(Calls(Len(stack'), Len(heap'))) /\ Len(stack') \in 1 .. MaxDepth
    BY <1>0, <1>1, <1>2, <1>3
  <2> QED BY <1>1, <1>3, <2>1, <2>2, <2>3 DEF StateTypes, InMemory
<1>7. Framed'
  <2> SUFFICES ASSUME NEW c \in 1 .. t
               PROVE  LET s == stack'[c].of IN
                      /\ DOMAIN stack'[c].frame = 0 .. Code!FrameSize(CallOf(s)) - 1
                      /\ \A at \in DOMAIN s.varargs : s.varargs[at] = "p" =>
                           /\ SlotOf(s, at) \in DOMAIN stack'[c].frame
                           /\ stack'[c].frame[SlotOf(s, at)].arg = [call |-> c, at |-> at]
    BY <1>4 DEF Framed, SlotOf
  <2>1. stack'[c].of = stack[c].of /\ stack'[c].frame = stack[c].frame /\ c \in 1 .. Top
    BY <1>2, <1>3
  <2> QED BY <1>1, <2>1 DEF Framed
<1>8. LoadsAgree'
  <2> SUFFICES ASSUME NEW c \in 1 .. t, stack'[c].loaded.kind = "load"
               PROVE  stack'[c].ref[stack'[c].loaded] = stack'[c].ref[Shared]
    BY <1>4 DEF LoadsAgree
  <2>1. PICK l : l = stack[c].loaded
    OBVIOUS
  <2>2. l \in Values \cup {Shared} /\ l.kind = "load" /\ stack'[c].loaded = l /\ c \in 1 .. Top
    BY <1>1, <1>2, <1>3, <2>1, CallFacts DEF Calls
  <2>3. l # Result /\ Shared # Result
    BY <2>2, ValueFacts
  <2>4. /\ stack'[c].ref[l] = Remaining(stack[c].ref[l])
        /\ stack'[c].ref[Shared] = Remaining(stack[c].ref[Shared])
    BY <1>3, <2>2, <2>3
  <2>5. stack[c].ref[l] = stack[c].ref[Shared]
    BY <1>1, <2>1, <2>2 DEF LoadsAgree
  <2> QED BY <2>2, <2>4, <2>5
<1>9. /\ Followed' => Followed /\ ~IsOverwritten(v)
      /\ misused' = {} => misused = {} /\ Lost = {}
  BY <1>1, UsingFacts
<1>10. ASSUME Followed' PROVE TracksInStep' /\ Distinct'
  <2>1. ASSUME NEW a \in Places', Tracks(a)' PROVE \E b : Persists(a, b)
    <3>1. a \notin stale' /\ ListAt(a)' # NoList /\ Content(ListAt(a))' # NoArgument
            /\ a \in Places /\ a[1] # Top
      BY <1>4, <2>1 DEF Tracks, NoList, NoArgument
    <3>2. ASSUME NEW b \in Places, b \notin stale, NEW list \in ListsTo(Top), list = ListAt(b),
                 ListAt(a)' = Remaining(list), ProxyAt(a)' = ProxyAt(b)
          PROVE  Persists(a, b)
      <4>1. list # NoList /\ list.call # Top /\ ListAt(a)' = list
        <5>1. Remaining(list) = list /\ list.call # Top
          BY <1>5, <3>1, <3>2
        <5> QED BY <3>1, <3>2, <5>1
      <4>2. list.call \in 1 .. t /\ list.n \in Locals /\ Content(list) \in ContentsTo(Top)
        BY <1>1, <1>2, <3>2, <4>1, ListFacts
      <4>3. Content(ListAt(a))' = stack'[list.call].lists[list.n]
        BY <4>1 DEF Content
      <4>4. Content(ListAt(a))' = Survives(Content(list))
        BY <1>3, <4>2, <4>3 DEF Content
      <4>5. Content(ListAt(a))' = Content(list)
        BY <1>5, <3>1, <4>2, <4>4
      <4>6. ListAt(a)' = ListAt(b) /\ Content(ListAt(a))' = Content(ListAt(b))
        BY <3>2, <4>1, <4>5
      <4> QED BY <1>1, <2>1, <3>2, <4>6, PersistsFrom
    <3>3. CASE a = result /\ ReturnsList
      <4>1. ~IsStale(v)
        BY <1>1, <3>1, <3>3
      <4>2. PICK list \in ListsTo(Top) : list = Ref(v)
        BY <1>1, HereFacts
      <4>3. w \in Places /\ w \notin stale /\ list = ListAt(w) /\ ProxyAt(w) = ProxyOf(v)
        BY <1>0, <1>1, <1>9, <1>10, <4>1, <4>2, HereFacts
      <4>4. ListAt(a)' = Remaining(list) /\ ProxyAt(a)' = ProxyAt(w)
        <5>1. a[1] = t /\ a[2] = Result
          BY <1>0, <3>3
        <5> QED BY <1>2, <1>3, <3>3, <4>2, <4>3, <5>1 DEF ListAt, ProxyAt
      <4>5. Persists(a, w)
        BY <3>2, <4>3, <4>4
      <4> QED BY <4>5
    <3>4. CASE ~(a = result /\ ReturnsList)
      <4>1. a \notin stale
        BY <1>0, <1>1, <3>1, <3>4
      <4>2. PICK list \in ListsTo(Top) : list = ListAt(a)
        BY <1>1, <3>1, PlaceFacts
      <4>3. ListAt(a)' = Remaining(list) /\ ProxyAt(a)' = ProxyAt(a)
        <5>1. CASE a[1] = 0
          <6>1. a[2] \in InMemory
            BY <1>2, <3>1, <5>1 DEF Places
          <6> QED BY <1>1, <4>2, <5>1, <6>1 DEF ListAt, ProxyAt
        <5>2. CASE a[1] # 0
          <6>1. a[1] \in 1 .. t /\ a[2] \in Variables /\ a = <<a[1], a[2]>>
            BY <1>2, <3>1, <5>2 DEF Places
          <6>2. ~(a[1] = t /\ ReturnsList /\ a[2] = Result)
            BY <1>0, <3>4, <6>1
          <6>3. a[2] \in Values \cup {Shared}
            BY <6>1, ValueFacts
          <6> QED BY <1>3, <4>2, <5>2, <6>1, <6>2, <6>3 DEF ListAt, ProxyAt
        <5> QED BY <5>1, <5>2
      <4>4. Persists(a, a)
        BY <3>1, <3>2, <4>1, <4>2, <4>3
      <4> QED BY <4>4
    <3> QED BY <3>3, <3>4
  <2>2. TracksInStep /\ Distinct
    BY <1>9, <1>10 DEF Inv
  <2>3. \A c \in 1 .. Top : c <= Top' => stack'[c].of = stack[c].of
    BY <1>2, <1>3, <1>4
  <2> QED BY <1>1, <1>6, <2>1, <2>2, <2>3, AllPersist
<1>11. ProxiesAreFreed'
  <2> SUFFICES ASSUME misused' = {} PROVE Cardinality(Alive') = Cardinality(Started')
    BY DEF ProxiesAreFreed, Alive, Started
  <2>1. misused = {} /\ Lost = {}
    BY <1>9
  <2>2. ASSUME NEW c \in 1 .. Top, NEW n \in Locals
        PROVE  /\ stack[c].lists[n].call # Top
               /\ c = Top => stack[c].lists[n] = NoArgument
    BY <2>1 DEF Lost
  <2>3. Started' = {a \in (1 .. t) \X Locals : stack'[a[1]].lists[a[2]] # NoArgument}
    BY <1>4 DEF Started, NoArgument
  <2>4. ASSUME NEW c \in 1 .. t, NEW n \in Locals
        PROVE  stack'[c].lists[n] = stack[c].lists[n]
    <3>1. stack[c].lists[n].call # Top
      BY <1>2, <2>2
    <3> QED BY <1>3, <3>1 DEF Survives
  <2>5. \A a \in (1 .. Top) \X Locals : a[1] = Top => stack[a[1]].lists[a[2]] = NoArgument
    BY <2>2
  <2>6. Started' = Started
    <3>1. Started = {a \in (1 .. t) \X Locals : stack[a[1]].lists[a[2]] # NoArgument}
      BY <1>2, <2>5 DEF Started
    <3> QED BY <2>3, <2>4, <3>1
  <2>7. Alive' = Alive
    BY <1>1 DEF Alive
  <2> QED BY <2>1, <2>6, <2>7, Counted
<1>12. VarArgBoundsAreRight'
  BY <1>1, <1>9, GotStays DEF Inv
<1> QED BY <1>6, <1>7, <1>8, <1>10, <1>11, <1>12 DEF Inv

-----------------------------------------------------------------------------
(* The invariant.                                                           *)

\* At first no list is started.
LEMMA InitKeeps == Init => Inv
<1> SUFFICES ASSUME Init PROVE Inv
  OBVIOUS
<1>1. PICK s \in Signatures : s.lists = {} /\ stack = <<Enter(s, 1, Frame(s, 1, <<>>), <<>>)>>
  BY DEF Init
<1>2. PICK r : r = Enter(s, 1, Frame(s, 1, <<>>), <<>>)
  OBVIOUS
<1>3. 1 \in 1 .. MaxDepth
  BY BoundAssumption DEF BoundAssumption
<1>4. /\ r \in Calls(1, 0) /\ r.of = s /\ r.frame = Frame(s, 1, <<>>) /\ r.loaded = Shared
      /\ \A n \in Locals : r.lists[n] = NoArgument
      /\ \A v \in Variables :
           IF v.kind = "local" THEN r.ref[v] = [call |-> 1, n |-> v.n] /\ v.n \in Locals
           ELSE r.ref[v] = NoList
  <2>1. PICK d \in 1 .. MaxDepth, m \in Nat : d = 1 /\ m = 0
    BY <1>3
  <2>2. PICK none : none = <<>>
    OBVIOUS
  <2>3. /\ \A j \in s.lists : none[j] \in 0 .. m
        /\ \A j \in s.lists : none[j] \in ListsTo(d)
    BY <1>1
  <2>4. LET new == Enter(s, d, Frame(s, d, none), none) IN
         /\ new \in Calls(d, m)
         /\ new.of = s /\ new.frame = Frame(s, d, none) /\ new.loaded = Shared
         /\ \A n \in Locals : new.lists[n] = NoArgument
         /\ \A v \in Variables :
              IF v.kind = "local" THEN new.ref[v] = [call |-> d, n |-> v.n] /\ v.n \in Locals
              ELSE IF v.kind = "param" /\ v.n \in s.lists
                THEN new.ref[v] = none[v.n] /\ new.proxy[v] = none[v.n]
              ELSE new.ref[v] = NoList
    BY <2>3, EnterFacts
  <2> QED BY <1>1, <1>2, <2>1, <2>2, <2>4
<1>5. stack = <<r>> /\ Len(stack) = 1 /\ stack[1] = r /\ Top = 1 /\ 1 .. Top = {1}
  BY <1>1, <1>2 DEF Top
<1>6. heap = <<>> /\ Len(heap) = 0 /\ DOMAIN heap = {}
  BY DEF Init
<1>7. /\ memory = [m \in InMemory |-> NoList] /\ table = [m \in InMemory |-> NoProxy]
      /\ got.bounds = got.arg /\ stale = {} /\ misused = {}
  BY DEF Init
<1>8. StateTypes
  <2>1. stack \in Seq(Calls(1, 0))
    <3> DEFINE C == Calls(1, 0)
    <3>1. r \in C
      BY <1>4
    <3> HIDE DEF C
    <3>2. stack \in Seq(C)
      BY <1>5, <3>1
    <3> QED BY <3>2 DEF C
  <2>2. memory \in [InMemory -> ListsTo(1)] /\ table \in [InMemory -> 0 .. 0]
    BY <1>7 DEF ListsTo, NoProxy
  <2> QED BY <1>3, <1>5, <1>6, <1>7, <2>1, <2>2 DEF StateTypes
<1>9. Framed
  BY <1>4, <1>5, FrameFacts DEF Framed
<1>10. LoadsAgree
  BY <1>4, <1>5, ValueFacts DEF LoadsAgree
<1>11. ASSUME NEW a \in Places PROVE ~Tracks(a)
  <2>1. CASE a[1] = 0
    <3>1. a[2] \in InMemory
      BY <1>5, <2>1 DEF Places
    <3> QED BY <1>7, <2>1, <3>1 DEF Tracks, ListAt
  <2>2. CASE a[1] # 0
    <3>1. a[1] = 1 /\ a[2] \in Variables
      BY <1>5, <2>2 DEF Places
    <3>2. ListAt(a) = r.ref[a[2]]
      BY <1>5, <3>1 DEF ListAt
    <3>3. CASE a[2].kind = "local"
      <4>1. PICK n \in Locals : ListAt(a) = [call |-> 1, n |-> n]
        BY <1>4, <3>1, <3>2, <3>3
      <4>2. Content(ListAt(a)) = NoArgument
        BY <1>4, <1>5, <4>1 DEF Content
      <4> QED BY <4>2 DEF Tracks
    <3>4. CASE a[2].kind # "local"
      BY <1>4, <3>1, <3>2, <3>4 DEF Tracks
    <3> QED BY <3>3, <3>4
  <2> QED BY <2>1, <2>2
<1>12. TracksInStep /\ Distinct
  BY <1>11 DEF TracksInStep, Distinct
<1>13. ProxiesAreFreed
  <2>1. Alive = {}
    BY <1>6 DEF Alive
  <2>2. Started = {}
    BY <1>4, <1>5 DEF Started
  <2> QED BY <2>1, <2>2 DEF ProxiesAreFreed, Alive, Started
<1> QED BY <1>7, <1>8, <1>9, <1>10, <1>12, <1>13 DEF Inv, VarArgBoundsAreRight

\* Every operation keeps the invariant.
LEMMA NextKeeps == Inv /\ [Next]_vars => Inv'
<1> SUFFICES ASSUME Inv, [Next]_vars PROVE Inv'
  OBVIOUS
<1>1. CASE \E v \in Usable :
             VaStart(v) \/ VaEnd(v) \/ VaArgPointer(v) \/ VaArgOther(v) \/ Return(v)
  <2>1. PICK v \in Values :
          VaStart(v) \/ VaEnd(v) \/ VaArgPointer(v) \/ VaArgOther(v) \/ Return(v)
    BY <1>1 DEF Usable
  <2> QED BY <2>1, VaStartKeeps, VaEndKeeps, VaArgPointerKeeps, VaArgOtherKeeps, ReturnKeeps
<1>2. CASE \E d, s \in Usable : VaCopy(d, s)
  BY <1>2, VaCopyKeeps DEF Usable
<1>3. CASE \E v \in Usable, m \in InMemory : StoreList(v, m)
  BY <1>3, StoreListKeeps DEF Usable
<1>4. CASE \E v \in Values, m \in InMemory : v.kind = "load" /\ LoadList(v, m)
  BY <1>4, LoadListKeeps
<1>5. CASE \E s \in Signatures : \E given \in [s.lists -> Usable] : Call(s, given)
  <2>1. PICK s \in Signatures : \E given \in [s.lists -> Usable] : Call(s, given)
    BY <1>5
  <2>2. PICK given \in [s.lists -> Usable] : Call(s, given)
    BY <2>1
  <2>3. given \in [s.lists -> Values]
    BY DEF Usable
  <2> QED BY <2>2, <2>3, CallKeeps
<1>6. CASE UNCHANGED vars
  <2>1. /\ Top' = Top /\ Places' = Places /\ (Followed' <=> Followed)
        /\ stack' = stack /\ heap' = heap /\ memory' = memory /\ table' = table /\ got' = got
        /\ stale' = stale /\ misused' = misused
    BY <1>6 DEF vars, Top, Places, Followed, InMemory
  <2>2. StateTypes' /\ Framed' /\ LoadsAgree' /\ VarArgBoundsAreRight'
    <3>1. SameCalls
      BY <2>1 DEF SameCalls
    <3> QED BY <2>1, <3>1, FramesStay
          DEF Inv, StateTypes, LoadsAgree, VarArgBoundsAreRight, InMemory
  <2>3. ASSUME Followed' PROVE TracksInStep' /\ Distinct'
    <3>1. TracksInStep /\ Distinct /\ StateTypes /\ LoadsAgree
      BY <2>1, <2>3 DEF Inv
    <3>2. StateTypes' /\ \A c \in 1 .. Top : c <= Top' => stack'[c].of = stack[c].of
      BY <2>1, <2>2
    <3>3. ASSUME NEW a \in Places', Tracks(a)' PROVE Persists(a, a)
      <4>1. a \in Places /\ a \notin stale
        BY <2>1, <3>3 DEF Tracks
      <4>2. ListAt(a)' = ListAt(a) /\ ProxyAt(a)' = ProxyAt(a)
        BY <2>1 DEF ListAt, ProxyAt
      <4>3. Content(ListAt(a))' = Content(ListAt(a))
        BY <2>1, <4>2 DEF Content
      <4> QED BY <2>1, <3>3, <4>1, <4>2, <4>3, PersistsFrom
    <3>4. \A a \in Places' : Tracks(a)' => \E b : Persists(a, b)
      BY <3>3
    <3> QED BY <3>1, <3>2, <3>4, AllPersist
  <2>4. ProxiesAreFreed'
    BY <2>1 DEF Inv, ProxiesAreFreed, NoArgument
  <2> QED BY <2>2, <2>3, <2>4 DEF Inv
<1> QED BY <1>1, <1>2, <1>3, <1>4, <1>5, <1>6 DEF Next

\* So every reachable state satisfies it.
LEMMA InvHolds == Spec => []Inv
BY InitKeeps, NextKeeps, PTL DEF Spec

-----------------------------------------------------------------------------
(***************************************************************************)
(* Theorems.                                                               *)
(***************************************************************************)

\* A frame has a slot for each pointer.
LEMMA Typed == Inv => TypeOK
<1> SUFFICES ASSUME Inv PROVE TypeOK
  OBVIOUS
<1>1. StateTypes /\ Framed
  BY DEF Inv
<1>2. /\ Top \in Nat /\ Top <= MaxDepth /\ MaxDepth \in Nat /\ Top = Len(stack)
      /\ \A c \in 1 .. Top : stack[c] \in Calls(Top, Len(heap))
  BY <1>1, CallFacts, BoundAssumption DEF Top, BoundAssumption
<1>3. ContentsTo(Top) \subseteq Arguments \cup {NoArgument}
        /\ ListsTo(Top) \subseteq Lists \cup {NoList}
  <2>1. 1 .. Top \subseteq 1 .. MaxDepth
    BY <1>2
  <2> QED BY <2>1 DEF ContentsTo, ListsTo, Arguments, Lists
<1>4. ASSUME NEW c \in 1 .. Top
      PROVE  /\ stack[c].of \in Signatures
             /\ stack[c].lists \in [Locals -> Arguments \cup {NoArgument}]
             /\ stack[c].ref \in [Values \cup {Shared} -> Lists \cup {NoList}]
             /\ stack[c].proxy \in [Variables -> 0 .. Len(heap)]
             /\ stack[c].frame \in
                  [0 .. Code!NumberOfPointers(stack[c].of.fun.ret)
                          + Cardinality({j \in DOMAIN Types(stack[c].of) :
                                           Types(stack[c].of)[j] = "p"}) - 1
                     -> [proxy : 0 .. Len(heap), arg : Arguments \cup {NoArgument}]]
  <2> DEFINE r == stack[c]
  <2>1. r \in Calls(Top, Len(heap))
    BY <1>2
  <2>2. /\ r.of \in Signatures /\ r.lists \in [Locals -> ContentsTo(Top)]
        /\ r.ref \in [Values \cup {Shared} -> ListsTo(Top)]
        /\ r.proxy \in [Variables -> 0 .. Len(heap)]
        /\ r.frame \in UNION {[0 .. n - 1 -> Entries(Len(heap))] : n \in Nat}
    BY <2>1 DEF Calls
  <2>3. r.lists \in [Locals -> Arguments \cup {NoArgument}]
          /\ r.ref \in [Values \cup {Shared} -> Lists \cup {NoList}]
    BY <1>3, <2>2
  <2>4. PICK n \in Nat : r.frame \in [0 .. n - 1 -> Entries(Len(heap))]
    BY <2>2
  <2>5. DOMAIN r.frame = 0 .. Code!FrameSize(CallOf(r.of)) - 1
    BY <1>1 DEF Framed
  <2> DEFINE P == Code!NumberOfPointers(r.of.fun.ret)
             count == Cardinality({j \in DOMAIN Types(r.of) : Types(r.of)[j] = "p"})
             E == [proxy : 0 .. Len(heap), arg : Arguments \cup {NoArgument}]
  <2>6. Code!FrameSize(CallOf(r.of)) = P + count
    BY <2>2, CallSlots
  <2>7. Entries(Len(heap)) = E /\ P \in Nat /\ count \in Nat
    <3>1. P \in Nat
      BY <2>2, SignatureFacts
    <3>2. Types(r.of) \in Seq(Type)
      BY <2>2, SignatureFacts
    <3>3. IsFiniteSet(DOMAIN Types(r.of))
      <4>1. DOMAIN Types(r.of) = 1 .. Len(Types(r.of)) /\ Len(Types(r.of)) \in Nat
        BY <3>2, LenProperties
      <4> QED BY <4>1, FS_Interval
    <3>4. count \in Nat
      <4>1. IsFiniteSet({j \in DOMAIN Types(r.of) : Types(r.of)[j] = "p"})
        BY <3>3, FS_Subset
      <4> QED BY <4>1, FS_CardinalityType
    <3> QED BY <3>1, <3>4 DEF Entries
  <2> HIDE DEF P, count, E
  <2>8. r.frame \in [0 .. P + count - 1 -> E]
    <3>1. 0 .. (P + count) - 1 = 0 .. P + count - 1
      BY <2>7
    <3> QED BY <2>4, <2>5, <2>6, <2>7, <3>1
  <2>9. /\ r.of \in Signatures /\ r.proxy \in [Variables -> 0 .. Len(heap)]
        /\ r.lists \in [Locals -> Arguments \cup {NoArgument}]
        /\ r.ref \in [Values \cup {Shared} -> Lists \cup {NoList}]
    BY <2>2, <2>3
  <2> HIDE DEF r
  <2>10. r.frame \in
           [0 .. Code!NumberOfPointers(r.of.fun.ret)
                   + Cardinality({j \in DOMAIN Types(r.of) : Types(r.of)[j] = "p"}) - 1
              -> [proxy : 0 .. Len(heap), arg : Arguments \cup {NoArgument}]]
    BY <2>8, Zenon DEF P, count, E
  <2> QED BY <2>9, <2>10, Zenon DEF r
<1>5. heap \in Seq([call : 1 .. MaxDepth, slot : Nat, live : BOOLEAN])
  BY <1>1 DEF StateTypes, Proxies
<1>6. memory \in [InMemory -> Lists \cup {NoList}] /\ table \in [InMemory -> 0 .. Len(heap)]
  BY <1>1, <1>2, <1>3 DEF StateTypes
<1>7. stale \subseteq (1 .. Top) \X Variables \cup {0} \X InMemory
  BY <1>1 DEF StateTypes, Places
<1> QED BY <1>4, <1>5, <1>6, <1>7 DEF TypeOK

\* The state keeps its types, and a frame has a slot for each pointer that is
\* passed or returned (computeSizeShadowStack).
THEOREM StateIsTyped == Spec => []TypeOK
BY InvHolds, Typed, PTL

\* Wherever a function finds a list, the proxy there is as far as the list,
\* whatever was passed, returned, stored or loaded before.
THEOREM ProxiesKeepUp == Spec => []ProxiesAreInStep
<1>1. Inv => ProxiesAreInStep
  <2> SUFFICES ASSUME Inv, Followed PROVE ProxiesAreInStep
    BY DEF ProxiesAreInStep
  <2>1. TracksInStep
    BY DEF Inv
  <2>2. ASSUME NEW c \in 1 .. Top, NEW v \in Variables,
               stack[c].ref[v] # NoList, <<c, v>> \notin stale,
               Content(stack[c].ref[v]) # NoArgument
        PROVE  InStep(stack[c].proxy[v], Content(stack[c].ref[v]))
    <3>1. PICK a : a = <<c, v>>
      OBVIOUS
    <3>2. a \in Places /\ ListAt(a) = stack[c].ref[v] /\ ProxyAt(a) = stack[c].proxy[v]
      BY <3>1, CallFacts DEF Inv, Places, ListAt, ProxyAt
    <3> QED BY <2>1, <2>2, <3>1, <3>2 DEF TracksInStep, Tracks
  <2>3. ASSUME NEW m \in InMemory, memory[m] # NoList, <<0, m>> \notin stale,
               Content(memory[m]) # NoArgument
        PROVE  InStep(table[m], Content(memory[m]))
    <3>1. PICK a : a = <<0, m>>
      OBVIOUS
    <3>2. a \in Places /\ ListAt(a) = memory[m] /\ ProxyAt(a) = table[m]
      BY <3>1 DEF Places, ListAt, ProxyAt
    <3> QED BY <2>1, <2>3, <3>1, <3>2 DEF TracksInStep, Tracks
  <2> QED BY <2>2, <2>3 DEF ProxiesAreInStep
<1> QED BY <1>1, InvHolds, PTL

\* Every pointer that is gotten from a va_list has its own bounds.
THEOREM VarArgsGetTheirBounds == Spec => []VarArgBoundsAreRight
<1>1. Inv => VarArgBoundsAreRight
  BY DEF Inv
<1> QED BY <1>1, InvHolds, PTL

\* Every list that is ended or left frees its proxy, and no other does.
THEOREM ProxiesDoNotLeak == Spec => []ProxiesAreFreed
<1>1. Inv => ProxiesAreFreed
  BY DEF Inv
<1> QED BY <1>1, InvHolds, PTL
=============================================================================
